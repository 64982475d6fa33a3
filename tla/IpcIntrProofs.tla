--------------------------- MODULE IpcIntrProofs ---------------------------
(***************************************************************************)
(* Proofs about IpcIntr: what the kernel keeps although interrupts fall     *)
(* between the statements of its system calls, for any processes, any      *)
(* driver tasks among them and any message types.                          *)
(***************************************************************************)
EXTENDS MCIpcIntr, IpcProofs

SendPcs == {"s_deadlock", "s_test", "s_assert", "s_copy", "s_clear_msg", "s_clear_flags",
            "s_clear_from", "s_end", "s_enqueue"}
ReceivePcs == {"r_test", "ri_copy", "ri_clear", "ri_end", "r_pick", "r_flag", "r_msg",
               "r_from", "block", "r_end"}

(* Entry q of the process table is as FieldsMatchFlags wants all of them. *)
FieldsOf(q) ==
    /\ ~(IsSending(q) /\ IsReceiving(q))
    /\ p_msg[q] <=> p_flags[q] # {}
    /\ IsSending(q) <=> p_sendto[q] # NO_TASK
    /\ IsReceiving(q) <=> p_recvfrom[q] # NO_TASK

(* The entry that a call has half changed: that of the destination while it *)
(* is being released, that of the caller while it is being blocked.         *)
HalfDone(q) ==
    \/ call.pc \in {"s_clear_flags", "s_clear_from"} /\ q = call.peer
    \/ call.pc \in {"r_msg", "r_from"} /\ q = call.p

(* The caller is on its way to sleep, and has not looked for an interrupt   *)
(* that has come since.                                                     *)
Dozing(q) == call.pc \in {"r_msg", "r_from", "block", "r_end"} /\ q = call.p

(* An interrupt that fell into the call has released q. *)
Woken(q) == q \in IntTask /\ p_flags[q] = {}

(* Who calls, with what message, and for whom. *)
CallMatches ==
    \/ call = NoCall
    \/ /\ call.pc \in SendPcs
       /\ call.p \in Proc /\ call.peer \in Proc \ {call.p}
       /\ mem[call.p] \in [source : {call.p}, type : Type]
    \/ /\ call.pc \in ReceivePcs
       /\ call.p \in Proc /\ call.peer \in (Proc \cup {ANY, INTERRUPT}) \ {call.p}

(* The entries apart from the one that is half changed. *)
EntriesMatch ==
    \A q \in Proc : /\ ~HalfDone(q) => FieldsOf(q)
                    /\ ~Dozing(q) => ~(WaitsForInterrupt(q) /\ has_int_msg[q])
                    /\ has_int_msg[q] => q \in IntTask

(* What msg_send() knows at each of its statements. *)
SendPhase ==
    /\ call.pc \in SendPcs => p_flags[call.p] = {}
    /\ call.pc \in {"s_test", "s_enqueue"} => ~deadlock(call.p, call.peer)
    /\ call.pc = "s_enqueue" => ~DestWaitsFor(call.peer, call.p)
    /\ call.pc \in {"s_assert", "s_copy", "s_clear_msg", "s_clear_flags"} =>
          DestWaitsFor(call.peer, call.p) \/ Woken(call.peer)
    /\ call.pc \in {"s_clear_flags", "s_clear_from"} =>
          /\ ~p_msg[call.peer] /\ p_sendto[call.peer] = NO_TASK /\ ~IsSending(call.peer)
          /\ call.pc = "s_clear_from" => p_flags[call.peer] = {}
          /\ IsReceiving(call.peer) => p_recvfrom[call.peer] # NO_TASK
          /\ call.pc = "s_clear_flags" =>
                (p_recvfrom[call.peer] # NO_TASK => IsReceiving(call.peer))
    /\ call.pc = "s_end" => p_flags[call.peer] = {}

(* What msg_receive() knows at each of its statements. *)
ReceivePhase ==
    /\ call.pc \in {"r_test", "ri_copy", "ri_clear", "ri_end", "r_pick", "r_flag"} =>
          p_flags[call.p] = {}
    /\ call.pc \in {"r_flag", "r_msg", "r_from", "block", "r_end"} =>
          ~SenderReady(call.p, call.peer)
    /\ call.pc \in {"r_msg", "r_from"} =>
          /\ p_flags[call.p] = {"RECEIVING"} /\ (p_msg[call.p] <=> call.pc = "r_from")
          /\ p_recvfrom[call.p] = NO_TASK /\ p_sendto[call.p] = NO_TASK
    /\ call.pc \in {"block", "r_end"} =>
          \/ p_flags[call.p] = {"RECEIVING"} /\ p_recvfrom[call.p] = call.peer
          \/ Woken(call.p)

IntrInv ==
    /\ IntrTypeOK
    /\ CallMatches
    /\ QueueIsSenders /\ NoMissedRendezvous /\ NoSendCycle
    /\ EntriesMatch
    /\ SendPhase /\ ReceivePhase
    /\ OnlyDriversTrip /\ (halted => call # NoCall)

-----------------------------------------------------------------------------
(***************************************************************************)
(* Steps that leave the process table alone, and steps of call.pc.         *)
(***************************************************************************)

table == <<p_flags, p_msg, p_recvfrom, p_sendto, has_int_msg, q_sending>>

(* Whatever the kernel finds out by looking at the table is as it was. *)
LEMMA TableKept ==
    ASSUME UNCHANGED table
    PROVE  /\ (QueueIsSenders /\ NoMissedRendezvous /\ NoSendCycle)
                 => (QueueIsSenders' /\ NoMissedRendezvous' /\ NoSendCycle')
           /\ \A q : /\ FieldsOf(q)' <=> FieldsOf(q)
                     /\ WaitsForInterrupt(q)' <=> WaitsForInterrupt(q)
                     /\ IsSending(q)' <=> IsSending(q)
                     /\ IsReceiving(q)' <=> IsReceiving(q)
           /\ \A q, r : /\ DestWaitsFor(q, r)' <=> DestWaitsFor(q, r)
                        /\ SenderReady(q, r)' <=> SenderReady(q, r)
                        /\ deadlock(q, r)' <=> deadlock(q, r)
  <1> USE DEF table
  <1>1. \A q : (IsSending(q)' <=> IsSending(q)) /\ (IsReceiving(q)' <=> IsReceiving(q))
    BY DEF IsSending, IsReceiving
  <1>2. \A q : (FieldsOf(q)' <=> FieldsOf(q)) /\ (WaitsForInterrupt(q)' <=> WaitsForInterrupt(q))
    BY <1>1 DEF FieldsOf, WaitsForInterrupt
  <1>3. \A q, r : (DestWaitsFor(q, r)' <=> DestWaitsFor(q, r))
                  /\ (SenderReady(q, r)' <=> SenderReady(q, r))
    BY <1>1 DEF DestWaitsFor, SenderReady
  <1>4. \A q, r : deadlock(q, r)' <=> deadlock(q, r)
    BY <1>1 DEF deadlock, ChainFrom
  <1>5. QueueIsSenders => QueueIsSenders'
    BY <1>1 DEF QueueIsSenders
  <1>6. NoMissedRendezvous => NoMissedRendezvous'
    BY <1>1, <1>3 DEF NoMissedRendezvous
  <1>7. NoSendCycle => NoSendCycle'
    BY <1>1 DEF NoSendCycle
  <1> QED  BY <1>1, <1>2, <1>3, <1>4, <1>5, <1>6, <1>7

(* The senders and their queues are as they were. *)
LEMMA SendersKept ==
    ASSUME \A q \in Proc : IsSending(q)' <=> IsSending(q), UNCHANGED <<p_sendto, q_sending>>
    PROVE  /\ QueueIsSenders => QueueIsSenders'
           /\ NoSendCycle => NoSendCycle'
           /\ \A p, d \in Proc : deadlock(p, d)' <=> deadlock(p, d)
           /\ \A p, src : SenderReady(p, src)' <=> SenderReady(p, src)
  <1>1. \A p, d \in Proc : deadlock(p, d)' <=> deadlock(p, d)
    <2>1. \A d \in Proc : ChainFrom(d)' = ChainFrom(d)
      BY DEF ChainFrom
    <2>2. \A d \in Proc : ChainFrom(d) \subseteq Proc
      BY DEF ChainFrom
    <2> QED  BY <2>1, <2>2 DEF deadlock
  <1>2. \A p, src : SenderReady(p, src)' <=> SenderReady(p, src)
    BY DEF SenderReady
  <1>3. QueueIsSenders => QueueIsSenders'
    BY DEF QueueIsSenders
  <1>4. NoSendCycle => NoSendCycle'
    BY DEF NoSendCycle
  <1> QED  BY <1>1, <1>2, <1>3, <1>4

(* The next statement of the same call. *)
LEMMA GotoFacts ==
    ASSUME call \in Calls, NEW pc \in SendPcs \cup ReceivePcs, Goto(pc)
    PROVE  call' \in Calls /\ call'.pc = pc /\ call'.p = call.p /\ call'.peer = call.peer
  <1>1. pc # "idle" /\ pc \in SendPcs \cup ReceivePcs \cup {"idle"}
    BY DEF SendPcs, ReceivePcs
  <1>2. call' = [call EXCEPT !.pc = pc]
    BY <1>1 DEF Goto
  <1> QED  BY <1>1, <1>2 DEF Calls, SendPcs, ReceivePcs

(* The call is over. *)
LEMMA GotoIdle ==
    ASSUME Goto("idle")
    PROVE  call' = NoCall /\ call' \in Calls /\ call'.pc = "idle"
  BY DEF Goto, NoCall, Calls

(* Between calls, and where no entry is half changed, the table is as Ipc   *)
(* has it.                                                                  *)
LEMMA SoundTable ==
    ASSUME IntrInv, \A q \in Proc : ~HalfDone(q) /\ ~Dozing(q)
    PROVE  IInv
  BY DEF IntrInv, IInv, IntrTypeOK, EntriesMatch, FieldsMatchFlags, FieldsOf, NoMissedInterrupt

(* A failed assertion stops everything; nothing else changes. *)
LEMMA HaltStep ==
    ASSUME IntrInv, UNCHANGED <<table, mem, call, nullwrite>>, halted' = TRUE, call # NoCall,
           call.pc = "s_deadlock" \/ call.p \in IntTask \/ call.peer \in IntTask
    PROVE  IntrInv'
  <1>1. IntrTypeOK'
    BY DEF IntrInv, IntrTypeOK, TypeOK, table
  <1>2. CallMatches'
    BY DEF IntrInv, CallMatches
  <1>3. QueueIsSenders' /\ NoMissedRendezvous' /\ NoSendCycle'
    BY TableKept DEF IntrInv
  <1>4. EntriesMatch'
    BY TableKept DEF IntrInv, EntriesMatch, HalfDone, Dozing, table
  <1>5. SendPhase'
    BY TableKept DEF IntrInv, SendPhase, Woken, table
  <1>6. ReceivePhase'
    BY TableKept DEF IntrInv, ReceivePhase, Woken, table
  <1>7. OnlyDriversTrip' /\ (halted' => call' # NoCall)
    BY DEF OnlyDriversTrip
  <1> QED  BY <1>1, <1>2, <1>3, <1>4, <1>5, <1>6, <1>7 DEF IntrInv

(* A step to a statement before which no entry may be half changed, from    *)
(* one like it, needs only what the new statement knows.                    *)
LEMMA QuietStep ==
    ASSUME IntrInv, UNCHANGED table, ~halted', IntrTypeOK', CallMatches',
           SendPhase', ReceivePhase',
           \A q \in Proc : ~HalfDone(q) /\ ~Dozing(q)
    PROVE  IntrInv'
  <1>1. QueueIsSenders' /\ NoMissedRendezvous' /\ NoSendCycle'
    BY TableKept DEF IntrInv
  <1>2. EntriesMatch'
    BY TableKept DEF IntrInv, EntriesMatch, table
  <1> QED  BY <1>1, <1>2 DEF IntrInv, OnlyDriversTrip

(* The table is sound and the call is over. *)
LEMMA CallOver ==
    ASSUME IInv', call' = NoCall, ~halted', nullwrite' \in BOOLEAN,
           \A q \in Proc : has_int_msg'[q] => q \in IntTask
    PROVE  IntrInv'
  <1>1. call' \in Calls /\ call'.pc = "idle"
    BY DEF NoCall, Calls
  <1>2. IntrTypeOK' /\ CallMatches'
    BY <1>1 DEF IInv, IntrTypeOK, CallMatches
  <1>3. EntriesMatch'
    BY DEF IInv, EntriesMatch, FieldsMatchFlags, FieldsOf, NoMissedInterrupt
  <1>4. SendPhase' /\ ReceivePhase'
    BY <1>1 DEF SendPhase, ReceivePhase, SendPcs
  <1> QED  BY <1>2, <1>3, <1>4 DEF IInv, IntrInv, OnlyDriversTrip

(* A step that ends the call and leaves a sound table as it is. *)
LEMMA QuietEnd ==
    ASSUME IntrInv, IInv, UNCHANGED <<table, mem, halted, nullwrite>>, ~halted, Goto("idle")
    PROVE  IntrInv'
  <1>1. QueueIsSenders' /\ NoMissedRendezvous' /\ NoSendCycle' /\ FieldsMatchFlags'
        /\ NoMissedInterrupt'
    BY TableKept DEF IInv, FieldsMatchFlags, NoMissedInterrupt, table
  <1>2. TypeOK'
    BY DEF IInv, TypeOK, table
  <1> QED  BY <1>1, <1>2, GotoIdle, CallOver DEF IInv, IntrInv, IntrTypeOK, EntriesMatch, table

(* Who calls, in the middle of msg_send(). *)
LEMMA InSend ==
    ASSUME IntrInv, call.pc \in SendPcs
    PROVE  /\ call.p \in Proc /\ call.peer \in Proc /\ call.p # call.peer
           /\ mem[call.p] \in [source : {call.p}, type : Type]
           /\ p_flags[call.p] = {} /\ call # NoCall /\ call \in Calls
  BY DEF IntrInv, IntrTypeOK, CallMatches, SendPhase, SendPcs, ReceivePcs, NoCall

(* Who calls, in the middle of msg_receive(). *)
LEMMA InReceive ==
    ASSUME IntrInv, call.pc \in ReceivePcs
    PROVE  /\ call.p \in Proc /\ call.peer \in Proc \cup {ANY, INTERRUPT}
           /\ call.p # call.peer /\ call # NoCall /\ call \in Calls
  BY DEF IntrInv, IntrTypeOK, CallMatches, SendPcs, ReceivePcs, NoCall

-----------------------------------------------------------------------------
(***************************************************************************)
(* msg_send()                                                              *)
(***************************************************************************)

(* sys_sendrec() stamps the message and selects msg_send(). *)
LEMMA EnterSendInv ==
    ASSUME IntrInv, NEW p \in Proc, NEW d \in Proc, NEW t \in Type, EnterSend(p, d, t)
    PROVE  IntrInv'
  <1>1. /\ call.pc = "idle" /\ ~halted' /\ p # d /\ p_flags[p] = {}
        /\ UNCHANGED <<table, nullwrite, halted>>
        /\ mem' = [mem EXCEPT ![p] = [source |-> p, type |-> t]]
    BY DEF EnterSend, At, CanCall, table
  <1>2. call' \in Calls /\ call'.pc = "s_deadlock" /\ call'.p = p /\ call'.peer = d
    BY DEF EnterSend, Calls
  <1>3. mem \in [Proc -> Message] /\ mem'[p] = [source |-> p, type |-> t]
    BY <1>1 DEF IntrInv, IntrTypeOK, TypeOK
  <1>4. IntrTypeOK'
    BY <1>1, <1>2, <1>3 DEF IntrInv, IntrTypeOK, TypeOK, Message, table
  <1>5. CallMatches'
    BY <1>1, <1>2, <1>3 DEF CallMatches, SendPcs
  <1>6. SendPhase'
    BY <1>1, <1>2 DEF SendPhase, table
  <1>7. ReceivePhase'
    BY <1>2 DEF ReceivePhase
  <1> QED  BY <1>1, <1>4, <1>5, <1>6, <1>7, QuietStep DEF HalfDone, Dozing

(* deadlock() finds a circle and panics, or the senders stay without one. *)
LEMMA SDeadlockInv == ASSUME IntrInv, s_deadlock PROVE IntrInv'
  <1>1. call.pc = "s_deadlock" /\ UNCHANGED <<table, mem, nullwrite>> /\ ~halted
    BY DEF s_deadlock, At, table
  <1>2. call.pc \in SendPcs
    BY <1>1 DEF SendPcs
  <1>3. CASE deadlock(call.p, call.peer)
    BY <1>1, <1>2, <1>3, InSend, HaltStep DEF s_deadlock, Expect
  <1>4. CASE ~deadlock(call.p, call.peer)
    <2>1. Goto("s_test") /\ halted' = halted
      BY <1>1, <1>4 DEF s_deadlock, Expect
    <2>2. call' \in Calls /\ call'.pc = "s_test" /\ call'.p = call.p /\ call'.peer = call.peer
      BY <1>2, <2>1, InSend, GotoFacts DEF SendPcs
    <2>3. IntrTypeOK'
      BY <1>1, <2>1, <2>2 DEF IntrInv, IntrTypeOK, TypeOK, table
    <2>4. CallMatches'
      BY <1>1, <1>2, <2>2, InSend DEF CallMatches, SendPcs
    <2>5. SendPhase'
      BY <1>1, <1>2, <1>4, <2>2, InSend, TableKept DEF SendPhase, table
    <2>6. ReceivePhase'
      BY <2>2 DEF ReceivePhase
    <2> QED  BY <1>1, <2>1, <2>3, <2>4, <2>5, <2>6, QuietStep DEF HalfDone, Dozing
  <1> QED  BY <1>3, <1>4

(* The destination is found waiting, or the caller is going to wait. *)
LEMMA STestInv == ASSUME IntrInv, s_test PROVE IntrInv'
  <1>1. call.pc = "s_test" /\ UNCHANGED <<table, mem, halted, nullwrite>> /\ ~halted
    BY DEF s_test, At, vars, table
  <1>2. call.pc \in SendPcs
    BY <1>1 DEF SendPcs
  <1>3. /\ call' \in Calls /\ call'.pc \in {"s_assert", "s_enqueue"}
        /\ call'.p = call.p /\ call'.peer = call.peer
        /\ call'.pc = "s_assert" <=> DestWaitsFor(call.peer, call.p)
    <2>1. CASE DestWaitsFor(call.peer, call.p)
      BY <1>2, <2>1, InSend, GotoFacts DEF s_test, SendPcs
    <2>2. CASE ~DestWaitsFor(call.peer, call.p)
      BY <1>2, <2>2, InSend, GotoFacts DEF s_test, SendPcs
    <2> QED  BY <2>1, <2>2
  <1>4. IntrTypeOK'
    BY <1>1, <1>3 DEF IntrInv, IntrTypeOK, TypeOK, table
  <1>5. CallMatches'
    BY <1>1, <1>2, <1>3, InSend DEF CallMatches, SendPcs
  <1>6. SendPhase'
    BY <1>1, <1>2, <1>3, InSend, TableKept DEF IntrInv, SendPhase, SendPcs, table
  <1>7. ReceivePhase'
    BY <1>3 DEF ReceivePhase
  <1> QED  BY <1>1, <1>4, <1>5, <1>6, <1>7, QuietStep DEF HalfDone, Dozing

(* A destination that waits has a buffer, unless an interrupt released it. *)
LEMMA SAssertInv == ASSUME IntrInv, s_assert PROVE IntrInv'
  <1>1. call.pc = "s_assert" /\ UNCHANGED <<table, mem, nullwrite>> /\ ~halted
    BY DEF s_assert, At, table
  <1>2. call.pc \in SendPcs
    BY <1>1 DEF SendPcs
  <1>3. CASE ~p_msg[call.peer]
    <2>1. FieldsOf(call.peer)
      BY <1>1, <1>2, InSend DEF IntrInv, EntriesMatch, HalfDone
    <2>2. call.peer \in IntTask
      BY <1>1, <1>3, <2>1 DEF IntrInv, SendPhase, DestWaitsFor, FieldsOf, IsReceiving, Woken
    <2> QED  BY <1>1, <1>2, <1>3, <2>2, InSend, HaltStep DEF s_assert, Expect
  <1>4. CASE p_msg[call.peer]
    <2>1. Goto("s_copy") /\ halted' = halted
      BY <1>1, <1>4 DEF s_assert, Expect
    <2>2. call' \in Calls /\ call'.pc = "s_copy" /\ call'.p = call.p /\ call'.peer = call.peer
      BY <1>2, <2>1, InSend, GotoFacts DEF SendPcs
    <2>3. IntrTypeOK'
      BY <1>1, <2>1, <2>2 DEF IntrInv, IntrTypeOK, TypeOK, table
    <2>4. CallMatches'
      BY <1>1, <1>2, <2>2, InSend DEF CallMatches, SendPcs
    <2>5. SendPhase'
      BY <1>1, <1>2, <2>2, InSend, TableKept DEF IntrInv, SendPhase, Woken, table
    <2>6. ReceivePhase'
      BY <2>2 DEF ReceivePhase
    <2> QED  BY <1>1, <2>1, <2>3, <2>4, <2>5, <2>6, QuietStep DEF HalfDone, Dozing
  <1> QED  BY <1>3, <1>4

(* The message is copied, or written to nowhere. *)
LEMMA SCopyInv == ASSUME IntrInv, s_copy PROVE IntrInv'
  <1>1. call.pc = "s_copy" /\ UNCHANGED <<table, halted>> /\ ~halted
    BY DEF s_copy, At, table
  <1>2. call.pc \in SendPcs
    BY <1>1 DEF SendPcs
  <1>3. call' \in Calls /\ call'.pc = "s_clear_msg" /\ call'.p = call.p /\ call'.peer = call.peer
    BY <1>2, InSend, GotoFacts DEF s_copy, SendPcs
  <1>4. /\ mem' \in [Proc -> Message] /\ mem'[call.p] = mem[call.p]
        /\ nullwrite' \in BOOLEAN
    <2>1. \/ mem' = [mem EXCEPT ![call.peer] = mem[call.p]] /\ nullwrite' = nullwrite
          \/ mem' = mem /\ nullwrite' = TRUE
      BY DEF s_copy
    <2>2. mem \in [Proc -> Message] /\ nullwrite \in BOOLEAN
      BY DEF IntrInv, IntrTypeOK, TypeOK
    <2> QED  BY <1>2, <2>1, <2>2, InSend
  <1>5. IntrTypeOK'
    BY <1>1, <1>3, <1>4 DEF IntrInv, IntrTypeOK, TypeOK, table
  <1>6. CallMatches'
    BY <1>2, <1>3, <1>4, InSend DEF CallMatches, SendPcs
  <1>7. SendPhase'
    BY <1>1, <1>2, <1>3, InSend, TableKept DEF IntrInv, SendPhase, Woken, table
  <1>8. ReceivePhase'
    BY <1>3 DEF ReceivePhase
  <1> QED  BY <1>1, <1>5, <1>6, <1>7, <1>8, QuietStep DEF HalfDone, Dozing

(* From here on the destination's entry is being changed. *)
LEMMA SClearMsgInv == ASSUME IntrInv, s_clear_msg PROVE IntrInv'
  <1>1. /\ call.pc = "s_clear_msg" /\ ~halted /\ call.pc \in SendPcs
        /\ UNCHANGED <<p_flags, p_recvfrom, p_sendto, has_int_msg, q_sending, mem, halted, nullwrite>>
    BY DEF s_clear_msg, At, SendPcs
  <1>2. call' \in Calls /\ call'.pc = "s_clear_flags" /\ call'.p = call.p /\ call'.peer = call.peer
    BY <1>1, InSend, GotoFacts DEF s_clear_msg, SendPcs
  <1>3. /\ p_msg' \in [Proc -> BOOLEAN] /\ p_msg'[call.peer] = FALSE
        /\ \A q \in Proc \ {call.peer} : p_msg'[q] = p_msg[q]
    BY <1>1, InSend DEF s_clear_msg, IntrInv, IntrTypeOK, TypeOK
  <1>4. /\ \A q : IsSending(q)' <=> IsSending(q)
        /\ \A q : IsReceiving(q)' <=> IsReceiving(q)
        /\ \A q : WaitsForInterrupt(q)' <=> WaitsForInterrupt(q)
        /\ \A q, r : DestWaitsFor(q, r)' <=> DestWaitsFor(q, r)
    BY <1>1 DEF IsSending, IsReceiving, WaitsForInterrupt, DestWaitsFor
  <1>5. IntrTypeOK'
    BY <1>1, <1>2, <1>3 DEF IntrInv, IntrTypeOK, TypeOK
  <1>6. CallMatches'
    BY <1>1, <1>2, InSend DEF CallMatches, SendPcs
  <1>7. QueueIsSenders' /\ NoSendCycle'
    BY <1>1, <1>4, SendersKept DEF IntrInv
  <1>8. NoMissedRendezvous'
    BY <1>1, <1>4 DEF IntrInv, NoMissedRendezvous
  <1>9. FieldsOf(call.peer)
    BY <1>1, InSend DEF IntrInv, EntriesMatch, HalfDone
  <1>10. EntriesMatch'
    BY <1>1, <1>2, <1>3, <1>4 DEF IntrInv, EntriesMatch, HalfDone, Dozing, FieldsOf
  <1>11. DestWaitsFor(call.peer, call.p) \/ Woken(call.peer)
    BY <1>1 DEF IntrInv, SendPhase
  <1>12. p_sendto[call.peer] = NO_TASK /\ ~IsSending(call.peer)
    BY <1>9, <1>11 DEF FieldsOf, DestWaitsFor, Woken, IsSending
  <1>13. SendPhase'
    BY <1>1, <1>2, <1>3, <1>4, <1>9, <1>11, <1>12, InSend DEF SendPhase, Woken, FieldsOf
  <1>14. ReceivePhase'
    BY <1>2 DEF ReceivePhase
  <1> QED  BY <1>1, <1>5, <1>6, <1>7, <1>8, <1>10, <1>13, <1>14 DEF IntrInv, OnlyDriversTrip

(* RECEIVING of the destination is taken away. *)
LEMMA SClearFlagsInv == ASSUME IntrInv, s_clear_flags PROVE IntrInv'
  <1>1. /\ call.pc = "s_clear_flags" /\ ~halted /\ call.pc \in SendPcs
        /\ UNCHANGED <<p_msg, p_recvfrom, p_sendto, has_int_msg, q_sending, mem, halted, nullwrite>>
    BY DEF s_clear_flags, At, SendPcs
  <1>2. call' \in Calls /\ call'.pc = "s_clear_from" /\ call'.p = call.p /\ call'.peer = call.peer
    BY <1>1, InSend, GotoFacts DEF s_clear_flags, SendPcs
  <1>3. /\ p_flags' \in [Proc -> SUBSET {"SENDING", "RECEIVING"}]
        /\ p_flags'[call.peer] = p_flags[call.peer] \ {"RECEIVING"}
        /\ \A q \in Proc \ {call.peer} : p_flags'[q] = p_flags[q]
    BY <1>1, InSend DEF s_clear_flags, IntrInv, IntrTypeOK, TypeOK
  <1>4. /\ ~p_msg[call.peer] /\ p_sendto[call.peer] = NO_TASK /\ ~IsSending(call.peer)
        /\ p_flags[call.peer] \in SUBSET {"SENDING", "RECEIVING"}
    BY <1>1, InSend DEF IntrInv, IntrTypeOK, TypeOK, SendPhase
  <1>5. p_flags'[call.peer] = {}
    BY <1>3, <1>4 DEF IsSending
  <1>6. /\ \A q \in Proc : IsSending(q)' <=> IsSending(q)
        /\ \A q \in Proc \ {call.peer} : IsReceiving(q)' <=> IsReceiving(q)
        /\ ~IsReceiving(call.peer)'
    BY <1>2, <1>3, <1>4, <1>5 DEF IsSending, IsReceiving
  <1>7. IntrTypeOK'
    BY <1>1, <1>2, <1>3 DEF IntrInv, IntrTypeOK, TypeOK
  <1>8. CallMatches'
    BY <1>1, <1>2, InSend DEF CallMatches, SendPcs
  <1>9. QueueIsSenders' /\ NoSendCycle'
    BY <1>1, <1>6, SendersKept DEF IntrInv
  <1>10. NoMissedRendezvous'
    BY <1>1, <1>2, <1>6 DEF IntrInv, NoMissedRendezvous, DestWaitsFor
  <1>11. EntriesMatch'
    BY <1>1, <1>2, <1>3, <1>6 DEF IntrInv, EntriesMatch, HalfDone, Dozing, FieldsOf, WaitsForInterrupt
  <1>12. SendPhase'
    BY <1>1, <1>2, <1>3, <1>4, <1>5, <1>6, InSend DEF SendPhase
  <1>13. ReceivePhase'
    BY <1>2 DEF ReceivePhase
  <1> QED  BY <1>1, <1>7, <1>8, <1>9, <1>10, <1>11, <1>12, <1>13 DEF IntrInv, OnlyDriversTrip

(* p_recvfrom of the destination is reset, and its entry is whole again. *)
LEMMA SClearFromInv == ASSUME IntrInv, s_clear_from PROVE IntrInv'
  <1>1. /\ call.pc = "s_clear_from" /\ ~halted /\ call.pc \in SendPcs
        /\ UNCHANGED <<p_flags, p_msg, p_sendto, has_int_msg, q_sending, mem, halted, nullwrite>>
    BY DEF s_clear_from, At, SendPcs
  <1>2. call' \in Calls /\ call'.pc = "s_end" /\ call'.p = call.p /\ call'.peer = call.peer
    BY <1>1, InSend, GotoFacts DEF s_clear_from, SendPcs
  <1>3. /\ p_recvfrom' \in [Proc -> Proc \cup {ANY, INTERRUPT, NO_TASK}]
        /\ p_recvfrom'[call.peer] = NO_TASK
        /\ \A q \in Proc \ {call.peer} : p_recvfrom'[q] = p_recvfrom[q]
    BY <1>1, InSend DEF s_clear_from, IntrInv, IntrTypeOK, TypeOK
  <1>4. ~p_msg[call.peer] /\ p_sendto[call.peer] = NO_TASK /\ p_flags[call.peer] = {}
    BY <1>1, InSend DEF IntrInv, SendPhase
  <1>5. \A q : (IsSending(q)' <=> IsSending(q)) /\ (IsReceiving(q)' <=> IsReceiving(q))
    BY <1>1 DEF IsSending, IsReceiving
  <1>6. ~IsSending(call.peer) /\ ~IsReceiving(call.peer)
    BY <1>4 DEF IsSending, IsReceiving
  <1>7. IntrTypeOK'
    BY <1>1, <1>2, <1>3 DEF IntrInv, IntrTypeOK, TypeOK
  <1>8. CallMatches'
    BY <1>1, <1>2, InSend DEF CallMatches, SendPcs
  <1>9. QueueIsSenders' /\ NoSendCycle'
    BY <1>1, <1>5, SendersKept DEF IntrInv
  <1>10. NoMissedRendezvous'
    BY <1>1, <1>3, <1>5, <1>6 DEF IntrInv, NoMissedRendezvous, DestWaitsFor
  <1>11. EntriesMatch'
    <2> SUFFICES ASSUME NEW q \in Proc
                 PROVE  /\ FieldsOf(q)'
                        /\ ~(WaitsForInterrupt(q)' /\ has_int_msg'[q])
                        /\ has_int_msg'[q] => q \in IntTask
      BY <1>2 DEF EntriesMatch
    <2>1. CASE q = call.peer
      BY <1>1, <1>3, <1>4, <1>5, <1>6, <2>1 DEF IntrInv, EntriesMatch, FieldsOf, WaitsForInterrupt
    <2>2. CASE q # call.peer
      BY <1>1, <1>3, <1>5, <2>2 DEF IntrInv, EntriesMatch, HalfDone, Dozing, FieldsOf, WaitsForInterrupt
    <2> QED  BY <2>1, <2>2
  <1>12. SendPhase'
    BY <1>1, <1>2, <1>4, InSend DEF SendPhase
  <1>13. ReceivePhase'
    BY <1>2 DEF ReceivePhase
  <1> QED  BY <1>1, <1>7, <1>8, <1>9, <1>10, <1>11, <1>12, <1>13 DEF IntrInv, OnlyDriversTrip

(* The eight assertions at the end of a delivery never fail. *)
LEMMA SEndInv == ASSUME IntrInv, s_end PROVE IntrInv' /\ ~halted'
  <1>1. /\ call.pc = "s_end" /\ ~halted /\ call.pc \in SendPcs
        /\ UNCHANGED <<table, mem, nullwrite>>
    BY DEF s_end, At, SendPcs, table
  <1>2. IInv
    BY <1>1, SoundTable DEF HalfDone, Dozing
  <1>3. p_flags[call.peer] = {} /\ p_flags[call.p] = {}
    BY <1>1, InSend DEF IntrInv, SendPhase
  <1>4. Untouched(call.peer) /\ Untouched(call.p)
    BY <1>1, <1>2, <1>3, InSend DEF IInv, FieldsMatchFlags, IsSending, IsReceiving, Untouched
  <1>5. Goto("idle") /\ halted' = halted
    BY <1>4 DEF s_end, Expect
  <1> QED  BY <1>1, <1>2, <1>5, QuietEnd

(* The caller joins the queue, as in Ipc. *)
LEMMA SEnqueueInv == ASSUME IntrInv, s_enqueue PROVE IntrInv'
  <1>1. /\ call.pc = "s_enqueue" /\ ~halted /\ call.pc \in SendPcs
        /\ Goto("idle") /\ UNCHANGED <<has_int_msg, mem, halted, nullwrite>>
    BY DEF s_enqueue, At, SendPcs
  <1>2. PICK p \in Proc, d \in Proc : p = call.p /\ d = call.peer /\ p # d
    BY <1>1, InSend
  <1>3. PICK t \in Type : mem[p] = [source |-> p, type |-> t]
    BY <1>1, <1>2, InSend
  <1>4. IInv
    BY <1>1, SoundTable DEF HalfDone, Dozing
  <1>5. CanCall(p) /\ ~deadlock(p, d) /\ ~DestWaitsFor(d, p)
    BY <1>1, <1>2, InSend DEF IntrInv, SendPhase, CanCall
  <1>6. mem' = [mem EXCEPT ![p] = [source |-> p, type |-> t]]
    BY <1>1, <1>3, <1>4 DEF IInv, TypeOK
  <1>7. SendBlock(p, d, [source |-> p, type |-> t])
    BY <1>2, <1>5, <1>6 DEF s_enqueue, SendBlock
  <1>8. IInv'
    BY <1>2, <1>4, <1>5, <1>7, SendBlockIInv
  <1> QED  BY <1>1, <1>8, GotoIdle, CallOver DEF IntrInv, IntrTypeOK, EntriesMatch

-----------------------------------------------------------------------------
(***************************************************************************)
(* msg_receive()                                                           *)
(***************************************************************************)

(* sys_sendrec() prepares the buffer and selects msg_receive(). *)
LEMMA EnterReceiveInv ==
    ASSUME IntrInv, NEW p \in Proc, NEW src \in Proc \cup {ANY, INTERRUPT},
           NEW both \in BOOLEAN, EnterReceive(p, src, both)
    PROVE  IntrInv'
  <1>1. /\ call.pc = "idle" /\ ~halted' /\ p # src /\ p_flags[p] = {}
        /\ UNCHANGED <<table, nullwrite, halted>>
        /\ mem' = [mem EXCEPT ![p] = Buffer(p, both)]
    BY DEF EnterReceive, At, CanCall, table
  <1>2. call' \in Calls /\ call'.pc = "r_test" /\ call'.p = p /\ call'.peer = src
    BY DEF EnterReceive, Calls
  <1>3. mem \in [Proc -> Message] /\ Buffer(p, both) \in Message
    BY DEF IntrInv, IntrTypeOK, TypeOK, Buffer, Message
  <1>4. IntrTypeOK'
    BY <1>1, <1>2, <1>3 DEF IntrInv, IntrTypeOK, TypeOK, table
  <1>5. CallMatches'
    BY <1>1, <1>2 DEF CallMatches, ReceivePcs
  <1>6. SendPhase'
    BY <1>2 DEF SendPhase, SendPcs
  <1>7. ReceivePhase'
    BY <1>1, <1>2 DEF ReceivePhase, table
  <1> QED  BY <1>1, <1>4, <1>5, <1>6, <1>7, QuietStep DEF HalfDone, Dozing

(* A pending interrupt is taken first. *)
LEMMA RTestInv == ASSUME IntrInv, r_test PROVE IntrInv'
  <1>1. /\ call.pc = "r_test" /\ ~halted /\ call.pc \in ReceivePcs
        /\ UNCHANGED <<table, mem, halted, nullwrite>>
    BY DEF r_test, At, vars, table, ReceivePcs
  <1>2. /\ call' \in Calls /\ call'.pc \in {"ri_copy", "r_pick"}
        /\ call'.p = call.p /\ call'.peer = call.peer
    <2>1. CASE TakesInterrupt(call.p, call.peer)
      BY <1>1, <2>1, InReceive, GotoFacts DEF r_test, ReceivePcs
    <2>2. CASE ~TakesInterrupt(call.p, call.peer)
      BY <1>1, <2>2, InReceive, GotoFacts DEF r_test, ReceivePcs
    <2> QED  BY <2>1, <2>2
  <1>3. IntrTypeOK'
    BY <1>1, <1>2 DEF IntrInv, IntrTypeOK, TypeOK, table
  <1>4. CallMatches'
    BY <1>1, <1>2, InReceive DEF CallMatches, ReceivePcs
  <1>5. SendPhase'
    BY <1>2 DEF SendPhase, SendPcs
  <1>6. ReceivePhase'
    BY <1>1, <1>2 DEF IntrInv, ReceivePhase, table
  <1> QED  BY <1>1, <1>3, <1>4, <1>5, <1>6, QuietStep DEF HalfDone, Dozing

(* The interrupt's message is made up in the caller's buffer. *)
LEMMA RiCopyInv == ASSUME IntrInv, ri_copy PROVE IntrInv'
  <1>1. /\ call.pc = "ri_copy" /\ ~halted /\ call.pc \in ReceivePcs
        /\ UNCHANGED <<table, halted, nullwrite>>
        /\ mem' = [mem EXCEPT ![call.p] = [source |-> INTERRUPT, type |-> HARD_INT]]
    BY DEF ri_copy, At, table, ReceivePcs
  <1>2. call' \in Calls /\ call'.pc = "ri_clear" /\ call'.p = call.p /\ call'.peer = call.peer
    BY <1>1, InReceive, GotoFacts DEF ri_copy, ReceivePcs
  <1>3. IntrTypeOK'
    BY <1>1, <1>2 DEF IntrInv, IntrTypeOK, TypeOK, Message, table
  <1>4. CallMatches'
    BY <1>1, <1>2, InReceive DEF CallMatches, ReceivePcs
  <1>5. SendPhase'
    BY <1>2 DEF SendPhase, SendPcs
  <1>6. ReceivePhase'
    BY <1>1, <1>2 DEF IntrInv, ReceivePhase, table
  <1> QED  BY <1>1, <1>3, <1>4, <1>5, <1>6, QuietStep DEF HalfDone, Dozing

(* The mark of the interrupt is cleared; the caller does not wait. *)
LEMMA RiClearInv == ASSUME IntrInv, ri_clear PROVE IntrInv'
  <1>1. /\ call.pc = "ri_clear" /\ ~halted /\ call.pc \in ReceivePcs
        /\ UNCHANGED <<p_flags, p_msg, p_recvfrom, p_sendto, q_sending, mem, halted, nullwrite>>
    BY DEF ri_clear, At, ReceivePcs
  <1>2. call' \in Calls /\ call'.pc = "ri_end" /\ call'.p = call.p /\ call'.peer = call.peer
    BY <1>1, InReceive, GotoFacts DEF ri_clear, ReceivePcs
  <1>3. /\ has_int_msg' \in [Proc -> BOOLEAN]
        /\ \A q \in Proc : has_int_msg'[q] => has_int_msg[q]
    BY <1>1, InReceive DEF ri_clear, IntrInv, IntrTypeOK, TypeOK
  <1>4. \A q : (IsSending(q)' <=> IsSending(q)) /\ (IsReceiving(q)' <=> IsReceiving(q))
    BY <1>1 DEF IsSending, IsReceiving
  <1>5. IntrTypeOK'
    BY <1>1, <1>2, <1>3 DEF IntrInv, IntrTypeOK, TypeOK
  <1>6. CallMatches'
    BY <1>1, <1>2, InReceive DEF CallMatches, ReceivePcs
  <1>7. QueueIsSenders' /\ NoSendCycle'
    BY <1>1, <1>4, SendersKept DEF IntrInv
  <1>8. NoMissedRendezvous'
    BY <1>1, <1>4 DEF IntrInv, NoMissedRendezvous, DestWaitsFor
  <1>9. EntriesMatch'
    BY <1>1, <1>2, <1>3, <1>4 DEF IntrInv, EntriesMatch, HalfDone, Dozing, FieldsOf, WaitsForInterrupt
  <1>10. SendPhase'
    BY <1>2 DEF SendPhase, SendPcs
  <1>11. ReceivePhase'
    BY <1>1, <1>2 DEF IntrInv, ReceivePhase
  <1> QED  BY <1>1, <1>5, <1>6, <1>7, <1>8, <1>9, <1>10, <1>11 DEF IntrInv, OnlyDriversTrip

(* Of the assertions after an interrupt was taken only the one about a      *)
(* second interrupt can fail.                                               *)
LEMMA RiEndInv == ASSUME IntrInv, ri_end PROVE IntrInv'
  <1>1. /\ call.pc = "ri_end" /\ ~halted /\ call.pc \in ReceivePcs
        /\ UNCHANGED <<table, mem, nullwrite>>
    BY DEF ri_end, At, ReceivePcs, table
  <1>2. IInv
    BY <1>1, SoundTable DEF HalfDone, Dozing
  <1>3. p_flags[call.p] = {} /\ ~p_msg[call.p]
    BY <1>1, <1>2, InReceive DEF IntrInv, ReceivePhase, IInv, FieldsMatchFlags
  <1>4. CASE has_int_msg[call.p]
    <2>1. call.p \in IntTask
      BY <1>1, <1>4, InReceive DEF IntrInv, EntriesMatch
    <2> QED  BY <1>1, <1>4, <2>1, InReceive, HaltStep DEF ri_end, Expect
  <1>5. CASE ~has_int_msg[call.p]
    <2>1. Goto("idle") /\ UNCHANGED halted
      BY <1>3, <1>5 DEF ri_end, Expect
    <2> QED  BY <1>1, <1>2, <2>1, QuietEnd
  <1> QED  BY <1>4, <1>5

(* A queued message is taken as in Ipc; else the caller goes to sleep. *)
LEMMA RPickInv == ASSUME IntrInv, r_pick PROVE IntrInv'
  <1>1. /\ call.pc = "r_pick" /\ ~halted /\ call.pc \in ReceivePcs
        /\ UNCHANGED <<p_recvfrom, has_int_msg, halted, nullwrite>>
    BY DEF r_pick, At, ReceivePcs
  <1>2. IInv
    BY <1>1, SoundTable DEF HalfDone, Dozing
  <1>3. PICK p \in Proc : p = call.p
    BY <1>1, InReceive
  <1>4. CanCall(p)
    BY <1>1, <1>3 DEF IntrInv, ReceivePhase, CanCall
  <1>5. CASE SenderReady(call.p, call.peer)
    <2>1. PICK src : src = call.peer
      OBVIOUS
    <2>2. TakeQueued(p, src) /\ Goto("idle")
      BY <1>3, <1>5, <2>1 DEF r_pick, TakeQueued
    <2>3. IInv'
      BY <1>2, <1>4, <2>2, TakeQueuedIInv
    <2> QED  BY <1>1, <2>2, <2>3, GotoIdle, CallOver DEF IntrInv, IntrTypeOK, EntriesMatch
  <1>6. CASE ~SenderReady(call.p, call.peer)
    <2>1. Goto("r_flag") /\ UNCHANGED <<table, mem>>
      BY <1>1, <1>6 DEF r_pick, table
    <2>2. call' \in Calls /\ call'.pc = "r_flag" /\ call'.p = call.p /\ call'.peer = call.peer
      BY <1>1, <2>1, InReceive, GotoFacts DEF ReceivePcs
    <2>3. IntrTypeOK'
      BY <1>1, <2>1, <2>2 DEF IntrInv, IntrTypeOK, TypeOK, table
    <2>4. CallMatches'
      BY <1>1, <2>2, InReceive DEF CallMatches, ReceivePcs
    <2>5. SendPhase'
      BY <2>2 DEF SendPhase, SendPcs
    <2>6. ReceivePhase'
      BY <1>1, <1>6, <2>1, <2>2, TableKept DEF IntrInv, ReceivePhase, table
    <2> QED  BY <1>1, <2>1, <2>3, <2>4, <2>5, <2>6, QuietStep DEF HalfDone, Dozing
  <1> QED  BY <1>5, <1>6

(* RECEIVING is set: from here on the caller's entry is being changed. *)
LEMMA RFlagInv == ASSUME IntrInv, r_flag PROVE IntrInv'
  <1>1. /\ call.pc = "r_flag" /\ ~halted /\ call.pc \in ReceivePcs
        /\ UNCHANGED <<p_msg, p_recvfrom, p_sendto, has_int_msg, q_sending, mem, halted, nullwrite>>
    BY DEF r_flag, At, ReceivePcs
  <1>2. call' \in Calls /\ call'.pc = "r_msg" /\ call'.p = call.p /\ call'.peer = call.peer
    BY <1>1, InReceive, GotoFacts DEF r_flag, ReceivePcs
  <1>3. /\ p_flags[call.p] = {} /\ FieldsOf(call.p) /\ ~SenderReady(call.p, call.peer)
    BY <1>1, InReceive DEF IntrInv, EntriesMatch, HalfDone, ReceivePhase
  <1>4. /\ p_flags' \in [Proc -> SUBSET {"SENDING", "RECEIVING"}]
        /\ p_flags'[call.p] = {"RECEIVING"}
        /\ \A q \in Proc \ {call.p} : p_flags'[q] = p_flags[q]
    BY <1>1, <1>3, InReceive DEF r_flag, IntrInv, IntrTypeOK, TypeOK
  <1>5. /\ \A q \in Proc : IsSending(q)' <=> IsSending(q)
        /\ \A q \in Proc \ {call.p} : IsReceiving(q)' <=> IsReceiving(q)
    BY <1>3, <1>4 DEF IsSending, IsReceiving
  <1>6. p_recvfrom[call.p] = NO_TASK /\ p_sendto[call.p] = NO_TASK /\ ~p_msg[call.p]
    BY <1>3 DEF FieldsOf, IsSending, IsReceiving
  <1>7. IntrTypeOK'
    BY <1>1, <1>2, <1>4 DEF IntrInv, IntrTypeOK, TypeOK
  <1>8. CallMatches'
    BY <1>1, <1>2, InReceive DEF CallMatches, ReceivePcs
  <1>9. QueueIsSenders' /\ NoSendCycle'
    BY <1>1, <1>5, SendersKept DEF IntrInv
  <1>10. NoMissedRendezvous'
    BY <1>1, <1>5, <1>6, ProcAssumption DEF IntrInv, NoMissedRendezvous, DestWaitsFor
  <1>11. EntriesMatch'
    BY <1>1, <1>2, <1>4, <1>5 DEF IntrInv, EntriesMatch, HalfDone, Dozing, FieldsOf, WaitsForInterrupt
  <1>12. SendPhase'
    BY <1>2 DEF SendPhase, SendPcs
  <1>13. ~SenderReady(call.p, call.peer)'
    BY <1>1, <1>2, <1>3, <1>5, SendersKept
  <1>14. ReceivePhase'
    BY <1>1, <1>2, <1>4, <1>6, <1>13 DEF ReceivePhase
  <1> QED  BY <1>1, <1>7, <1>8, <1>9, <1>10, <1>11, <1>12, <1>14 DEF IntrInv, OnlyDriversTrip

(* The buffer of the caller is entered. *)
LEMMA RMsgInv == ASSUME IntrInv, r_msg PROVE IntrInv'
  <1>1. /\ call.pc = "r_msg" /\ ~halted /\ call.pc \in ReceivePcs
        /\ UNCHANGED <<p_flags, p_recvfrom, p_sendto, has_int_msg, q_sending, mem, halted, nullwrite>>
    BY DEF r_msg, At, ReceivePcs
  <1>2. call' \in Calls /\ call'.pc = "r_from" /\ call'.p = call.p /\ call'.peer = call.peer
    BY <1>1, InReceive, GotoFacts DEF r_msg, ReceivePcs
  <1>3. /\ p_flags[call.p] = {"RECEIVING"} /\ ~SenderReady(call.p, call.peer)
        /\ p_recvfrom[call.p] = NO_TASK /\ p_sendto[call.p] = NO_TASK
    BY <1>1 DEF IntrInv, ReceivePhase
  <1>4. /\ p_msg' \in [Proc -> BOOLEAN] /\ p_msg'[call.p] = TRUE
        /\ \A q \in Proc \ {call.p} : p_msg'[q] = p_msg[q]
    BY <1>1, InReceive DEF r_msg, IntrInv, IntrTypeOK, TypeOK
  <1>5. \A q : (IsSending(q)' <=> IsSending(q)) /\ (IsReceiving(q)' <=> IsReceiving(q))
    BY <1>1 DEF IsSending, IsReceiving
  <1>6. IntrTypeOK'
    BY <1>1, <1>2, <1>4 DEF IntrInv, IntrTypeOK, TypeOK
  <1>7. CallMatches'
    BY <1>1, <1>2, InReceive DEF CallMatches, ReceivePcs
  <1>8. QueueIsSenders' /\ NoSendCycle'
    BY <1>1, <1>5, SendersKept DEF IntrInv
  <1>9. NoMissedRendezvous'
    BY <1>1, <1>5 DEF IntrInv, NoMissedRendezvous, DestWaitsFor
  <1>10. EntriesMatch'
    BY <1>1, <1>2, <1>4, <1>5 DEF IntrInv, EntriesMatch, HalfDone, Dozing, FieldsOf, WaitsForInterrupt
  <1>11. SendPhase'
    BY <1>2 DEF SendPhase, SendPcs
  <1>12. ~SenderReady(call.p, call.peer)'
    BY <1>1, <1>2, <1>3, <1>5, SendersKept
  <1>13. ReceivePhase'
    BY <1>1, <1>2, <1>3, <1>4, <1>12 DEF ReceivePhase
  <1> QED  BY <1>1, <1>6, <1>7, <1>8, <1>9, <1>10, <1>11, <1>13 DEF IntrInv, OnlyDriversTrip

(* The partner is entered: the caller's entry is whole again, and nobody it *)
(* accepts is blocked sending to it.                                        *)
LEMMA RFromInv == ASSUME IntrInv, r_from PROVE IntrInv'
  <1>1. /\ call.pc = "r_from" /\ ~halted /\ call.pc \in ReceivePcs
        /\ UNCHANGED <<p_flags, p_msg, p_sendto, has_int_msg, q_sending, mem, halted, nullwrite>>
    BY DEF r_from, At, ReceivePcs
  <1>2. call' \in Calls /\ call'.pc = "block" /\ call'.p = call.p /\ call'.peer = call.peer
    BY <1>1, InReceive, GotoFacts DEF r_from, ReceivePcs
  <1>3. /\ p_flags[call.p] = {"RECEIVING"} /\ ~SenderReady(call.p, call.peer)
        /\ p_msg[call.p] /\ p_sendto[call.p] = NO_TASK
    BY <1>1 DEF IntrInv, ReceivePhase
  <1>4. /\ p_recvfrom' \in [Proc -> Proc \cup {ANY, INTERRUPT, NO_TASK}]
        /\ p_recvfrom'[call.p] = call.peer
        /\ \A q \in Proc \ {call.p} : p_recvfrom'[q] = p_recvfrom[q]
    BY <1>1, InReceive DEF r_from, IntrInv, IntrTypeOK, TypeOK
  <1>5. \A q : (IsSending(q)' <=> IsSending(q)) /\ (IsReceiving(q)' <=> IsReceiving(q))
    BY <1>1 DEF IsSending, IsReceiving
  <1>6. ~IsSending(call.p) /\ IsReceiving(call.p)
    BY <1>3 DEF IsSending, IsReceiving
  <1>7. IntrTypeOK'
    BY <1>1, <1>2, <1>4 DEF IntrInv, IntrTypeOK, TypeOK
  <1>8. CallMatches'
    BY <1>1, <1>2, InReceive DEF CallMatches, ReceivePcs
  <1>9. QueueIsSenders' /\ NoSendCycle'
    BY <1>1, <1>5, SendersKept DEF IntrInv
  <1>10. NoMissedRendezvous'
    <2> SUFFICES ASSUME NEW d \in Proc, NEW q \in Proc, DestWaitsFor(d, q)', IsSending(q)',
                        p_sendto'[q] = d
                 PROVE  FALSE
      BY DEF NoMissedRendezvous
    <2>1. IsSending(q) /\ p_sendto[q] = d
      BY <1>1, <1>5
    <2>2. CASE d # call.p
      BY <1>4, <1>5, <2>1, <2>2 DEF IntrInv, NoMissedRendezvous, DestWaitsFor
    <2>3. CASE d = call.p
      <3>1. call.peer = q \/ call.peer = ANY
        BY <1>4, <2>3 DEF DestWaitsFor
      <3>2. q_sending[d] # <<>>
        BY <2>1 DEF IntrInv, QueueIsSenders
      <3> QED  BY <1>3, <2>1, <2>3, <3>1, <3>2 DEF SenderReady
    <2> QED  BY <2>2, <2>3
  <1>11. EntriesMatch'
    <2> SUFFICES ASSUME NEW q \in Proc
                 PROVE  /\ FieldsOf(q)'
                        /\ q # call.p => ~(WaitsForInterrupt(q)' /\ has_int_msg'[q])
                        /\ has_int_msg'[q] => q \in IntTask
      BY <1>2 DEF EntriesMatch, Dozing
    <2>1. CASE q = call.p
      <3>1. p_recvfrom'[q] # NO_TASK /\ p_msg'[q] /\ p_flags'[q] # {} /\ p_sendto'[q] = NO_TASK
        BY <1>1, <1>3, <1>4, <2>1, InReceive, ProcAssumption
      <3> QED  BY <1>1, <1>5, <1>6, <2>1, <3>1 DEF IntrInv, EntriesMatch, FieldsOf
    <2>2. CASE q # call.p
      BY <1>1, <1>4, <1>5, <2>2 DEF IntrInv, EntriesMatch, HalfDone, Dozing, FieldsOf, WaitsForInterrupt
    <2> QED  BY <2>1, <2>2
  <1>12. SendPhase'
    BY <1>2 DEF SendPhase, SendPcs
  <1>13. ~SenderReady(call.p, call.peer)'
    BY <1>1, <1>2, <1>3, <1>5, SendersKept
  <1>14. ReceivePhase'
    BY <1>1, <1>2, <1>3, <1>4, <1>13 DEF ReceivePhase
  <1> QED  BY <1>1, <1>7, <1>8, <1>9, <1>10, <1>11, <1>12, <1>14 DEF IntrInv, OnlyDriversTrip

(* block() finds the caller without flags only if an interrupt woke it. *)
LEMMA BlockInv == ASSUME IntrInv, block PROVE IntrInv'
  <1>1. /\ call.pc = "block" /\ ~halted /\ call.pc \in ReceivePcs
        /\ UNCHANGED <<table, mem, nullwrite>>
    BY DEF block, At, ReceivePcs, table
  <1>2. CASE p_flags[call.p] = {}
    <2>1. call.p \in IntTask
      BY <1>1, <1>2 DEF IntrInv, ReceivePhase, Woken
    <2> QED  BY <1>1, <1>2, <2>1, InReceive, HaltStep DEF block, Expect
  <1>3. CASE p_flags[call.p] # {}
    <2>1. Goto("r_end") /\ UNCHANGED halted
      BY <1>3 DEF block, Expect
    <2>2. call' \in Calls /\ call'.pc = "r_end" /\ call'.p = call.p /\ call'.peer = call.peer
      BY <1>1, <2>1, InReceive, GotoFacts DEF ReceivePcs
    <2>3. IntrTypeOK'
      BY <1>1, <2>1, <2>2 DEF IntrInv, IntrTypeOK, TypeOK, table
    <2>4. CallMatches'
      BY <1>1, <2>2, InReceive DEF CallMatches, ReceivePcs
    <2>5. QueueIsSenders' /\ NoMissedRendezvous' /\ NoSendCycle'
      BY <1>1, TableKept DEF IntrInv
    <2>6. EntriesMatch'
      BY <1>1, <2>2, TableKept DEF IntrInv, EntriesMatch, HalfDone, Dozing, table
    <2>7. SendPhase'
      BY <2>2 DEF SendPhase, SendPcs
    <2>8. ReceivePhase'
      BY <1>1, <2>2, TableKept DEF IntrInv, ReceivePhase, Woken, table
    <2> QED  BY <1>1, <2>1, <2>3, <2>4, <2>5, <2>6, <2>7, <2>8 DEF IntrInv, OnlyDriversTrip
  <1> QED  BY <1>2, <1>3

(* The last assertions fail only for a task that has been woken meanwhile,  *)
(* or has an interrupt waiting; else the caller sleeps in a sound table.    *)
LEMMA REndInv == ASSUME IntrInv, r_end PROVE IntrInv'
  <1>1. /\ call.pc = "r_end" /\ ~halted /\ call.pc \in ReceivePcs
        /\ UNCHANGED <<table, mem, nullwrite>>
    BY DEF r_end, At, ReceivePcs, table
  <1>2. FieldsOf(call.p)
    BY <1>1, InReceive DEF IntrInv, EntriesMatch, HalfDone
  <1>3. \/ p_flags[call.p] = {"RECEIVING"} /\ p_recvfrom[call.p] = call.peer
        \/ Woken(call.p)
    BY <1>1 DEF IntrInv, ReceivePhase
  <1> DEFINE fine == /\ p_flags[call.p] = {"RECEIVING"} /\ p_msg[call.p]
                     /\ p_recvfrom[call.p] # NO_TASK /\ ~has_int_msg[call.p]
  <1>4. CASE ~fine
    <2>1. call.p \in IntTask
      <3>1. CASE Woken(call.p)
        BY <3>1 DEF Woken
      <3>2. CASE p_flags[call.p] = {"RECEIVING"}
        <4>1. p_msg[call.p] /\ p_recvfrom[call.p] # NO_TASK
          BY <1>2, <3>2 DEF FieldsOf, IsReceiving
        <4>2. has_int_msg[call.p]
          BY <1>4, <3>2, <4>1
        <4> QED  BY <1>1, <4>2, InReceive DEF IntrInv, EntriesMatch
      <3> QED  BY <1>3, <3>1, <3>2
    <2> QED  BY <1>1, <1>4, <2>1, InReceive, HaltStep DEF r_end, Expect
  <1>5. CASE fine
    <2>1. Goto("idle") /\ UNCHANGED halted
      BY <1>5 DEF r_end, Expect
    <2>2. IInv
      <3>1. NoMissedInterrupt
        BY <1>1, <1>5 DEF IntrInv, EntriesMatch, Dozing, NoMissedInterrupt
      <3>2. FieldsMatchFlags
        BY <1>1 DEF IntrInv, EntriesMatch, HalfDone, FieldsOf, FieldsMatchFlags
      <3> QED  BY <3>1, <3>2 DEF IntrInv, IntrTypeOK, IInv
    <2> QED  BY <1>1, <2>1, <2>2, QuietEnd
  <1> QED  BY <1>4, <1>5

-----------------------------------------------------------------------------
(***************************************************************************)
(* Interrupts                                                              *)
(***************************************************************************)

(* inform_int() for a task that does not wait only marks the interrupt. *)
LEMMA InterruptMarkInv ==
    ASSUME IntrInv, NEW t \in IntTask, Interrupt(t), ~WaitsForInterrupt(t)
    PROVE  IntrInv'
  <1>1. /\ UNCHANGED <<p_flags, p_msg, p_recvfrom, p_sendto, q_sending, mem, halted,
                       nullwrite, call>>
        /\ has_int_msg' = [has_int_msg EXCEPT ![t] = TRUE] /\ ~halted
    BY DEF Interrupt, inform_int, IntWake, IntMark
  <1>2. /\ has_int_msg' \in [Proc -> BOOLEAN]
        /\ \A q \in Proc \ {t} : has_int_msg'[q] = has_int_msg[q]
    BY <1>1, ProcAssumption DEF IntrInv, IntrTypeOK, TypeOK
  <1>3. /\ \A q : IsSending(q)' <=> IsSending(q)
        /\ \A q : IsReceiving(q)' <=> IsReceiving(q)
        /\ \A q : WaitsForInterrupt(q)' <=> WaitsForInterrupt(q)
        /\ \A q : FieldsOf(q)' <=> FieldsOf(q)
        /\ \A q, r : DestWaitsFor(q, r)' <=> DestWaitsFor(q, r)
    BY <1>1 DEF IsSending, IsReceiving, WaitsForInterrupt, DestWaitsFor, FieldsOf
  <1>4. IntrTypeOK' /\ CallMatches'
    BY <1>1, <1>2 DEF IntrInv, IntrTypeOK, TypeOK, CallMatches
  <1>5. QueueIsSenders' /\ NoSendCycle'
    BY <1>1, <1>3, SendersKept DEF IntrInv
  <1>6. NoMissedRendezvous'
    BY <1>1, <1>3 DEF IntrInv, NoMissedRendezvous
  <1>7. EntriesMatch'
    BY <1>1, <1>2, <1>3 DEF IntrInv, EntriesMatch, HalfDone, Dozing
  <1>8. SendPhase'
    <2>1. call.pc \in SendPcs => (deadlock(call.p, call.peer)' <=> deadlock(call.p, call.peer))
      BY <1>1, <1>3, InSend, SendersKept
    <2> QED  BY <1>1, <1>3, <2>1 DEF IntrInv, SendPhase, Woken, SendPcs
  <1>9. ReceivePhase'
    BY <1>1, <1>3, SendersKept DEF IntrInv, ReceivePhase, Woken
  <1> QED  BY <1>1, <1>4, <1>5, <1>6, <1>7, <1>8, <1>9 DEF IntrInv, OnlyDriversTrip

(* inform_int() for a task that waits: its entry is cleared, whatever the   *)
(* call in progress was about to do with it.                                *)
LEMMA InterruptWakeInv ==
    ASSUME IntrInv, NEW t \in IntTask, Interrupt(t), WaitsForInterrupt(t)
    PROVE  IntrInv'
  <1>1. /\ UNCHANGED <<p_sendto, q_sending, halted, call>> /\ ~halted
        /\ p_flags' = [p_flags EXCEPT ![t] = @ \ {"RECEIVING"}]
        /\ p_recvfrom' = [p_recvfrom EXCEPT ![t] = NO_TASK]
        /\ has_int_msg' = [has_int_msg EXCEPT ![t] = FALSE]
    BY DEF Interrupt, inform_int, IntWake, IntMark
  <1>2. /\ p_msg' \in [Proc -> BOOLEAN] /\ p_msg'[t] = FALSE
        /\ \A q \in Proc \ {t} : p_msg'[q] = p_msg[q]
    BY ProcAssumption DEF Interrupt, inform_int, IntWake, IntMark, IntrInv, IntrTypeOK, TypeOK
  <1>3. mem' \in [Proc -> Message] /\ \A q \in Proc \ {t} : mem'[q] = mem[q]
    <2>1. [source |-> INTERRUPT, type |-> HARD_INT] \in Message
      BY DEF Message
    <2>2. mem' = mem \/ mem' = [mem EXCEPT ![t] = [source |-> INTERRUPT, type |-> HARD_INT]]
      BY DEF Interrupt, inform_int, IntWake, IntMark
    <2>3. mem \in [Proc -> Message] /\ t \in Proc
      BY ProcAssumption DEF IntrInv, IntrTypeOK, TypeOK
    <2>4. CASE mem' = mem
      BY <2>3, <2>4
    <2>5. CASE mem' = [mem EXCEPT ![t] = [source |-> INTERRUPT, type |-> HARD_INT]]
      BY <2>1, <2>3, <2>5
    <2> QED  BY <2>2, <2>4, <2>5
  <1>4. nullwrite' \in BOOLEAN
    BY DEF Interrupt, IntrInv, IntrTypeOK
  <1>5. t \in Proc /\ IsReceiving(t) /\ p_recvfrom[t] \in {INTERRUPT, ANY}
    BY ProcAssumption DEF WaitsForInterrupt
  <1>6. ~IsSending(t) /\ p_sendto[t] = NO_TASK
    <2>1. CASE HalfDone(t)
      BY <1>5, <2>1, ProcAssumption DEF HalfDone, IntrInv, SendPhase, ReceivePhase
    <2>2. CASE ~HalfDone(t)
      BY <1>5, <2>2 DEF IntrInv, EntriesMatch, FieldsOf
    <2> QED  BY <2>1, <2>2
  <1>7. /\ p_flags' \in [Proc -> SUBSET {"SENDING", "RECEIVING"}]
        /\ p_flags'[t] = p_flags[t] \ {"RECEIVING"}
        /\ \A q \in Proc \ {t} : p_flags'[q] = p_flags[q]
    BY <1>1, <1>5 DEF IntrInv, IntrTypeOK, TypeOK
  <1>8. p_flags'[t] = {}
    BY <1>5, <1>6, <1>7 DEF IntrInv, IntrTypeOK, TypeOK, IsSending
  <1>9. /\ p_recvfrom' \in [Proc -> Proc \cup {ANY, INTERRUPT, NO_TASK}]
        /\ p_recvfrom'[t] = NO_TASK
        /\ \A q \in Proc \ {t} : p_recvfrom'[q] = p_recvfrom[q]
    BY <1>1, <1>5 DEF IntrInv, IntrTypeOK, TypeOK
  <1>10. /\ has_int_msg' \in [Proc -> BOOLEAN]
         /\ \A q \in Proc : has_int_msg'[q] => has_int_msg[q]
    BY <1>1, <1>5 DEF IntrInv, IntrTypeOK, TypeOK
  <1>11. /\ \A q \in Proc : IsSending(q)' <=> IsSending(q)
         /\ \A q \in Proc : IsReceiving(q)' <=> (IsReceiving(q) /\ q # t)
    BY <1>6, <1>7, <1>8 DEF IsSending, IsReceiving
  <1>12. /\ \A r : \A q \in Proc : DestWaitsFor(q, r)' <=> (DestWaitsFor(q, r) /\ q # t)
         /\ \A q \in Proc : WaitsForInterrupt(q)' <=> (WaitsForInterrupt(q) /\ q # t)
    BY <1>9, <1>11 DEF DestWaitsFor, WaitsForInterrupt
  <1>13. /\ FieldsOf(t)'
         /\ \A q \in Proc \ {t} : FieldsOf(q)' <=> FieldsOf(q)
    <2>1. FieldsOf(t)'
      BY <1>1, <1>2, <1>6, <1>8, <1>9, <1>11 DEF FieldsOf, IsSending, IsReceiving
    <2>2. \A q \in Proc \ {t} : FieldsOf(q)' <=> FieldsOf(q)
      BY <1>1, <1>2, <1>7, <1>9, <1>11 DEF FieldsOf
    <2> QED  BY <2>1, <2>2
  <1>14. IntrTypeOK'
    BY <1>1, <1>2, <1>3, <1>4, <1>7, <1>9, <1>10 DEF IntrInv, IntrTypeOK, TypeOK
  <1>15. call.pc \in SendPcs => t # call.p
    BY <1>5, InSend DEF IsReceiving
  <1>16. CallMatches'
    BY <1>1, <1>3, <1>15 DEF IntrInv, CallMatches
  <1>17. QueueIsSenders' /\ NoSendCycle'
    BY <1>1, <1>11, SendersKept DEF IntrInv
  <1>18. NoMissedRendezvous'
    BY <1>1, <1>11, <1>12 DEF IntrInv, NoMissedRendezvous
  <1>19. EntriesMatch'
    <2> SUFFICES ASSUME NEW q \in Proc
                 PROVE  /\ ~HalfDone(q)' => FieldsOf(q)'
                        /\ ~Dozing(q)' => ~(WaitsForInterrupt(q)' /\ has_int_msg'[q])
                        /\ has_int_msg'[q] => q \in IntTask
      BY DEF EntriesMatch
    <2>1. (HalfDone(q)' <=> HalfDone(q)) /\ (Dozing(q)' <=> Dozing(q))
      BY <1>1 DEF HalfDone, Dozing
    <2> QED  BY <1>10, <1>12, <1>13, <2>1 DEF IntrInv, EntriesMatch
  <1>20. SendPhase'
    <2>1. SUFFICES ASSUME call.pc \in SendPcs PROVE SendPhase'
      BY <1>1 DEF SendPhase, SendPcs
    <2>2. call.p \in Proc /\ call.peer \in Proc /\ t # call.p /\ p_flags'[call.p] = {}
      BY <1>7, <1>15, <2>1, InSend
    <2>3. call.pc \in {"s_test", "s_enqueue"} => ~deadlock(call.p, call.peer)'
      BY <1>1, <1>11, <2>2, SendersKept DEF IntrInv, SendPhase
    <2>4. /\ call.pc = "s_enqueue" => ~DestWaitsFor(call.peer, call.p)'
          /\ call.pc \in {"s_assert", "s_copy", "s_clear_msg", "s_clear_flags"} =>
                DestWaitsFor(call.peer, call.p)' \/ Woken(call.peer)'
      BY <1>1, <1>7, <1>8, <1>12, <2>2 DEF IntrInv, SendPhase, Woken
    <2>5. call.pc \in {"s_clear_flags", "s_clear_from"} =>
            /\ ~p_msg'[call.peer] /\ p_sendto'[call.peer] = NO_TASK /\ ~IsSending(call.peer)'
            /\ call.pc = "s_clear_from" => p_flags'[call.peer] = {}
            /\ IsReceiving(call.peer)' => p_recvfrom'[call.peer] # NO_TASK
            /\ call.pc = "s_clear_flags" =>
                  (p_recvfrom'[call.peer] # NO_TASK => IsReceiving(call.peer)')
      <3>1. CASE call.peer = t
        BY <1>1, <1>2, <1>6, <1>8, <1>9, <1>11, <2>2, <3>1
      <3>2. CASE call.peer # t
        BY <1>1, <1>2, <1>7, <1>9, <1>11, <2>2, <3>2 DEF IntrInv, SendPhase
      <3> QED  BY <3>1, <3>2
    <2>6. call.pc = "s_end" => p_flags'[call.peer] = {}
      BY <1>7, <1>8, <2>2 DEF IntrInv, SendPhase
    <2> QED  BY <1>1, <2>2, <2>3, <2>4, <2>5, <2>6 DEF SendPhase
  <1>21. ReceivePhase'
    <2>1. SUFFICES ASSUME call.pc \in ReceivePcs PROVE ReceivePhase'
      BY <1>1 DEF ReceivePhase, ReceivePcs
    <2>2. call.p \in Proc
      BY <2>1, InReceive
    <2>3. call.pc \in {"r_flag", "r_msg", "r_from", "block", "r_end"} =>
            ~SenderReady(call.p, call.peer)'
      BY <1>1, <1>11, SendersKept DEF IntrInv, ReceivePhase
    <2>4. CASE call.p = t
      <3>1. call.pc \in {"block", "r_end"}
        BY <1>5, <2>1, <2>4, ProcAssumption DEF IntrInv, ReceivePhase, ReceivePcs, IsReceiving
      <3> QED  BY <1>1, <1>8, <2>3, <2>4, <3>1 DEF ReceivePhase, Woken
    <2>5. CASE call.p # t
      BY <1>1, <1>2, <1>7, <1>9, <2>2, <2>3, <2>5 DEF IntrInv, ReceivePhase, Woken
    <2> QED  BY <2>4, <2>5
  <1> QED  BY <1>1, <1>14, <1>16, <1>17, <1>18, <1>19, <1>20, <1>21 DEF IntrInv, OnlyDriversTrip

-----------------------------------------------------------------------------
(***************************************************************************)
(* The theorems                                                            *)
(***************************************************************************)

(* The table the kernel starts with is sound and no call is in progress. *)
LEMMA InitIntrInv == ASSUME IInit PROVE IntrInv
  <1>1. IInv /\ ~halted /\ call = NoCall /\ nullwrite = FALSE /\ call.pc = "idle"
    BY InitIInv DEF IInit, Init, NoCall
  <1>2. \A q \in Proc : ~has_int_msg[q]
    BY DEF IInit, Init
  <1>3. call \in Calls
    BY <1>1 DEF NoCall, Calls
  <1>4. EntriesMatch
    BY <1>1, <1>2 DEF IInv, EntriesMatch, FieldsMatchFlags, FieldsOf
  <1> QED  BY <1>1, <1>3, <1>4
           DEF IInv, IntrInv, IntrTypeOK, CallMatches, SendPhase, ReceivePhase, SendPcs, OnlyDriversTrip

(* Every statement of a system call, and every interrupt, keeps it so. *)
LEMMA NextIntrInv == ASSUME IntrInv, [INext]_ivars PROVE IntrInv'
  <1>1. CASE \E p, d \in Proc, t \in Type : EnterSend(p, d, t)
    BY <1>1, EnterSendInv
  <1>2. CASE \E p \in Proc, src \in Proc \cup {ANY, INTERRUPT}, both \in BOOLEAN :
                EnterReceive(p, src, both)
    BY <1>2, EnterReceiveInv
  <1>3. CASE SendStep
    BY <1>3, SDeadlockInv, STestInv, SAssertInv, SCopyInv, SClearMsgInv, SClearFlagsInv,
       SClearFromInv, SEndInv, SEnqueueInv DEF SendStep
  <1>4. CASE ReceiveStep
    BY <1>4, RTestInv, RiCopyInv, RiClearInv, RiEndInv, RPickInv, RFlagInv, RMsgInv,
       RFromInv, BlockInv, REndInv DEF ReceiveStep
  <1>5. CASE \E t \in IntTask : Interrupt(t)
    BY <1>5, InterruptMarkInv, InterruptWakeInv
  <1>6. CASE UNCHANGED ivars
    <2>1. UNCHANGED <<table, mem, halted, call, nullwrite>>
      BY <1>6 DEF ivars, vars, table
    <2>2. IntrTypeOK' /\ CallMatches' /\ OnlyDriversTrip' /\ (halted' => call' # NoCall)
      BY <2>1 DEF IntrInv, IntrTypeOK, TypeOK, CallMatches, OnlyDriversTrip, table
    <2>3. QueueIsSenders' /\ NoMissedRendezvous' /\ NoSendCycle'
      BY <2>1, TableKept DEF IntrInv
    <2>4. EntriesMatch'
      BY <2>1, TableKept DEF IntrInv, EntriesMatch, HalfDone, Dozing, table
    <2>5. SendPhase'
      BY <2>1, TableKept DEF IntrInv, SendPhase, Woken, table
    <2>6. ReceivePhase'
      BY <2>1, TableKept DEF IntrInv, ReceivePhase, Woken, table
    <2> QED  BY <2>2, <2>3, <2>4, <2>5, <2>6 DEF IntrInv
  <1> QED  BY <1>1, <1>2, <1>3, <1>4, <1>5, <1>6 DEF INext

(* The inductive invariant: which process table entry each statement of     *)
(* msg_send() and msg_receive() may leave half changed, and what an         *)
(* interrupt that falls there can do to it.                                 *)
THEOREM IntrInvariant == ISpec => []IntrInv
  <1>1. IInit => IntrInv
    BY InitIntrInv
  <1>2. IntrInv /\ [INext]_ivars => IntrInv'
    BY NextIntrInv
  <1> QED  BY <1>1, <1>2, PTL DEF ISpec

(* The fields keep their types at every statement of a system call. *)
THEOREM IntrTypeCorrect == ISpec => []IntrTypeOK
  <1>1. IntrInv => IntrTypeOK
    BY DEF IntrInv
  <1> QED  BY <1>1, IntrInvariant, PTL

(* Interrupts inside msg_send() and msg_receive() leave no lasting damage:  *)
(* between two calls the table is as sound as if they had not come.         *)
THEOREM InterruptsLeaveTableSound == ISpec => []TableSoundWhenIdle
  <1>1. IntrInv => TableSoundWhenIdle
    <2> SUFFICES ASSUME IntrInv, call = NoCall
                 PROVE  FieldsMatchFlags /\ QueueIsSenders /\ NoMissedRendezvous /\ NoSendCycle
      BY DEF TableSoundWhenIdle
    <2>1. IInv
      BY SoundTable DEF HalfDone, Dozing, NoCall
    <2> QED  BY <2>1 DEF IInv
  <1> QED  BY <1>1, IntrInvariant, PTL

(* A process that no interrupt is for never makes an assertion of           *)
(* msg_send(), msg_receive() or block() fail.                               *)
THEOREM AssertionsOfOthersHold == ISpec => []OnlyDriversTrip
  <1>1. IntrInv => OnlyDriversTrip
    BY DEF IntrInv
  <1> QED  BY <1>1, IntrInvariant, PTL

(* The eight assertions that end a delivery in msg_send() hold whatever     *)
(* interrupts have come: the step over them never stops the kernel.         *)
THEOREM DeliveryAssertionsHold == ISpec => [][s_end => ~halted']_ivars
  <1>1. IntrInv /\ [INext]_ivars => [s_end => ~halted']_ivars
    BY SEndInv
  <1> QED  BY <1>1, IntrInvariant, PTL DEF ISpec

-----------------------------------------------------------------------------
(***************************************************************************)
(* A call into which no interrupt falls is one step of Ipc.                *)
(***************************************************************************)

(* What an undisturbed msg_send() has made, before each of its statements,  *)
(* of the table it started with.                                            *)
SendTrack ==
    call.pc \in SendPcs =>
        /\ p_flags = IF call.pc \in {"s_clear_from", "s_end"}
                       THEN [pre.p_flags EXCEPT ![call.peer] = @ \ {"RECEIVING"}]
                       ELSE pre.p_flags
        /\ p_msg = IF call.pc \in {"s_clear_flags", "s_clear_from", "s_end"}
                     THEN [pre.p_msg EXCEPT ![call.peer] = FALSE]
                     ELSE pre.p_msg
        /\ p_recvfrom = IF call.pc = "s_end"
                          THEN [pre.p_recvfrom EXCEPT ![call.peer] = NO_TASK]
                          ELSE pre.p_recvfrom
        /\ has_int_msg = pre.has_int_msg
        /\ mem = IF call.pc \in {"s_clear_msg", "s_clear_flags", "s_clear_from", "s_end"}
                   THEN [pre.mem EXCEPT ![call.p] = mem[call.p], ![call.peer] = mem[call.p]]
                   ELSE [pre.mem EXCEPT ![call.p] = mem[call.p]]
        /\ call.pc # "s_deadlock" => ~A!deadlock(call.p, call.peer)
        /\ call.pc \notin {"s_deadlock", "s_test"} =>
              (A!DestWaitsFor(call.peer, call.p) <=> call.pc # "s_enqueue")

(* The same for msg_receive(). *)
ReceiveTrack ==
    call.pc \in ReceivePcs =>
        /\ p_flags = IF call.pc \in {"r_msg", "r_from", "block", "r_end"}
                       THEN [pre.p_flags EXCEPT ![call.p] = @ \cup {"RECEIVING"}]
                       ELSE pre.p_flags
        /\ p_msg = IF call.pc \in {"r_from", "block", "r_end"}
                     THEN [pre.p_msg EXCEPT ![call.p] = TRUE]
                     ELSE pre.p_msg
        /\ p_recvfrom = IF call.pc \in {"block", "r_end"}
                          THEN [pre.p_recvfrom EXCEPT ![call.p] = call.peer]
                          ELSE pre.p_recvfrom
        /\ has_int_msg = IF call.pc = "ri_end"
                           THEN [pre.has_int_msg EXCEPT ![call.p] = FALSE]
                           ELSE pre.has_int_msg
        /\ mem = [pre.mem EXCEPT ![call.p] = mem[call.p]]
        /\ IF call.pc \in {"ri_clear", "ri_end"}
             THEN mem[call.p] = [source |-> INTERRUPT, type |-> HARD_INT]
             ELSE \E both \in BOOLEAN : mem[call.p] = A!Buffer(call.p, both)
        /\ call.pc # "r_test" =>
              (A!TakesInterrupt(call.p, call.peer) <=> call.pc \in {"ri_copy", "ri_clear", "ri_end"})
        /\ call.pc \in {"r_flag", "r_msg", "r_from", "block", "r_end"} =>
              ~A!SenderReady(call.p, call.peer)

(* pre is the table of Ipc: the one that is there between two calls, and    *)
(* the one that the call in progress has found.                             *)
TrackInv ==
    /\ A!TypeOK
    /\ masked \in BOOLEAN
    /\ masked /\ (call = NoCall \/ halted) => pre = Table
    /\ masked /\ call # NoCall /\ ~halted =>
          /\ ~pre.halted /\ pre.p_flags[call.p] = {}
          /\ p_sendto = pre.p_sendto /\ q_sending = pre.q_sending
          /\ SendTrack /\ ReceiveTrack

(* How pre changes in a behaviour where interrupts are masked, and the two  *)
(* kinds of steps: one that leaves the call in progress on its track, and   *)
(* one that completes a step of Ipc.                                        *)
PreStep ==
    /\ pre' = IF call' = NoCall \/ halted' THEN Table' ELSE pre
    /\ masked' = masked

Stays ==
    /\ pre' = pre /\ ~halted' /\ call' # NoCall /\ call'.p = call.p
    /\ UNCHANGED <<p_sendto, q_sending>>
    /\ SendTrack' /\ ReceiveTrack'

Ends == pre' = Table' /\ (call' = NoCall \/ halted') /\ A!Next

(* The fields of the table that pre has saved. *)
LEMMA TableFields ==
    /\ pre = Table =>
         /\ pre.p_flags = p_flags /\ pre.p_msg = p_msg /\ pre.p_recvfrom = p_recvfrom
         /\ pre.p_sendto = p_sendto /\ pre.has_int_msg = has_int_msg
         /\ pre.q_sending = q_sending /\ pre.mem = mem /\ pre.halted = halted
    /\ pre' = Table' =>
         /\ pre'.p_flags = p_flags' /\ pre'.p_msg = p_msg' /\ pre'.p_recvfrom = p_recvfrom'
         /\ pre'.p_sendto = p_sendto' /\ pre'.has_int_msg = has_int_msg'
         /\ pre'.q_sending = q_sending' /\ pre'.mem = mem' /\ pre'.halted = halted'
  BY DEF Table

(* What Ipc finds out by looking at pre is as it was. *)
LEMMA PreKept ==
    ASSUME pre' = pre
    PROVE  /\ \A q, r : /\ A!deadlock(q, r)' <=> A!deadlock(q, r)
                        /\ A!DestWaitsFor(q, r)' <=> A!DestWaitsFor(q, r)
                        /\ A!TakesInterrupt(q, r)' <=> A!TakesInterrupt(q, r)
                        /\ A!SenderReady(q, r)' <=> A!SenderReady(q, r)
           /\ \A q, both : A!Buffer(q, both)' = A!Buffer(q, both)
           /\ A!TypeOK => A!TypeOK'
           /\ UNCHANGED A!vars
  <1>1. \A q : (A!IsSending(q)' <=> A!IsSending(q)) /\ (A!IsReceiving(q)' <=> A!IsReceiving(q))
    BY DEF A!IsSending, A!IsReceiving
  <1>2. \A q, r : A!deadlock(q, r)' <=> A!deadlock(q, r)
    BY <1>1 DEF A!deadlock, A!ChainFrom
  <1>3. \A q, r : /\ A!DestWaitsFor(q, r)' <=> A!DestWaitsFor(q, r)
                  /\ A!TakesInterrupt(q, r)' <=> A!TakesInterrupt(q, r)
                  /\ A!SenderReady(q, r)' <=> A!SenderReady(q, r)
    BY <1>1 DEF A!DestWaitsFor, A!TakesInterrupt, A!SenderReady
  <1>4. \A q, both : A!Buffer(q, both)' = A!Buffer(q, both)
    BY DEF A!Buffer
  <1>5. A!TypeOK => A!TypeOK'
    BY DEF A!TypeOK
  <1>6. UNCHANGED A!vars
    BY DEF A!vars
  <1> QED  BY <1>2, <1>3, <1>4, <1>5, <1>6

(* The kernel finds out the same by looking at the table, while the fields  *)
(* it looks at are as pre has them.                                         *)
LEMMA SameAnswers ==
    ASSUME p_flags = pre.p_flags, p_sendto = pre.p_sendto
    PROVE  /\ \A q, r : deadlock(q, r) <=> A!deadlock(q, r)
           /\ p_recvfrom = pre.p_recvfrom =>
                \A q, r : DestWaitsFor(q, r) <=> A!DestWaitsFor(q, r)
           /\ q_sending = pre.q_sending =>
                \A q, r : SenderReady(q, r) <=> A!SenderReady(q, r)
  <1>1. \A q : (IsSending(q) <=> A!IsSending(q)) /\ (IsReceiving(q) <=> A!IsReceiving(q))
    BY DEF A!IsSending, A!IsReceiving, IsSending, IsReceiving
  <1>2. \A q, r : deadlock(q, r) <=> A!deadlock(q, r)
    BY <1>1 DEF A!deadlock, A!ChainFrom, deadlock, ChainFrom
  <1>3. p_recvfrom = pre.p_recvfrom => \A q, r : DestWaitsFor(q, r) <=> A!DestWaitsFor(q, r)
    BY <1>1 DEF A!DestWaitsFor, DestWaitsFor
  <1>4. q_sending = pre.q_sending => \A q, r : SenderReady(q, r) <=> A!SenderReady(q, r)
    BY <1>1 DEF A!SenderReady, SenderReady
  <1> QED  BY <1>2, <1>3, <1>4

(* A statement of msg_send() that another one follows. *)
LEMMA SendMoves ==
    ASSUME IntrInv, PreStep, call.pc \in SendPcs, ~halted, halted' = halted,
           NEW pc \in SendPcs, Goto(pc)
    PROVE  /\ pre' = pre /\ ~halted' /\ call' # NoCall
           /\ call'.pc = pc /\ call'.p = call.p /\ call'.peer = call.peer
           /\ ReceiveTrack'
  <1>1. call'.pc = pc /\ call'.p = call.p /\ call'.peer = call.peer
    BY InSend, GotoFacts
  <1>2. call' # NoCall /\ pc \notin ReceivePcs
    BY <1>1 DEF NoCall, SendPcs, ReceivePcs
  <1> QED  BY <1>1, <1>2 DEF PreStep, ReceiveTrack

(* A statement of msg_receive() that another one follows. *)
LEMMA ReceiveMoves ==
    ASSUME IntrInv, PreStep, call.pc \in ReceivePcs, ~halted, halted' = halted,
           NEW pc \in ReceivePcs, Goto(pc)
    PROVE  /\ pre' = pre /\ ~halted' /\ call' # NoCall
           /\ call'.pc = pc /\ call'.p = call.p /\ call'.peer = call.peer
           /\ SendTrack'
  <1>1. call'.pc = pc /\ call'.p = call.p /\ call'.peer = call.peer
    BY InReceive, GotoFacts
  <1>2. call' # NoCall /\ pc \notin SendPcs
    BY <1>1 DEF NoCall, SendPcs, ReceivePcs
  <1> QED  BY <1>1, <1>2 DEF PreStep, SendTrack

(* What is known in an undisturbed call. *)
LEMMA OnTrack ==
    ASSUME IntrInv, TrackInv, masked, ~halted
    PROVE  /\ call.pc \in SendPcs =>
                /\ call.p \in Proc /\ call.peer \in Proc /\ call.p # call.peer
                /\ mem[call.p] \in [source : {call.p}, type : Type]
                /\ SendTrack
           /\ call.pc \in ReceivePcs =>
                /\ call.p \in Proc /\ call.peer \in Proc \cup {ANY, INTERRUPT}
                /\ call.p # call.peer
                /\ ReceiveTrack
           /\ call.pc \in SendPcs \cup ReceivePcs =>
                /\ call \in Calls /\ call # NoCall
                /\ pre.halted = halted /\ pre.p_flags[call.p] = {}
                /\ p_sendto = pre.p_sendto /\ q_sending = pre.q_sending
           /\ A!TypeOK /\ TypeOK
  <1>1. call.pc \in SendPcs \cup ReceivePcs => call # NoCall
    BY DEF SendPcs, ReceivePcs, NoCall
  <1>2. A!TypeOK /\ TypeOK
    BY DEF TrackInv, IntrInv, IntrTypeOK
  <1>3. pre.halted \in BOOLEAN /\ halted = FALSE
    BY <1>2 DEF A!TypeOK, TypeOK
  <1> QED  BY <1>1, <1>2, <1>3, InSend, InReceive DEF TrackInv

(* sys_sendrec() has stamped the message of a SEND. *)
LEMMA EnterSendTrack ==
    ASSUME IntrInv, TrackInv, masked, PreStep,
           NEW p \in Proc, NEW d \in Proc, NEW t \in Type, EnterSend(p, d, t)
    PROVE  TrackInv'
  <1>1. /\ call = NoCall /\ ~halted /\ halted' = halted /\ p_flags[p] = {} /\ p # d
        /\ UNCHANGED table
        /\ mem' = [mem EXCEPT ![p] = [source |-> p, type |-> t]]
    BY DEF EnterSend, At, CanCall, table, IntrInv, CallMatches, SendPcs, ReceivePcs
  <1>2. call'.pc = "s_deadlock" /\ call'.p = p /\ call'.peer = d /\ call' # NoCall
    BY DEF EnterSend, NoCall
  <1>3. pre' = pre /\ pre = Table
    BY <1>1, <1>2 DEF PreStep, TrackInv
  <1>4. mem'[p] = [source |-> p, type |-> t] /\ mem' = [mem EXCEPT ![p] = mem'[p]]
    BY <1>1 DEF IntrInv, IntrTypeOK, TypeOK
  <1>5. SendTrack' /\ ReceiveTrack'
    BY <1>1, <1>2, <1>3, <1>4, TableFields DEF SendTrack, ReceiveTrack, table, ReceivePcs
  <1>6. A!TypeOK' /\ masked' \in BOOLEAN
    BY <1>3, PreKept DEF TrackInv, PreStep
  <1>7. /\ ~halted' /\ ~pre'.halted /\ pre'.p_flags[call'.p] = {}
        /\ p_sendto' = pre'.p_sendto /\ q_sending' = pre'.q_sending
    BY <1>1, <1>2, <1>3, TableFields DEF table
  <1> QED  BY <1>2, <1>5, <1>6, <1>7 DEF TrackInv

(* deadlock() panics, which is SendPanic of Ipc, or lets the call go on. *)
LEMMA SDeadlockTrack ==
    ASSUME IntrInv, TrackInv, masked, PreStep, s_deadlock
    PROVE  Stays \/ Ends
  <1>1. /\ call.pc = "s_deadlock" /\ UNCHANGED <<table, mem>> /\ ~halted
        /\ call.pc \in SendPcs
    BY DEF s_deadlock, At, table, SendPcs
  <1>2. /\ p_flags = pre.p_flags /\ p_msg = pre.p_msg /\ p_recvfrom = pre.p_recvfrom
        /\ has_int_msg = pre.has_int_msg /\ mem = [pre.mem EXCEPT ![call.p] = mem[call.p]]
    BY <1>1, OnTrack DEF SendTrack
  <1>3. deadlock(call.p, call.peer) <=> A!deadlock(call.p, call.peer)
    BY <1>1, <1>2, OnTrack, SameAnswers
  <1>4. CASE deadlock(call.p, call.peer)
    <2>1. halted' = TRUE /\ pre' = Table'
      BY <1>1, <1>4 DEF s_deadlock, Expect, PreStep
    <2>2. PICK m : m = mem[call.p]
      OBVIOUS
    <2>3. m.type \in Type /\ m = [source |-> call.p, type |-> m.type]
      BY <1>1, <2>2, OnTrack
    <2>4. A!SendPanic(call.p, call.peer, m)
      BY <1>1, <1>2, <1>3, <1>4, <2>1, <2>2, OnTrack, TableFields DEF A!SendPanic, table
    <2>5. A!Send(call.p, call.peer, m.type)
      BY <1>1, <2>3, <2>4, OnTrack DEF A!Send, A!CanCall
    <2> QED  BY <1>1, <2>1, <2>3, <2>5, OnTrack DEF A!Next, Ends
  <1>5. CASE ~deadlock(call.p, call.peer)
    <2>1. Goto("s_test") /\ halted' = halted
      BY <1>1, <1>5 DEF s_deadlock, Expect
    <2>2. /\ pre' = pre /\ ~halted' /\ call' # NoCall
          /\ call'.pc = "s_test" /\ call'.p = call.p /\ call'.peer = call.peer
          /\ ReceiveTrack'
      BY <1>1, <2>1, SendMoves DEF SendPcs
    <2>3. SendTrack'
      BY <1>1, <1>2, <1>3, <1>5, <2>2, PreKept DEF SendTrack, table
    <2> QED  BY <1>1, <2>2, <2>3 DEF Stays, table
  <1> QED  BY <1>4, <1>5

LEMMA STestTrack ==
    ASSUME IntrInv, TrackInv, masked, PreStep, s_test
    PROVE  Stays
  <1>1. /\ call.pc = "s_test" /\ UNCHANGED <<table, mem, halted>> /\ ~halted
        /\ call.pc \in SendPcs
    BY DEF s_test, At, table, SendPcs, vars
  <1>2. /\ p_flags = pre.p_flags /\ p_msg = pre.p_msg /\ p_recvfrom = pre.p_recvfrom
        /\ has_int_msg = pre.has_int_msg /\ mem = [pre.mem EXCEPT ![call.p] = mem[call.p]]
        /\ ~A!deadlock(call.p, call.peer)
    BY <1>1, OnTrack DEF SendTrack
  <1>3. DestWaitsFor(call.peer, call.p) <=> A!DestWaitsFor(call.peer, call.p)
    BY <1>1, <1>2, OnTrack, SameAnswers
  <1>4. PICK pc \in {"s_assert", "s_enqueue"} :
            Goto(pc) /\ (DestWaitsFor(call.peer, call.p) <=> pc = "s_assert")
    BY DEF s_test
  <1>5. /\ pre' = pre /\ ~halted' /\ call' # NoCall
        /\ call'.pc = pc /\ call'.p = call.p /\ call'.peer = call.peer
        /\ ReceiveTrack'
    BY <1>1, <1>4, SendMoves DEF SendPcs
  <1>6. SendTrack'
    BY <1>1, <1>2, <1>3, <1>4, <1>5, PreKept DEF SendTrack, table
  <1> QED  BY <1>1, <1>5, <1>6 DEF Stays, table

(* A destination that waits has named its buffer. *)
LEMMA SAssertTrack ==
    ASSUME IntrInv, TrackInv, masked, PreStep, s_assert
    PROVE  Stays
  <1>1. /\ call.pc = "s_assert" /\ UNCHANGED <<table, mem>> /\ ~halted
        /\ call.pc \in SendPcs
    BY DEF s_assert, At, table, SendPcs
  <1>2. /\ p_flags = pre.p_flags /\ p_msg = pre.p_msg /\ p_recvfrom = pre.p_recvfrom
        /\ has_int_msg = pre.has_int_msg /\ mem = [pre.mem EXCEPT ![call.p] = mem[call.p]]
        /\ ~A!deadlock(call.p, call.peer) /\ A!DestWaitsFor(call.peer, call.p)
    BY <1>1, OnTrack DEF SendTrack
  <1>3. DestWaitsFor(call.peer, call.p)
    BY <1>1, <1>2, OnTrack, SameAnswers
  <1>4. p_msg[call.peer]
    BY <1>1, <1>3, OnTrack DEF IntrInv, EntriesMatch, HalfDone, FieldsOf, DestWaitsFor, IsReceiving
  <1>5. Goto("s_copy") /\ halted' = halted
    BY <1>4 DEF s_assert, Expect
  <1>6. /\ pre' = pre /\ ~halted' /\ call' # NoCall
        /\ call'.pc = "s_copy" /\ call'.p = call.p /\ call'.peer = call.peer
        /\ ReceiveTrack'
    BY <1>1, <1>5, SendMoves DEF SendPcs
  <1>7. SendTrack'
    BY <1>1, <1>2, <1>6, PreKept DEF SendTrack, table
  <1> QED  BY <1>1, <1>6, <1>7 DEF Stays, table

LEMMA SCopyTrack ==
    ASSUME IntrInv, TrackInv, masked, PreStep, s_copy
    PROVE  Stays
  <1>1. /\ call.pc = "s_copy" /\ UNCHANGED <<table, halted>> /\ ~halted
        /\ call.pc \in SendPcs /\ Goto("s_clear_msg")
    BY DEF s_copy, At, table, SendPcs
  <1>2. /\ p_flags = pre.p_flags /\ p_msg = pre.p_msg /\ p_recvfrom = pre.p_recvfrom
        /\ has_int_msg = pre.has_int_msg /\ mem = [pre.mem EXCEPT ![call.p] = mem[call.p]]
        /\ ~A!deadlock(call.p, call.peer) /\ A!DestWaitsFor(call.peer, call.p)
    BY <1>1, OnTrack DEF SendTrack
  <1>3. DestWaitsFor(call.peer, call.p)
    BY <1>1, <1>2, OnTrack, SameAnswers
  <1>4. p_msg[call.peer]
    BY <1>1, <1>3, OnTrack DEF IntrInv, EntriesMatch, HalfDone, FieldsOf, DestWaitsFor, IsReceiving
  <1>5. mem' = [mem EXCEPT ![call.peer] = mem[call.p]]
    BY <1>4 DEF s_copy
  <1>6. /\ pre' = pre /\ ~halted' /\ call' # NoCall
        /\ call'.pc = "s_clear_msg" /\ call'.p = call.p /\ call'.peer = call.peer
        /\ ReceiveTrack'
    BY <1>1, SendMoves DEF SendPcs
  <1>7. mem' = [pre.mem EXCEPT ![call.p] = mem'[call.p], ![call.peer] = mem'[call.p]]
    <2>1. /\ call.p \in Proc /\ call.peer \in Proc /\ call.p # call.peer
          /\ DOMAIN pre.mem = Proc /\ DOMAIN mem = Proc
      BY <1>1, OnTrack DEF TypeOK, A!TypeOK
    <2>2. mem'[call.p] = mem[call.p] /\ mem'[call.peer] = mem[call.p]
      BY <1>5, <2>1
    <2>3. PICK m : m = mem[call.p]
      OBVIOUS
    <2>4. mem = [pre.mem EXCEPT ![call.p] = m] /\ mem' = [mem EXCEPT ![call.peer] = m]
      BY <1>2, <1>5, <2>3
    <2>5. mem' = [pre.mem EXCEPT ![call.p] = m, ![call.peer] = m]
      BY <2>4
    <2> QED  BY <2>2, <2>3, <2>5
  <1>8. SendTrack'
    BY <1>1, <1>2, <1>6, <1>7, PreKept DEF SendTrack, table
  <1> QED  BY <1>1, <1>6, <1>8 DEF Stays, table

LEMMA SClearMsgTrack ==
    ASSUME IntrInv, TrackInv, masked, PreStep, s_clear_msg
    PROVE  Stays
  <1>1. /\ call.pc = "s_clear_msg" /\ ~halted /\ call.pc \in SendPcs /\ Goto("s_clear_flags")
        /\ UNCHANGED <<p_flags, p_recvfrom, p_sendto, has_int_msg, q_sending, mem, halted>>
        /\ p_msg' = [p_msg EXCEPT ![call.peer] = FALSE]
    BY DEF s_clear_msg, At, SendPcs
  <1>2. /\ p_flags = pre.p_flags /\ p_msg = pre.p_msg /\ p_recvfrom = pre.p_recvfrom
        /\ has_int_msg = pre.has_int_msg
        /\ mem = [pre.mem EXCEPT ![call.p] = mem[call.p], ![call.peer] = mem[call.p]]
        /\ ~A!deadlock(call.p, call.peer) /\ A!DestWaitsFor(call.peer, call.p)
    BY <1>1, OnTrack DEF SendTrack
  <1>3. /\ pre' = pre /\ ~halted' /\ call' # NoCall
        /\ call'.pc = "s_clear_flags" /\ call'.p = call.p /\ call'.peer = call.peer
        /\ ReceiveTrack'
    BY <1>1, SendMoves DEF SendPcs
  <1>4. SendTrack'
    BY <1>1, <1>2, <1>3, PreKept DEF SendTrack
  <1> QED  BY <1>1, <1>3, <1>4 DEF Stays

LEMMA SClearFlagsTrack ==
    ASSUME IntrInv, TrackInv, masked, PreStep, s_clear_flags
    PROVE  Stays
  <1>1. /\ call.pc = "s_clear_flags" /\ ~halted /\ call.pc \in SendPcs /\ Goto("s_clear_from")
        /\ UNCHANGED <<p_msg, p_recvfrom, p_sendto, has_int_msg, q_sending, mem, halted>>
        /\ p_flags' = [p_flags EXCEPT ![call.peer] = @ \ {"RECEIVING"}]
    BY DEF s_clear_flags, At, SendPcs
  <1>2. /\ p_flags = pre.p_flags /\ p_msg = [pre.p_msg EXCEPT ![call.peer] = FALSE]
        /\ p_recvfrom = pre.p_recvfrom /\ has_int_msg = pre.has_int_msg
        /\ mem = [pre.mem EXCEPT ![call.p] = mem[call.p], ![call.peer] = mem[call.p]]
        /\ ~A!deadlock(call.p, call.peer) /\ A!DestWaitsFor(call.peer, call.p)
    BY <1>1, OnTrack DEF SendTrack
  <1>3. /\ pre' = pre /\ ~halted' /\ call' # NoCall
        /\ call'.pc = "s_clear_from" /\ call'.p = call.p /\ call'.peer = call.peer
        /\ ReceiveTrack'
    BY <1>1, SendMoves DEF SendPcs
  <1>4. SendTrack'
    BY <1>1, <1>2, <1>3, PreKept DEF SendTrack
  <1> QED  BY <1>1, <1>3, <1>4 DEF Stays

LEMMA SClearFromTrack ==
    ASSUME IntrInv, TrackInv, masked, PreStep, s_clear_from
    PROVE  Stays
  <1>1. /\ call.pc = "s_clear_from" /\ ~halted /\ call.pc \in SendPcs /\ Goto("s_end")
        /\ UNCHANGED <<p_flags, p_msg, p_sendto, has_int_msg, q_sending, mem, halted>>
        /\ p_recvfrom' = [p_recvfrom EXCEPT ![call.peer] = NO_TASK]
    BY DEF s_clear_from, At, SendPcs
  <1>2. /\ p_flags = [pre.p_flags EXCEPT ![call.peer] = @ \ {"RECEIVING"}]
        /\ p_msg = [pre.p_msg EXCEPT ![call.peer] = FALSE]
        /\ p_recvfrom = pre.p_recvfrom /\ has_int_msg = pre.has_int_msg
        /\ mem = [pre.mem EXCEPT ![call.p] = mem[call.p], ![call.peer] = mem[call.p]]
        /\ ~A!deadlock(call.p, call.peer) /\ A!DestWaitsFor(call.peer, call.p)
    BY <1>1, OnTrack DEF SendTrack
  <1>3. /\ pre' = pre /\ ~halted' /\ call' # NoCall
        /\ call'.pc = "s_end" /\ call'.p = call.p /\ call'.peer = call.peer
        /\ ReceiveTrack'
    BY <1>1, SendMoves DEF SendPcs
  <1>4. SendTrack'
    BY <1>1, <1>2, <1>3, PreKept DEF SendTrack
  <1> QED  BY <1>1, <1>3, <1>4 DEF Stays

(* The delivery is over: SendDeliver of Ipc. *)
LEMMA SEndTrack ==
    ASSUME IntrInv, TrackInv, masked, PreStep, s_end
    PROVE  Ends
  <1>1. /\ call.pc = "s_end" /\ ~halted /\ call.pc \in SendPcs /\ UNCHANGED <<table, mem>>
    BY DEF s_end, At, table, SendPcs
  <1>2. /\ p_flags = [pre.p_flags EXCEPT ![call.peer] = @ \ {"RECEIVING"}]
        /\ p_msg = [pre.p_msg EXCEPT ![call.peer] = FALSE]
        /\ p_recvfrom = [pre.p_recvfrom EXCEPT ![call.peer] = NO_TASK]
        /\ has_int_msg = pre.has_int_msg
        /\ mem = [pre.mem EXCEPT ![call.p] = mem[call.p], ![call.peer] = mem[call.p]]
        /\ ~A!deadlock(call.p, call.peer) /\ A!DestWaitsFor(call.peer, call.p)
    BY <1>1, OnTrack DEF SendTrack
  <1>3. ~halted' /\ call' = NoCall /\ halted' = halted
    BY <1>1, SEndInv DEF s_end, Expect, Goto
  <1>4. pre' = Table'
    BY <1>3 DEF PreStep
  <1>5. PICK m : m = mem[call.p]
    OBVIOUS
  <1>6. m.type \in Type /\ m = [source |-> call.p, type |-> m.type]
    BY <1>1, <1>5, OnTrack
  <1>7. A!SendDeliver(call.p, call.peer, m)
    <2>1. pre'.mem = [pre.mem EXCEPT ![call.p] = m, ![call.peer] = m]
      BY <1>1, <1>2, <1>4, <1>5, TableFields
    <2>2. /\ pre'.p_flags = [pre.p_flags EXCEPT ![call.peer] = @ \ {"RECEIVING"}]
          /\ pre'.p_msg = [pre.p_msg EXCEPT ![call.peer] = FALSE]
          /\ pre'.p_recvfrom = [pre.p_recvfrom EXCEPT ![call.peer] = NO_TASK]
      BY Zenon, <1>1, <1>2, <1>4, TableFields DEF table
    <2>3. /\ pre'.p_sendto = pre.p_sendto /\ pre'.has_int_msg = pre.has_int_msg
          /\ pre'.q_sending = pre.q_sending /\ pre'.halted = pre.halted
      <3>1. pre.halted = halted /\ p_sendto = pre.p_sendto /\ q_sending = pre.q_sending
        BY <1>1, OnTrack
      <3> QED  BY Zenon, <1>1, <1>2, <1>3, <1>4, <3>1, TableFields DEF table
    <2> QED  BY Zenon, <1>2, <2>1, <2>2, <2>3 DEF A!SendDeliver
  <1>8. A!Send(call.p, call.peer, m.type)
    BY <1>1, <1>6, <1>7, OnTrack DEF A!Send, A!CanCall
  <1> QED  BY <1>1, <1>3, <1>4, <1>6, <1>8, OnTrack DEF A!Next, Ends

(* The caller joins the queue: SendBlock of Ipc. *)
LEMMA SEnqueueTrack ==
    ASSUME IntrInv, TrackInv, masked, PreStep, s_enqueue
    PROVE  Ends
  <1>1. /\ call.pc = "s_enqueue" /\ ~halted /\ call.pc \in SendPcs
        /\ p_flags' = [p_flags EXCEPT ![call.p] = @ \cup {"SENDING"}]
        /\ p_sendto' = [p_sendto EXCEPT ![call.p] = call.peer]
        /\ p_msg' = [p_msg EXCEPT ![call.p] = TRUE]
        /\ q_sending' = [q_sending EXCEPT ![call.peer] = Append(@, call.p)]
        /\ UNCHANGED <<p_recvfrom, has_int_msg, mem, halted>>
    BY DEF s_enqueue, At, SendPcs
  <1>2. /\ p_flags = pre.p_flags /\ p_msg = pre.p_msg /\ p_recvfrom = pre.p_recvfrom
        /\ has_int_msg = pre.has_int_msg /\ mem = [pre.mem EXCEPT ![call.p] = mem[call.p]]
        /\ ~A!deadlock(call.p, call.peer) /\ ~A!DestWaitsFor(call.peer, call.p)
    BY <1>1, OnTrack DEF SendTrack
  <1>3. call' = NoCall
    BY DEF s_enqueue, Goto
  <1>4. pre' = Table'
    BY <1>3 DEF PreStep
  <1>5. PICK m : m = mem[call.p]
    OBVIOUS
  <1>6. m.type \in Type /\ m = [source |-> call.p, type |-> m.type]
    BY <1>1, <1>5, OnTrack
  <1>7. A!SendBlock(call.p, call.peer, m)
    <2>1. pre'.mem = [pre.mem EXCEPT ![call.p] = m]
      BY <1>1, <1>2, <1>4, <1>5, TableFields
    <2>2. p_sendto = pre.p_sendto /\ q_sending = pre.q_sending
      BY <1>1, OnTrack
    <2>3. /\ pre'.p_flags = [pre.p_flags EXCEPT ![call.p] = @ \cup {"SENDING"}]
          /\ pre'.p_sendto = [pre.p_sendto EXCEPT ![call.p] = call.peer]
          /\ pre'.p_msg = [pre.p_msg EXCEPT ![call.p] = TRUE]
          /\ pre'.q_sending = [pre.q_sending EXCEPT ![call.peer] = Append(@, call.p)]
      BY Zenon, <1>1, <1>2, <1>4, <2>2, TableFields
    <2>4. /\ pre'.p_recvfrom = pre.p_recvfrom /\ pre'.has_int_msg = pre.has_int_msg
          /\ pre'.halted = pre.halted
      <3>1. pre.halted = halted
        BY <1>1, OnTrack
      <3> QED  BY Zenon, <1>1, <1>2, <1>4, <3>1, TableFields
    <2> QED  BY Zenon, <1>2, <2>1, <2>3, <2>4 DEF A!SendBlock
  <1>8. A!Send(call.p, call.peer, m.type)
    BY <1>1, <1>6, <1>7, OnTrack DEF A!Send, A!CanCall
  <1> QED  BY <1>1, <1>3, <1>4, <1>6, <1>8, OnTrack DEF A!Next, Ends

(* sys_sendrec() has prepared the buffer of a RECEIVE. *)
LEMMA EnterReceiveTrack ==
    ASSUME IntrInv, TrackInv, masked, PreStep, NEW p \in Proc,
           NEW src \in Proc \cup {ANY, INTERRUPT}, NEW both \in BOOLEAN,
           EnterReceive(p, src, both)
    PROVE  TrackInv'
  <1>1. /\ call = NoCall /\ ~halted /\ halted' = halted /\ p_flags[p] = {} /\ p # src
        /\ UNCHANGED table
        /\ mem' = [mem EXCEPT ![p] = Buffer(p, both)]
    BY DEF EnterReceive, At, CanCall, table, IntrInv, CallMatches, SendPcs, ReceivePcs
  <1>2. call'.pc = "r_test" /\ call'.p = p /\ call'.peer = src /\ call' # NoCall
    BY DEF EnterReceive, NoCall
  <1>3. pre' = pre /\ pre = Table
    BY <1>1, <1>2 DEF PreStep, TrackInv
  <1>4. mem'[p] = Buffer(p, both) /\ mem' = [mem EXCEPT ![p] = mem'[p]]
    BY <1>1 DEF IntrInv, IntrTypeOK, TypeOK
  <1>5. Buffer(p, both) = A!Buffer(p, both)
    BY <1>3, TableFields DEF Buffer, A!Buffer
  <1>6. A!Buffer(p, both)' = A!Buffer(p, both)
    BY <1>3, PreKept
  <1>7. SendTrack' /\ ReceiveTrack'
    <2>1. SendTrack'
      BY <1>2 DEF SendTrack, SendPcs
    <2>2. /\ p_flags' = pre'.p_flags /\ p_msg' = pre'.p_msg /\ p_recvfrom' = pre'.p_recvfrom
          /\ has_int_msg' = pre'.has_int_msg /\ mem = pre'.mem
      BY <1>1, <1>3, TableFields DEF table
    <2>3. mem'[p] = A!Buffer(p, both)' /\ mem' = [pre'.mem EXCEPT ![p] = mem'[p]]
      BY <1>4, <1>5, <1>6, <2>2
    <2> QED  BY <1>2, <2>1, <2>2, <2>3 DEF ReceiveTrack
  <1>8. A!TypeOK' /\ masked' \in BOOLEAN
    BY <1>3, PreKept DEF TrackInv, PreStep
  <1>9. /\ ~halted' /\ ~pre'.halted /\ pre'.p_flags[call'.p] = {}
        /\ p_sendto' = pre'.p_sendto /\ q_sending' = pre'.q_sending
    BY <1>1, <1>2, <1>3, TableFields DEF table
  <1> QED  BY <1>2, <1>7, <1>8, <1>9 DEF TrackInv

LEMMA RTestTrack ==
    ASSUME IntrInv, TrackInv, masked, PreStep, r_test
    PROVE  Stays
  <1>1. /\ call.pc = "r_test" /\ UNCHANGED <<table, mem, halted>> /\ ~halted
        /\ call.pc \in ReceivePcs
    BY DEF r_test, At, table, ReceivePcs, vars
  <1>2. /\ p_flags = pre.p_flags /\ p_msg = pre.p_msg /\ p_recvfrom = pre.p_recvfrom
        /\ has_int_msg = pre.has_int_msg /\ mem = [pre.mem EXCEPT ![call.p] = mem[call.p]]
        /\ \E both \in BOOLEAN : mem[call.p] = A!Buffer(call.p, both)
    BY <1>1, OnTrack DEF ReceiveTrack
  <1>3. TakesInterrupt(call.p, call.peer) <=> A!TakesInterrupt(call.p, call.peer)
    BY <1>2 DEF TakesInterrupt, A!TakesInterrupt
  <1>4. PICK pc \in {"ri_copy", "r_pick"} :
            Goto(pc) /\ (TakesInterrupt(call.p, call.peer) <=> pc = "ri_copy")
    BY DEF r_test
  <1>5. /\ pre' = pre /\ ~halted' /\ call' # NoCall
        /\ call'.pc = pc /\ call'.p = call.p /\ call'.peer = call.peer
        /\ SendTrack'
    BY <1>1, <1>4, ReceiveMoves DEF ReceivePcs
  <1>6. ReceiveTrack'
    BY <1>1, <1>2, <1>3, <1>4, <1>5, PreKept DEF ReceiveTrack, table
  <1> QED  BY <1>1, <1>5, <1>6 DEF Stays, table

LEMMA RiCopyTrack ==
    ASSUME IntrInv, TrackInv, masked, PreStep, ri_copy
    PROVE  Stays
  <1>1. /\ call.pc = "ri_copy" /\ UNCHANGED <<table, halted>> /\ ~halted
        /\ call.pc \in ReceivePcs /\ Goto("ri_clear")
        /\ mem' = [mem EXCEPT ![call.p] = [source |-> INTERRUPT, type |-> HARD_INT]]
    BY DEF ri_copy, At, table, ReceivePcs
  <1>2. /\ p_flags = pre.p_flags /\ p_msg = pre.p_msg /\ p_recvfrom = pre.p_recvfrom
        /\ has_int_msg = pre.has_int_msg /\ mem = [pre.mem EXCEPT ![call.p] = mem[call.p]]
        /\ A!TakesInterrupt(call.p, call.peer)
    BY <1>1, OnTrack DEF ReceiveTrack
  <1>3. /\ pre' = pre /\ ~halted' /\ call' # NoCall
        /\ call'.pc = "ri_clear" /\ call'.p = call.p /\ call'.peer = call.peer
        /\ SendTrack'
    BY <1>1, ReceiveMoves DEF ReceivePcs
  <1>4. mem'[call.p] = [source |-> INTERRUPT, type |-> HARD_INT]
    BY <1>1, OnTrack DEF TypeOK
  <1>5. PICK m : m = mem'[call.p]
    OBVIOUS
  <1>6. mem' = [pre.mem EXCEPT ![call.p] = m]
    BY <1>1, <1>2, <1>4, <1>5, OnTrack DEF TypeOK, A!TypeOK
  <1>7. ReceiveTrack'
    BY <1>1, <1>2, <1>3, <1>4, <1>5, <1>6, PreKept DEF ReceiveTrack, table
  <1> QED  BY <1>1, <1>3, <1>7 DEF Stays, table

LEMMA RiClearTrack ==
    ASSUME IntrInv, TrackInv, masked, PreStep, ri_clear
    PROVE  Stays
  <1>1. /\ call.pc = "ri_clear" /\ ~halted /\ call.pc \in ReceivePcs /\ Goto("ri_end")
        /\ UNCHANGED <<p_flags, p_msg, p_recvfrom, p_sendto, q_sending, mem, halted>>
        /\ has_int_msg' = [has_int_msg EXCEPT ![call.p] = FALSE]
    BY DEF ri_clear, At, ReceivePcs
  <1>2. /\ p_flags = pre.p_flags /\ p_msg = pre.p_msg /\ p_recvfrom = pre.p_recvfrom
        /\ has_int_msg = pre.has_int_msg /\ mem = [pre.mem EXCEPT ![call.p] = mem[call.p]]
        /\ mem[call.p] = [source |-> INTERRUPT, type |-> HARD_INT]
        /\ A!TakesInterrupt(call.p, call.peer)
    BY <1>1, OnTrack DEF ReceiveTrack
  <1>3. /\ pre' = pre /\ ~halted' /\ call' # NoCall
        /\ call'.pc = "ri_end" /\ call'.p = call.p /\ call'.peer = call.peer
        /\ SendTrack'
    BY <1>1, ReceiveMoves DEF ReceivePcs
  <1>4. ReceiveTrack'
    BY <1>1, <1>2, <1>3, PreKept DEF ReceiveTrack
  <1> QED  BY <1>1, <1>3, <1>4 DEF Stays

(* The interrupt is taken: ReceiveInt of Ipc. *)
LEMMA RiEndTrack ==
    ASSUME IntrInv, TrackInv, masked, PreStep, ri_end
    PROVE  Ends
  <1>1. /\ call.pc = "ri_end" /\ ~halted /\ call.pc \in ReceivePcs /\ UNCHANGED <<table, mem>>
    BY DEF ri_end, At, table, ReceivePcs
  <1>2. /\ p_flags = pre.p_flags /\ p_msg = pre.p_msg /\ p_recvfrom = pre.p_recvfrom
        /\ has_int_msg = [pre.has_int_msg EXCEPT ![call.p] = FALSE]
        /\ mem = [pre.mem EXCEPT ![call.p] = mem[call.p]]
        /\ mem[call.p] = [source |-> INTERRUPT, type |-> HARD_INT]
        /\ A!TakesInterrupt(call.p, call.peer)
    BY <1>1, OnTrack DEF ReceiveTrack
  <1>3. call.p \in Proc /\ pre.p_flags[call.p] = {}
    BY <1>1, OnTrack
  <1>4. ~has_int_msg[call.p] /\ p_flags[call.p] = {} /\ ~p_msg[call.p]
    <2>1. ~has_int_msg[call.p]
      BY <1>2, <1>3, OnTrack, <1>1 DEF A!TypeOK
    <2>2. p_flags[call.p] = {}
      BY <1>2, <1>3
    <2> QED  BY <1>1, <1>3, <2>1, <2>2 DEF IntrInv, EntriesMatch, HalfDone, FieldsOf
  <1>5. call' = NoCall /\ halted' = halted
    BY <1>4 DEF ri_end, Expect, Goto
  <1>6. pre' = Table'
    BY <1>5 DEF PreStep
  <1>7. A!ReceiveInt(call.p, call.peer)
    <2>1. pre'.mem = [pre.mem EXCEPT ![call.p] = [source |-> INTERRUPT, type |-> HARD_INT]]
      BY Zenon, <1>1, <1>2, <1>6, TableFields
    <2>2. pre'.has_int_msg = [pre.has_int_msg EXCEPT ![call.p] = FALSE]
      BY Zenon, <1>1, <1>2, <1>6, TableFields DEF table
    <2>3. /\ pre'.p_flags = pre.p_flags /\ pre'.p_msg = pre.p_msg
          /\ pre'.p_recvfrom = pre.p_recvfrom /\ pre'.p_sendto = pre.p_sendto
          /\ pre'.q_sending = pre.q_sending /\ pre'.halted = pre.halted
      <3>1. pre.halted = halted /\ p_sendto = pre.p_sendto /\ q_sending = pre.q_sending
        BY <1>1, OnTrack
      <3> QED  BY Zenon, <1>1, <1>2, <1>5, <1>6, <3>1, TableFields DEF table
    <2> QED  BY Zenon, <1>2, <2>1, <2>2, <2>3 DEF A!ReceiveInt
  <1>8. A!Receive(call.p, call.peer, TRUE)
    BY <1>1, <1>7, OnTrack DEF A!Receive, A!CanCall
  <1> QED  BY <1>1, <1>5, <1>6, <1>8, OnTrack DEF A!Next, Ends

(* A queued message is taken, which is ReceiveQueued of Ipc, or the caller  *)
(* is going to wait.                                                        *)
LEMMA RPickTrack ==
    ASSUME IntrInv, TrackInv, masked, PreStep, r_pick
    PROVE  Stays \/ Ends
  <1>1. /\ call.pc = "r_pick" /\ ~halted /\ call.pc \in ReceivePcs
        /\ UNCHANGED <<p_recvfrom, has_int_msg, halted>>
    BY DEF r_pick, At, ReceivePcs
  <1>2. /\ p_flags = pre.p_flags /\ p_msg = pre.p_msg /\ p_recvfrom = pre.p_recvfrom
        /\ has_int_msg = pre.has_int_msg /\ mem = [pre.mem EXCEPT ![call.p] = mem[call.p]]
        /\ \E both \in BOOLEAN : mem[call.p] = A!Buffer(call.p, both)
        /\ ~A!TakesInterrupt(call.p, call.peer)
    BY <1>1, OnTrack DEF ReceiveTrack
  <1>3. /\ call.p \in Proc /\ pre.p_flags[call.p] = {} /\ p_sendto = pre.p_sendto
        /\ q_sending = pre.q_sending
    BY <1>1, OnTrack
  <1>4. SenderReady(call.p, call.peer) <=> A!SenderReady(call.p, call.peer)
    BY <1>2, <1>3, SameAnswers
  <1>5. CASE SenderReady(call.p, call.peer)
    <2>1. PICK i : i = Position(call.p, call.peer)
      OBVIOUS
    <2>2. PICK from : from = q_sending[call.p][i]
      OBVIOUS
    <2>3. from \in Proc /\ from # call.p
      <3>1. CanCall(call.p)
        BY <1>1, <1>2, <1>3 DEF CanCall
      <3> QED  BY <1>3, <1>5, <2>1, <2>2, <3>1, PositionFacts DEF IntrInv, IntrTypeOK
    <2>4. /\ q_sending' = [q_sending EXCEPT ![call.p] = RemoveAt(@, i)]
          /\ mem' = [mem EXCEPT ![call.p] = mem[from]]
          /\ p_msg' = [p_msg EXCEPT ![from] = FALSE]
          /\ p_sendto' = [p_sendto EXCEPT ![from] = NO_TASK]
          /\ p_flags' = [p_flags EXCEPT ![from] = @ \ {"SENDING"}]
          /\ call' = NoCall
      BY <1>5, <2>1, <2>2 DEF r_pick, Goto
    <2>5. pre' = Table'
      BY <2>4 DEF PreStep
    <2>6. i = A!Position(call.p, call.peer) /\ from = pre.q_sending[call.p][i]
      BY <1>3, <2>1, <2>2 DEF Position, A!Position
    <2>7. mem[from] = pre.mem[from] /\ mem' = [pre.mem EXCEPT ![call.p] = pre.mem[from]]
      <3>1. PICK m : m = mem[call.p]
        OBVIOUS
      <3>2. mem = [pre.mem EXCEPT ![call.p] = m] /\ DOMAIN pre.mem = Proc
        BY <1>1, <1>2, <3>1, OnTrack DEF A!TypeOK
      <3>3. mem[from] = pre.mem[from]
        BY <2>3, <3>2
      <3>4. PICK n : n = pre.mem[from]
        OBVIOUS
      <3>5. mem' = [mem EXCEPT ![call.p] = n]
        BY <2>4, <3>3, <3>4
      <3>6. mem' = [pre.mem EXCEPT ![call.p] = n]
        BY <3>2, <3>5
      <3> QED  BY <3>3, <3>4, <3>6
    <2>8. /\ pre'.q_sending = [pre.q_sending EXCEPT ![call.p] = A!RemoveAt(@, i)]
          /\ pre'.mem = [pre.mem EXCEPT ![call.p] = pre.mem[from]]
          /\ pre'.p_msg = [pre.p_msg EXCEPT ![from] = FALSE]
          /\ pre'.p_sendto = [pre.p_sendto EXCEPT ![from] = NO_TASK]
          /\ pre'.p_flags = [pre.p_flags EXCEPT ![from] = @ \ {"SENDING"}]
      <3>1. pre'.q_sending = [pre.q_sending EXCEPT ![call.p] = A!RemoveAt(@, i)]
        BY Zenon, <1>3, <2>4, <2>5, TableFields DEF RemoveAt, A!RemoveAt
      <3> QED  BY Zenon, <1>2, <1>3, <2>4, <2>5, <2>7, <3>1, TableFields
    <2>9. /\ pre'.p_recvfrom = pre.p_recvfrom /\ pre'.has_int_msg = pre.has_int_msg
          /\ pre'.halted = pre.halted
      <3>1. pre.halted = halted
        BY <1>1, OnTrack
      <3> QED  BY Zenon, <1>1, <1>2, <2>5, <3>1, TableFields
    <2>10. A!ReceiveQueued(call.p, call.peer)
      BY Zenon, <1>2, <1>4, <1>5, <2>6, <2>8, <2>9 DEF A!ReceiveQueued
    <2>11. A!Receive(call.p, call.peer, TRUE)
      BY <1>1, <2>10, OnTrack DEF A!Receive, A!CanCall
    <2> QED  BY <1>1, <2>4, <2>5, <2>11, OnTrack DEF A!Next, Ends
  <1>6. CASE ~SenderReady(call.p, call.peer)
    <2>1. Goto("r_flag") /\ UNCHANGED <<table, mem>>
      BY <1>1, <1>6 DEF r_pick, table
    <2>2. /\ pre' = pre /\ ~halted' /\ call' # NoCall
          /\ call'.pc = "r_flag" /\ call'.p = call.p /\ call'.peer = call.peer
          /\ SendTrack'
      BY <1>1, <2>1, ReceiveMoves DEF ReceivePcs
    <2>3. ReceiveTrack'
      BY <1>1, <1>2, <1>4, <1>6, <2>1, <2>2, PreKept DEF ReceiveTrack, table
    <2> QED  BY <2>1, <2>2, <2>3 DEF Stays, table
  <1> QED  BY <1>5, <1>6

LEMMA RFlagTrack ==
    ASSUME IntrInv, TrackInv, masked, PreStep, r_flag
    PROVE  Stays
  <1>1. /\ call.pc = "r_flag" /\ ~halted /\ call.pc \in ReceivePcs /\ Goto("r_msg")
        /\ UNCHANGED <<p_msg, p_recvfrom, p_sendto, has_int_msg, q_sending, mem, halted>>
        /\ p_flags' = [p_flags EXCEPT ![call.p] = @ \cup {"RECEIVING"}]
    BY DEF r_flag, At, ReceivePcs
  <1>2. /\ p_flags = pre.p_flags /\ p_msg = pre.p_msg /\ p_recvfrom = pre.p_recvfrom
        /\ has_int_msg = pre.has_int_msg /\ mem = [pre.mem EXCEPT ![call.p] = mem[call.p]]
        /\ \E both \in BOOLEAN : mem[call.p] = A!Buffer(call.p, both)
        /\ ~A!TakesInterrupt(call.p, call.peer) /\ ~A!SenderReady(call.p, call.peer)
    BY <1>1, OnTrack DEF ReceiveTrack
  <1>3. /\ pre' = pre /\ ~halted' /\ call' # NoCall
        /\ call'.pc = "r_msg" /\ call'.p = call.p /\ call'.peer = call.peer
        /\ SendTrack'
    BY <1>1, ReceiveMoves DEF ReceivePcs
  <1>4. ReceiveTrack'
    BY <1>1, <1>2, <1>3, PreKept DEF ReceiveTrack
  <1> QED  BY <1>1, <1>3, <1>4 DEF Stays

LEMMA RMsgTrack ==
    ASSUME IntrInv, TrackInv, masked, PreStep, r_msg
    PROVE  Stays
  <1>1. /\ call.pc = "r_msg" /\ ~halted /\ call.pc \in ReceivePcs /\ Goto("r_from")
        /\ UNCHANGED <<p_flags, p_recvfrom, p_sendto, has_int_msg, q_sending, mem, halted>>
        /\ p_msg' = [p_msg EXCEPT ![call.p] = TRUE]
    BY DEF r_msg, At, ReceivePcs
  <1>2. /\ p_flags = [pre.p_flags EXCEPT ![call.p] = @ \cup {"RECEIVING"}]
        /\ p_msg = pre.p_msg /\ p_recvfrom = pre.p_recvfrom
        /\ has_int_msg = pre.has_int_msg /\ mem = [pre.mem EXCEPT ![call.p] = mem[call.p]]
        /\ \E both \in BOOLEAN : mem[call.p] = A!Buffer(call.p, both)
        /\ ~A!TakesInterrupt(call.p, call.peer) /\ ~A!SenderReady(call.p, call.peer)
    BY <1>1, OnTrack DEF ReceiveTrack
  <1>3. /\ pre' = pre /\ ~halted' /\ call' # NoCall
        /\ call'.pc = "r_from" /\ call'.p = call.p /\ call'.peer = call.peer
        /\ SendTrack'
    BY <1>1, ReceiveMoves DEF ReceivePcs
  <1>4. ReceiveTrack'
    BY <1>1, <1>2, <1>3, PreKept DEF ReceiveTrack
  <1> QED  BY <1>1, <1>3, <1>4 DEF Stays

LEMMA RFromTrack ==
    ASSUME IntrInv, TrackInv, masked, PreStep, r_from
    PROVE  Stays
  <1>1. /\ call.pc = "r_from" /\ ~halted /\ call.pc \in ReceivePcs /\ Goto("block")
        /\ UNCHANGED <<p_flags, p_msg, p_sendto, has_int_msg, q_sending, mem, halted>>
        /\ p_recvfrom' = [p_recvfrom EXCEPT ![call.p] = call.peer]
    BY DEF r_from, At, ReceivePcs
  <1>2. /\ p_flags = [pre.p_flags EXCEPT ![call.p] = @ \cup {"RECEIVING"}]
        /\ p_msg = [pre.p_msg EXCEPT ![call.p] = TRUE] /\ p_recvfrom = pre.p_recvfrom
        /\ has_int_msg = pre.has_int_msg /\ mem = [pre.mem EXCEPT ![call.p] = mem[call.p]]
        /\ \E both \in BOOLEAN : mem[call.p] = A!Buffer(call.p, both)
        /\ ~A!TakesInterrupt(call.p, call.peer) /\ ~A!SenderReady(call.p, call.peer)
    BY <1>1, OnTrack DEF ReceiveTrack
  <1>3. /\ pre' = pre /\ ~halted' /\ call' # NoCall
        /\ call'.pc = "block" /\ call'.p = call.p /\ call'.peer = call.peer
        /\ SendTrack'
    BY <1>1, ReceiveMoves DEF ReceivePcs
  <1>4. ReceiveTrack'
    BY <1>1, <1>2, <1>3, PreKept DEF ReceiveTrack
  <1> QED  BY <1>1, <1>3, <1>4 DEF Stays

(* What an undisturbed msg_receive() has made of the entry of its caller. *)
LEMMA Asleep ==
    ASSUME IntrInv, TrackInv, masked, ~halted, call.pc \in {"block", "r_end"}
    PROVE  /\ p_flags[call.p] = {"RECEIVING"} /\ p_msg[call.p]
           /\ p_recvfrom[call.p] = call.peer /\ call.peer # NO_TASK
  <1>1. call.pc \in ReceivePcs
    BY DEF ReceivePcs
  <1>2. /\ call.p \in Proc /\ call.peer \in Proc \cup {ANY, INTERRUPT}
        /\ pre.p_flags[call.p] = {} /\ ReceiveTrack /\ A!TypeOK
    BY <1>1, OnTrack
  <1>3. /\ p_flags = [pre.p_flags EXCEPT ![call.p] = @ \cup {"RECEIVING"}]
        /\ p_msg = [pre.p_msg EXCEPT ![call.p] = TRUE]
        /\ p_recvfrom = [pre.p_recvfrom EXCEPT ![call.p] = call.peer]
    BY <1>1, <1>2 DEF ReceiveTrack
  <1> QED  BY <1>2, <1>3, ProcAssumption DEF A!TypeOK

LEMMA BlockTrack ==
    ASSUME IntrInv, TrackInv, masked, PreStep, block
    PROVE  Stays
  <1>1. /\ call.pc = "block" /\ ~halted /\ call.pc \in ReceivePcs /\ UNCHANGED <<table, mem>>
    BY DEF block, At, ReceivePcs, table
  <1>2. Goto("r_end") /\ halted' = halted
    BY <1>1, Asleep DEF block, Expect
  <1>3. ReceiveTrack
    BY <1>1, OnTrack
  <1>4. /\ pre' = pre /\ ~halted' /\ call' # NoCall
        /\ call'.pc = "r_end" /\ call'.p = call.p /\ call'.peer = call.peer
        /\ SendTrack'
    BY <1>1, <1>2, ReceiveMoves DEF ReceivePcs
  <1>5. ReceiveTrack'
    BY <1>1, <1>3, <1>4, PreKept DEF ReceiveTrack, table
  <1> QED  BY <1>1, <1>4, <1>5 DEF Stays, table

(* The caller sleeps, or the last assertion has failed: ReceiveBlock of Ipc. *)
LEMMA REndTrack ==
    ASSUME IntrInv, TrackInv, masked, PreStep, r_end
    PROVE  Ends
  <1>1. /\ call.pc = "r_end" /\ ~halted /\ call.pc \in ReceivePcs /\ UNCHANGED <<table, mem>>
    BY DEF r_end, At, ReceivePcs, table
  <1>2. /\ p_flags = [pre.p_flags EXCEPT ![call.p] = @ \cup {"RECEIVING"}]
        /\ p_msg = [pre.p_msg EXCEPT ![call.p] = TRUE]
        /\ p_recvfrom = [pre.p_recvfrom EXCEPT ![call.p] = call.peer]
        /\ has_int_msg = pre.has_int_msg /\ mem = [pre.mem EXCEPT ![call.p] = mem[call.p]]
        /\ ~A!TakesInterrupt(call.p, call.peer) /\ ~A!SenderReady(call.p, call.peer)
    BY <1>1, OnTrack DEF ReceiveTrack
  <1>3. PICK both \in BOOLEAN : mem[call.p] = A!Buffer(call.p, both)
    BY <1>1, OnTrack DEF ReceiveTrack
  <1>4. has_int_msg[call.p] \in BOOLEAN
    BY <1>1, OnTrack DEF TypeOK
  <1>5. halted' = has_int_msg[call.p] /\ (call' = NoCall \/ halted')
    <2>1. CASE has_int_msg[call.p]
      <3>1. halted' = TRUE
        BY <2>1 DEF r_end, Expect
      <3> QED  BY <1>4, <2>1, <3>1
    <2>2. CASE ~has_int_msg[call.p]
      <3>1. call' = NoCall /\ halted' = halted
        BY <1>1, <2>2, Asleep DEF r_end, Expect, Goto
      <3>2. halted = FALSE /\ has_int_msg[call.p] = FALSE
        BY <1>1, <1>4, <2>2, OnTrack DEF TypeOK
      <3> QED  BY <3>1, <3>2
    <2> QED  BY <2>1, <2>2
  <1>6. pre' = Table'
    BY <1>5 DEF PreStep
  <1>7. A!ReceiveBlock(call.p, call.peer, both)
    <2>1. pre'.mem = [pre.mem EXCEPT ![call.p] = A!Buffer(call.p, both)]
      BY Zenon, <1>1, <1>2, <1>3, <1>6, TableFields
    <2>2. /\ pre'.p_flags = [pre.p_flags EXCEPT ![call.p] = @ \cup {"RECEIVING"}]
          /\ pre'.p_msg = [pre.p_msg EXCEPT ![call.p] = TRUE]
          /\ pre'.p_recvfrom = [pre.p_recvfrom EXCEPT ![call.p] = call.peer]
          /\ pre'.halted = pre.has_int_msg[call.p]
      BY Zenon, <1>1, <1>2, <1>5, <1>6, TableFields DEF table
    <2>3. /\ pre'.p_sendto = pre.p_sendto /\ pre'.has_int_msg = pre.has_int_msg
          /\ pre'.q_sending = pre.q_sending
      BY <1>1, <1>2, <1>6, OnTrack, TableFields DEF table
    <2> QED  BY Zenon, <1>2, <2>1, <2>2, <2>3 DEF A!ReceiveBlock
  <1>8. A!Receive(call.p, call.peer, both)
    BY <1>1, <1>7, OnTrack DEF A!Receive, A!CanCall
  <1> QED  BY <1>1, <1>5, <1>6, <1>8, OnTrack DEF A!Next, Ends

(* An interrupt between two calls is inform_int() of Ipc. *)
LEMMA InterruptTrack ==
    ASSUME IntrInv, TrackInv, masked, PreStep, call = NoCall, NEW t \in IntTask, Interrupt(t)
    PROVE  Ends
  <1>1. ~halted /\ call' = NoCall
    BY DEF Interrupt
  <1>2. pre' = Table' /\ pre = Table
    BY <1>1 DEF PreStep, TrackInv
  <1>3. IInv
    BY SoundTable DEF HalfDone, Dozing, NoCall
  <1>4. t \in Proc
    BY ProcAssumption
  <1>5. ~(WaitsForInterrupt(t) /\ ~p_msg[t])
    BY <1>3, <1>4 DEF IInv, FieldsMatchFlags, WaitsForInterrupt, IsReceiving
  <1>6. inform_int(t)
    BY <1>5 DEF Interrupt
  <1>7. A!inform_int(t)
    <2>1. WaitsForInterrupt(t) <=> A!WaitsForInterrupt(t)
      BY <1>2, TableFields DEF WaitsForInterrupt, A!WaitsForInterrupt, IsReceiving, A!IsReceiving
    <2>2. ASSUME IntWake(t) PROVE A!IntWake(t)
      BY <1>2, <2>1, <2>2, TableFields DEF IntWake, A!IntWake
    <2>3. ASSUME IntMark(t) PROVE A!IntMark(t)
      BY <1>2, <2>1, <2>3, TableFields DEF IntMark, A!IntMark
    <2> QED  BY <1>1, <1>2, <1>6, <2>2, <2>3, TableFields DEF inform_int, A!inform_int
  <1> QED  BY <1>1, <1>2, <1>7 DEF A!Next, Ends

(* The two kinds of steps of an undisturbed call. *)
LEMMA StaysTrack ==
    ASSUME TrackInv, PreStep, masked, Stays, ~halted, call # NoCall
    PROVE  TrackInv' /\ UNCHANGED A!vars
  <1>1. /\ pre' = pre /\ ~halted' /\ call' # NoCall /\ call'.p = call.p
        /\ UNCHANGED <<p_sendto, q_sending>> /\ SendTrack' /\ ReceiveTrack'
    BY DEF Stays
  <1>2. A!TypeOK' /\ masked' \in BOOLEAN /\ UNCHANGED A!vars
    BY <1>1, PreKept DEF TrackInv, PreStep
  <1>3. /\ ~pre.halted /\ pre.p_flags[call.p] = {}
        /\ p_sendto = pre.p_sendto /\ q_sending = pre.q_sending
    BY DEF TrackInv
  <1> QED  BY <1>1, <1>2, <1>3 DEF TrackInv

LEMMA EndsTrack ==
    ASSUME IntrInv', TrackInv, PreStep, Ends
    PROVE  TrackInv' /\ A!Next
  <1>1. pre' = Table' /\ (call' = NoCall \/ halted') /\ A!Next /\ masked' \in BOOLEAN
    BY DEF Ends, PreStep, TrackInv
  <1>2. TypeOK'
    BY DEF IntrInv, IntrTypeOK
  <1>3. A!TypeOK'
    BY <1>1, <1>2, TableFields DEF TypeOK, A!TypeOK, Message, A!Message
  <1> QED  BY <1>1, <1>3 DEF TrackInv

(* Every step is one of Ipc, or one that Ipc does not see. *)
LEMMA MCStep ==
    ASSUME IntrInv, IntrInv', TrackInv, MCNext
    PROVE  TrackInv' /\ (A!Next \/ UNCHANGED A!vars)
  <1>1. /\ INext /\ masked' = masked
        /\ masked /\ call # NoCall => call' # call \/ halted'
        /\ pre' = IF masked /\ (call' = NoCall \/ halted') THEN Table' ELSE pre
    BY DEF MCNext
  <1>2. CASE ~masked
    <2>1. pre' = pre
      BY <1>1, <1>2
    <2> QED  BY <1>1, <1>2, <2>1, PreKept DEF TrackInv
  <1>3. CASE masked
    <2>1. PreStep
      BY <1>1, <1>3 DEF PreStep
    <2>2. ASSUME NEW p \in Proc, NEW d \in Proc, NEW t \in Type, EnterSend(p, d, t)
          PROVE  TrackInv' /\ UNCHANGED A!vars
      <3>1. call' # NoCall /\ ~halted'
        BY <2>2 DEF EnterSend, At, NoCall
      <3>2. UNCHANGED A!vars
        BY <2>1, <3>1, PreKept DEF PreStep
      <3> QED  BY <1>3, <2>1, <2>2, <3>2, EnterSendTrack
    <2>3. ASSUME NEW p \in Proc, NEW src \in Proc \cup {ANY, INTERRUPT}, NEW both \in BOOLEAN,
                 EnterReceive(p, src, both)
          PROVE  TrackInv' /\ UNCHANGED A!vars
      <3>1. call' # NoCall /\ ~halted'
        BY <2>3 DEF EnterReceive, At, NoCall
      <3>2. UNCHANGED A!vars
        BY <2>1, <3>1, PreKept DEF PreStep
      <3> QED  BY <1>3, <2>1, <2>3, <3>2, EnterReceiveTrack
    <2>4. ASSUME SendStep PROVE (Stays \/ Ends) /\ ~halted /\ call # NoCall
      <3>1. ~halted /\ call.pc \in SendPcs
        BY <2>4 DEF SendStep, s_deadlock, s_test, s_assert, s_copy, s_clear_msg, s_clear_flags,
                    s_clear_from, s_end, s_enqueue, At, SendPcs
      <3>2. Stays \/ Ends
        BY <1>3, <2>1, <2>4, SDeadlockTrack, STestTrack, SAssertTrack, SCopyTrack,
           SClearMsgTrack, SClearFlagsTrack, SClearFromTrack, SEndTrack, SEnqueueTrack
           DEF SendStep
      <3> QED  BY <3>1, <3>2, InSend
    <2>5. ASSUME ReceiveStep PROVE (Stays \/ Ends) /\ ~halted /\ call # NoCall
      <3>1. ~halted /\ call.pc \in ReceivePcs
        BY <2>5 DEF ReceiveStep, r_test, ri_copy, ri_clear, ri_end, r_pick, r_flag, r_msg,
                    r_from, block, r_end, At, ReceivePcs
      <3>2. Stays \/ Ends
        BY <1>3, <2>1, <2>5, RTestTrack, RiCopyTrack, RiClearTrack, RiEndTrack, RPickTrack,
           RFlagTrack, RMsgTrack, RFromTrack, BlockTrack, REndTrack
           DEF ReceiveStep
      <3> QED  BY <3>1, <3>2, InReceive
    <2>6. ASSUME NEW t \in IntTask, Interrupt(t) PROVE Ends
      <3>1. call' = call /\ ~halted'
        BY <2>6 DEF Interrupt, inform_int, IntWake, IntMark
      <3> QED  BY <1>1, <1>3, <2>1, <2>6, <3>1, InterruptTrack
    <2>7. CASE SendStep \/ ReceiveStep \/ \E t \in IntTask : Interrupt(t)
      <3>1. Ends \/ (Stays /\ ~halted /\ call # NoCall)
        BY <2>4, <2>5, <2>6, <2>7
      <3> QED  BY <1>3, <2>1, <3>1, StaysTrack, EndsTrack
    <2> QED  BY <1>1, <2>2, <2>3, <2>7 DEF INext
  <1> QED  BY <1>2, <1>3

(* A behaviour in which no interrupt falls inside a system call is one of   *)
(* Ipc: msg_send() and msg_receive(), statement by statement, are together  *)
(* the one step that Ipc takes for a call, for any processes and tasks.     *)
THEOREM UndisturbedCallsImplementIpc == MCSpec => ImplementsIpc
  <1>1. MCInit => IInit /\ TrackInv /\ A!Init
    <2> SUFFICES ASSUME MCInit PROVE IInit /\ TrackInv /\ A!Init
      OBVIOUS
    <2>1. IInit /\ masked \in BOOLEAN /\ pre = Table /\ Init /\ call = NoCall /\ ~halted
      BY DEF MCInit, IInit, Init
    <2>2. A!Init
      BY <2>1, TableFields DEF Init, A!Init
    <2>3. TypeOK
      BY <2>1, InitIntrInv DEF IntrInv, IntrTypeOK
    <2>4. A!TypeOK
      BY <2>1, <2>3, TableFields DEF TypeOK, A!TypeOK, Message, A!Message
    <2> QED  BY <2>1, <2>2, <2>4 DEF TrackInv
  <1>2. [MCNext]_mcvars => [INext]_ivars
    BY DEF MCNext, mcvars
  <1>3. MCSpec => []IntrInv
    BY <1>1, <1>2, IntrInvariant, PTL DEF MCSpec, ISpec
  <1>4. ASSUME IntrInv, IntrInv', TrackInv, [MCNext]_mcvars
        PROVE  TrackInv' /\ [A!Next]_(A!vars)
    <2>1. CASE MCNext
      BY <1>4, <2>1, MCStep
    <2>2. CASE UNCHANGED mcvars
      <3>1. pre' = pre /\ masked' = masked /\ UNCHANGED <<table, mem, halted, call>>
        BY <2>2 DEF mcvars, ivars, vars, table
      <3>2. SendTrack => SendTrack'
        BY <3>1, PreKept DEF SendTrack, table
      <3>3. ReceiveTrack => ReceiveTrack'
        BY <3>1, PreKept DEF ReceiveTrack, table
      <3>4. Table' = Table
        BY <3>1 DEF Table, table
      <3> QED  BY <1>4, <3>1, <3>2, <3>3, <3>4, PreKept DEF TrackInv, table
    <2> QED  BY <1>4, <2>1, <2>2
  <1> QED  BY <1>1, <1>3, <1>4, PTL DEF MCSpec, ImplementsIpc, A!Spec
=============================================================================
