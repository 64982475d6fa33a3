--------------------------- MODULE ForkExitProofs ---------------------------
(***************************************************************************)
(* Proofs about ForkExit: fork(), exit() and wait() for any number of      *)
(* process table entries, any amount of memory and any exit statuses.      *)
(***************************************************************************)
EXTENDS ForkExit, WellFoundedInduction, TLAPS

MMPcs == {"loop", "receiving", "FORK", "EXIT", "WAIT", "fork_mem", "fork_reply", "send",
          "sending", "exit_free", "exit_kids", "wait_free"}
Messages == [pid : Proc \cup {NO_TASK, NULL}, val : Status \cup {NULL, 0, -1}]

MMTypeOK ==
    mm \in [pc   : MMPcs,
            src  : Proc \cup {NULL}, dest : Proc \cup {NULL}, kid : Proc \cup {NULL},
            msg  : Messages \cup {NULL},
            next : {"loop", "fork_reply", "exit_free", "wait_free"},
            from : Nat]

(* MM is sending a message, and goes on at next. *)
Sending(next) == mm.pc \in {"send", "sending"} /\ mm.next = next

(* MM is reporting or releasing a child in do_exit(). *)
Reporting == Sending("exit_free") \/ mm.pc = "exit_free"

(* MM has taken p's request, and has neither answered it nor noted in       *)
(* p_flags that p is to wait; a child that is being made is owed the answer *)
(* to the request it was copied with.                                       *)
Busy(p) ==
    \/ mm.pc \in {"FORK", "EXIT", "WAIT", "fork_mem", "fork_reply"} /\ p = mm.src
    \/ mm.pc = "fork_mem" /\ p = mm.kid
    \/ mm.pc \in {"send", "sending"} /\ p = mm.dest
    \/ Sending("fork_reply") /\ p = mm.src
    \/ Reporting /\ p = mm.kid /\ p = mm.src

(* p has asked MM for a service and has no answer yet. *)
Asked(p, type) == p \in Proc /\ req[p] \in Request /\ req[p].type = type

(* RECEIVING is set from the second system call of the stub on. *)
Waits(p) == \/ upc[p] = "sent" /\ ~Has(p, "RECEIVING")
            \/ upc[p] = "recv" /\ Has(p, "RECEIVING")

Owed(p) == req[p] \in Request /\ Waits(p) /\ p_flags[p] \subseteq {"RECEIVING"}

(* A process that MM is not at work for. *)
Unused(p) == p \in Slot /\ p_flags[p] = {"FREE_SLOT"} /\ upc[p] = "run" /\ req[p] = NULL
Running(p) == p_flags[p] = {} /\ upc[p] \in {"run", "spin"} /\ req[p] = NULL
Queued(p) == p_flags[p] = {"SENDING"} /\ upc[p] = "sent" /\ req[p] \in Request
Waiting(p) == /\ Asked(p, "WAIT") /\ Waits(p)
              /\ Has(p, "WAITING") /\ p_flags[p] \subseteq {"RECEIVING", "WAITING"}
Zombie(p) == /\ p \in Slot /\ Asked(p, "EXIT") /\ Waits(p)
             /\ Has(p, "HANGING") /\ p_flags[p] \subseteq {"RECEIVING", "HANGING"}
             /\ exit_status[p] = req[p].status

Settled(p) == Unused(p) \/ Running(p) \/ Queued(p) \/ Waiting(p) \/ Zombie(p)

Shapes == \A p \in Proc : IF Busy(p) THEN Owed(p) ELSE Settled(p)

(* INIT never exits, and is nobody's child; nobody is its own parent. *)
InitStays == /\ p_parent[INIT] = NO_TASK
             /\ ~Asked(INIT, "EXIT")
             /\ \A p \in Proc : p_parent[p] # p

(* The processes queued for MM are those blocked sending to it, once each. *)
QueueSound == /\ \A i \in 1 .. Len(q_sending) : Queued(q_sending[i])
              /\ \A i, j \in 1 .. Len(q_sending) : q_sending[i] = q_sending[j] => i = j

(* What MM works on, at each point of its loop. *)
MMPhase ==
    /\ mm.pc = "loop" => mm = Idle
    /\ mm.pc = "receiving" => mm = [Idle EXCEPT !.pc = "receiving"]
    /\ mm.pc \in {"FORK", "WAIT", "EXIT"} => Asked(mm.src, mm.pc)
    /\ mm.pc = "fork_mem" \/ Sending("fork_reply") =>
          /\ Asked(mm.src, "FORK") /\ Asked(mm.kid, "FORK") /\ mm.src # mm.kid
          /\ mm.pc # "fork_mem" => mm.dest = mm.kid
    /\ mm.pc = "fork_reply" => Asked(mm.src, "FORK") /\ mm.kid \in Proc
    /\ mm.pc \in {"send", "sending"} => mm.msg \in Messages /\ mm.dest \in Proc
    /\ Sending("loop") => \/ Asked(mm.dest, "FORK")
                          \/ Asked(mm.dest, "WAIT") /\ mm.msg.pid = NO_TASK
    /\ Sending("wait_free") \/ Sending("exit_free") =>
          /\ Asked(mm.dest, "WAIT") /\ p_parent[mm.kid] = mm.dest
          /\ mm.msg = [pid |-> mm.kid, val |-> req[mm.kid].status]
    /\ Sending("wait_free") \/ mm.pc = "wait_free" => Zombie(mm.kid)
    /\ Reporting => /\ mm.src \in Slot /\ Asked(mm.kid, "EXIT")
                    /\ mm.kid = mm.src => mm.from = 0
                    /\ mm.kid # mm.src => Zombie(mm.kid) /\ ~Live(mm.src)
    /\ mm.pc = "exit_kids" => mm.src \in Slot /\ ~Live(mm.src)

(* The parent of a process in use is alive, or is exiting and has not yet   *)
(* come to this child in the loop that gives the children to INIT.          *)
ParentsSound ==
    \A p \in Slot : ~Has(p, "FREE_SLOT") =>
        /\ p_parent[p] \in Proc
        /\ \/ Live(p_parent[p])
           \/ (mm.pc = "exit_kids" \/ Reporting) /\ p_parent[p] = mm.src /\ p >= mm.from

(* Nobody waits for a child that has exited. *)
ExitsNoticed ==
    \A p, c \in Proc : ~(Has(p, "WAITING") /\ p_parent[c] = p /\ Has(c, "HANGING"))

FInv ==
    /\ TypeOK /\ MMTypeOK
    /\ Shapes /\ InitStays /\ QueueSound /\ MMPhase
    /\ ParentsSound /\ ExitsNoticed

-----------------------------------------------------------------------------
(***************************************************************************)
(* The scan of the process table                                           *)
(***************************************************************************)

(* A set of naturals that is not empty has a least element. *)
LEMMA NatMin ==
    ASSUME NEW T \in SUBSET Nat, T # {}
    PROVE  \E x \in T : \A y \in T : x <= y
  <1>1. PICK x \in T : \A y \in T : ~(<<y, x>> \in OpToRel(<, Nat))
    BY NatLessThanWellFounded, WFMin
  <1>2. \A y \in T : ~(y < x)
    BY <1>1 DEF OpToRel
  <1> QED  BY <1>2

(* The first entry that a scan of proc_table[] from below finds. *)
LEMMA FirstFound ==
    ASSUME NEW T \in SUBSET Proc, T # {}
    PROVE  Min(T) \in T /\ \A y \in T : Min(T) <= y
  <1>1. T \in SUBSET Nat
    BY SlotAssumption DEF Proc, Slot, INIT
  <1> QED  BY <1>1, NatMin DEF Min

-----------------------------------------------------------------------------
(***************************************************************************)
(* Entries, and where MM is                                                *)
(***************************************************************************)

(* An entry that a step leaves alone is what it was. *)
LEMMA EntryKept ==
    ASSUME NEW q, p_flags'[q] = p_flags[q], upc'[q] = upc[q], req'[q] = req[q],
           exit_status'[q] = exit_status[q]
    PROVE  /\ Owed(q)' <=> Owed(q)
           /\ Settled(q)' <=> Settled(q)
           /\ Queued(q)' <=> Queued(q)
           /\ Zombie(q)' <=> Zombie(q)
           /\ Live(q)' <=> Live(q)
           /\ \A t : Asked(q, t)' <=> Asked(q, t)
           /\ \A f : Has(q, f)' <=> Has(q, f)
  <1>1. /\ \A t : Asked(q, t)' <=> Asked(q, t)
        /\ \A f : Has(q, f)' <=> Has(q, f)
    BY DEF Asked, Has
  <1>2. (Waits(q)' <=> Waits(q)) /\ (Live(q)' <=> Live(q)) /\ (Queued(q)' <=> Queued(q))
    BY <1>1 DEF Waits, Live, Queued
  <1>3. (Owed(q)' <=> Owed(q)) /\ (Zombie(q)' <=> Zombie(q)) /\ (Waiting(q)' <=> Waiting(q))
    BY <1>1, <1>2 DEF Owed, Zombie, Waiting
  <1>4. (Unused(q)' <=> Unused(q)) /\ (Running(q)' <=> Running(q))
    BY DEF Unused, Running
  <1> QED  BY <1>1, <1>2, <1>3, <1>4 DEF Settled

(* A process has one answer to wait for at most. *)
LEMMA AskedOnce ==
    ASSUME NEW q, NEW t, Asked(q, t)
    PROVE  /\ q \in Proc /\ req[q] \in Request /\ req[q] # NULL /\ req[q].type = t
           /\ t \in {"FORK", "WAIT", "EXIT"}
           /\ ~Unused(q) /\ ~Running(q)
  BY NullAssumption DEF Asked, Unused, Running, Request

(* What each shape says of the flags. *)
LEMMA ShapeFlags ==
    ASSUME NEW q
    PROVE  /\ Owed(q) => ~Has(q, "WAITING") /\ ~Has(q, "HANGING") /\ ~Has(q, "SENDING")
                         /\ ~Has(q, "FREE_SLOT") /\ Live(q) /\ ~Settled(q) /\ ~Zombie(q)
           /\ Zombie(q) => Has(q, "HANGING") /\ ~Has(q, "FREE_SLOT") /\ ~Live(q) /\ ~Queued(q)
                           /\ ~Has(q, "WAITING")
           /\ Queued(q) => Live(q) /\ ~Has(q, "HANGING") /\ ~Has(q, "WAITING")
                           /\ ~Has(q, "FREE_SLOT") /\ Settled(q) /\ ~Owed(q)
           /\ Waiting(q) => Live(q) /\ Has(q, "WAITING") /\ ~Has(q, "HANGING")
                            /\ ~Has(q, "FREE_SLOT") /\ Asked(q, "WAIT") /\ ~Queued(q)
           /\ Running(q) => Live(q) /\ ~Has(q, "HANGING") /\ ~Has(q, "WAITING")
                            /\ ~Has(q, "FREE_SLOT") /\ ~Queued(q)
           /\ Unused(q) => ~Live(q) /\ ~Has(q, "HANGING") /\ ~Has(q, "WAITING")
                           /\ Has(q, "FREE_SLOT") /\ ~Queued(q)
  <1>1. Owed(q) => ~Has(q, "WAITING") /\ ~Has(q, "HANGING") /\ ~Has(q, "SENDING")
                         /\ ~Has(q, "FREE_SLOT") /\ Live(q)
    BY DEF Owed, Has, Live
  <1>2. Owed(q) => ~Unused(q) /\ ~Running(q)
    BY NullAssumption DEF Owed, Unused, Running
  <1>3. Owed(q) => ~Queued(q) /\ ~Waiting(q) /\ ~Zombie(q)
    BY <1>1 DEF Queued, Waiting, Zombie, Has
  <1>4. Zombie(q) => Has(q, "HANGING") /\ ~Has(q, "FREE_SLOT") /\ ~Live(q) /\ ~Queued(q)
                     /\ ~Has(q, "WAITING")
    BY DEF Zombie, Has, Live, Queued
  <1>5. Queued(q) => Live(q) /\ ~Has(q, "HANGING") /\ ~Has(q, "WAITING")
                     /\ ~Has(q, "FREE_SLOT") /\ Settled(q)
    BY DEF Queued, Has, Live, Settled
  <1>6. Waiting(q) => Live(q) /\ Has(q, "WAITING") /\ ~Has(q, "HANGING")
                      /\ ~Has(q, "FREE_SLOT") /\ Asked(q, "WAIT") /\ ~Queued(q)
    BY DEF Waiting, Has, Live, Queued
  <1>7. Running(q) => Live(q) /\ ~Has(q, "HANGING") /\ ~Has(q, "WAITING")
                      /\ ~Has(q, "FREE_SLOT") /\ ~Queued(q)
    BY DEF Running, Has, Live, Queued
  <1>8. Unused(q) => ~Live(q) /\ ~Has(q, "HANGING") /\ ~Has(q, "WAITING")
                     /\ Has(q, "FREE_SLOT") /\ ~Queued(q)
    BY DEF Unused, Has, Live, Queued
  <1> QED  BY <1>1, <1>2, <1>3, <1>4, <1>5, <1>6, <1>7, <1>8 DEF Settled

(* Who has a flag is in the state it stands for. *)
LEMMA FlagShapes ==
    ASSUME Shapes, NEW q \in Proc
    PROVE  /\ Has(q, "HANGING") => Zombie(q) /\ ~Busy(q)
           /\ Has(q, "WAITING") => Waiting(q) /\ ~Busy(q)
           /\ Has(q, "FREE_SLOT") => Unused(q) /\ ~Busy(q)
           /\ Queued(q) => ~Busy(q)
           /\ Zombie(q) => ~Busy(q)
           /\ Running(q) => ~Busy(q)
           /\ p_flags[q] = {} => Running(q) \/ (Busy(q) /\ Owed(q) /\ upc[q] = "sent")
  <1>1. IF Busy(q) THEN Owed(q) ELSE Settled(q)
    BY DEF Shapes
  <1>2. /\ Has(q, "HANGING") => Zombie(q) /\ ~Busy(q)
        /\ Has(q, "WAITING") => Waiting(q) /\ ~Busy(q)
        /\ Has(q, "FREE_SLOT") => Unused(q) /\ ~Busy(q)
    BY <1>1, ShapeFlags DEF Settled
  <1>3. (Queued(q) => ~Busy(q)) /\ (Zombie(q) => ~Busy(q)) /\ (Running(q) => ~Busy(q))
    BY <1>1, ShapeFlags DEF Settled
  <1>4. p_flags[q] = {} => Running(q) \/ (Busy(q) /\ Owed(q) /\ upc[q] = "sent")
    <2> SUFFICES ASSUME p_flags[q] = {} PROVE Running(q) \/ (Busy(q) /\ Owed(q) /\ upc[q] = "sent")
      OBVIOUS
    <2>1. CASE Busy(q)
      BY <1>1, <2>1 DEF Owed, Waits, Has
    <2>2. CASE ~Busy(q)
      <3>1. ~Has(q, "FREE_SLOT") /\ ~Has(q, "SENDING") /\ ~Has(q, "WAITING") /\ ~Has(q, "HANGING")
        BY DEF Has
      <3> QED  BY <1>1, <2>2, <3>1 DEF Settled, Unused, Queued, Waiting, Zombie, Has
    <2> QED  BY <2>1, <2>2
  <1> QED  BY <1>2, <1>3, <1>4

-----------------------------------------------------------------------------
(***************************************************************************)
(* The processes                                                           *)
(***************************************************************************)

(* msg_send() to MM: MM takes the request at once, or the caller is queued. *)
LEMMA CallSendInv ==
    ASSUME FInv, NEW p \in Proc, NEW r \in Request, CallSend(p, r)
    PROVE  FInv'
  <1>1. /\ p_flags[p] = {} /\ upc[p] = "run" /\ (r.type = "EXIT" => p # INIT)
        /\ upc' = [upc EXCEPT ![p] = "sent"] /\ req' = [req EXCEPT ![p] = r]
        /\ UNCHANGED <<p_parent, exit_status, ldt, memory_size, halted>>
    BY DEF CallSend, CanRun
  <1>2. Running(p) /\ ~Busy(p)
    BY <1>1, FlagShapes DEF FInv
  <1>3. /\ upc' \in [Proc -> {"run", "sent", "recv", "spin"}] /\ req' \in [Proc -> Request \cup {NULL}]
        /\ upc'[p] = "sent" /\ req'[p] = r
        /\ \A q \in Proc \ {p} : upc'[q] = upc[q] /\ req'[q] = req[q]
    BY <1>1 DEF FInv, TypeOK
  <1>4. r.type \in {"FORK", "WAIT", "EXIT"} /\ Asked(p, r.type)'
    BY <1>3 DEF Asked, Request
  <1>5. InitStays'
    <2>1. ~Asked(INIT, "EXIT")'
      BY <1>1, <1>3 DEF FInv, InitStays, Asked, INIT, Proc
    <2> QED  BY <1>1, <2>1 DEF FInv, InitStays
  <1>6. \A q, t : Asked(q, t) => q # p
    BY <1>2, AskedOnce
  <1>7. CASE mm.pc = "receiving"
    <2>1. mm' = [mm EXCEPT !.pc = r.type, !.src = p] /\ UNCHANGED <<p_flags, q_sending>>
      BY <1>7 DEF CallSend
    <2>2. MMTypeOK' /\ mm'.pc = r.type /\ mm'.src = p
      BY <1>4, <2>1 DEF FInv, MMTypeOK, MMPcs
    <2>3. \A q \in Proc \ {p} : /\ Owed(q)' <=> Owed(q)
                                /\ Settled(q)' <=> Settled(q)
                                /\ Queued(q)' <=> Queued(q)
      BY <1>1, <1>3, <2>1, EntryKept
    <2>4. \A q : (Busy(q)' <=> q = p) /\ ~Busy(q)
      BY <1>4, <1>7, <2>2 DEF Busy, Sending, Reporting
    <2>5. Owed(p)'
      BY <1>1, <1>3, <2>1 DEF Owed, Waits, Has
    <2>6. Shapes'
      BY <2>3, <2>4, <2>5 DEF FInv, Shapes
    <2>7. QueueSound'
      <3>1. \A i \in 1 .. Len(q_sending) : q_sending[i] \in Proc \ {p}
        BY <1>2, ShapeFlags DEF FInv, TypeOK, QueueSound
      <3> QED  BY <2>1, <2>3, <3>1 DEF FInv, QueueSound
    <2>8. MMPhase'
      BY <1>4, <2>2 DEF MMPhase, Sending, Reporting
    <2>9. ParentsSound' /\ ExitsNoticed'
      BY <1>1, <1>7, <2>1 DEF FInv, ParentsSound, ExitsNoticed, Live, Has, Reporting, Sending
    <2>10. TypeOK'
      BY <1>1, <1>3, <2>1 DEF FInv, TypeOK
    <2> QED  BY <1>5, <2>2, <2>6, <2>7, <2>8, <2>9, <2>10 DEF FInv
  <1>8. CASE mm.pc # "receiving"
    <2>1. /\ p_flags' = [p_flags EXCEPT ![p] = @ \cup {"SENDING"}]
          /\ q_sending' = Append(q_sending, p) /\ mm' = mm
      BY <1>8 DEF CallSend
    <2>2. /\ p_flags' \in [Proc -> SUBSET {"SENDING", "RECEIVING", "WAITING", "HANGING", "FREE_SLOT"}]
          /\ p_flags'[p] = {"SENDING"}
          /\ \A q \in Proc \ {p} : p_flags'[q] = p_flags[q]
      BY <1>1, <2>1 DEF FInv, TypeOK
    <2>3. \A q \in Proc \ {p} : /\ Owed(q)' <=> Owed(q)
                                /\ Settled(q)' <=> Settled(q)
                                /\ Queued(q)' <=> Queued(q)
                                /\ Zombie(q)' <=> Zombie(q)
                                /\ Live(q)' <=> Live(q)
                                /\ \A t : Asked(q, t)' <=> Asked(q, t)
                                /\ \A f : Has(q, f)' <=> Has(q, f)
      BY <1>1, <1>3, <2>2, EntryKept
    <2>4. Queued(p)' /\ Settled(p)' /\ Live(p)' /\ ~Has(p, "WAITING")' /\ ~Has(p, "HANGING")'
          /\ ~Has(p, "FREE_SLOT")'
      BY <1>3, <2>2 DEF Queued, Settled, Live, Has
    <2>5. Live(p) /\ ~Has(p, "FREE_SLOT") /\ ~Queued(p) /\ ~Zombie(p)
      BY <1>2, ShapeFlags
    <2>6. \A q : Busy(q)' <=> Busy(q)
      BY <2>1 DEF Busy, Sending, Reporting
    <2>7. Shapes'
      BY <1>2, <2>3, <2>4, <2>6 DEF FInv, Shapes
    <2>8. q_sending \in Seq(Proc) /\ q_sending' \in Seq(Proc)
      BY <2>1 DEF FInv, TypeOK
    <2>9. QueueSound'
      <3>1. \A i \in 1 .. Len(q_sending) : q_sending[i] \in Proc \ {p}
        BY <2>5, <2>8 DEF FInv, QueueSound
      <3>2. /\ Len(q_sending') = Len(q_sending) + 1
            /\ q_sending'[Len(q_sending) + 1] = p
            /\ \A i \in 1 .. Len(q_sending) : q_sending'[i] = q_sending[i]
        BY <2>1, <2>8
      <3>3. \A i \in 1 .. Len(q_sending') : Queued(q_sending[i])'
        <4> SUFFICES ASSUME NEW i \in 1 .. Len(q_sending') PROVE Queued(q_sending[i])'
          OBVIOUS
        <4>1. CASE i = Len(q_sending) + 1
          BY <2>4, <3>2, <4>1
        <4>2. CASE i # Len(q_sending) + 1
          <5>1. i \in 1 .. Len(q_sending)
            BY <2>8, <3>2, <4>2
          <5> QED  BY <2>3, <3>1, <3>2, <5>1 DEF FInv, QueueSound
        <4> QED  BY <4>1, <4>2
      <3>4. \A i, j \in 1 .. Len(q_sending') : q_sending'[i] = q_sending'[j] => i = j
        BY <2>8, <3>1, <3>2 DEF FInv, QueueSound
      <3> QED  BY <3>3, <3>4 DEF QueueSound
    <2>10. MMPhase'
      <3>1. \A q, t : Asked(q, t) => Asked(q, t)' /\ req'[q] = req[q]
        BY <1>3, <1>6, <2>3 DEF Asked
      <3>2. \A q \in Proc : Zombie(q) => Zombie(q)' /\ req'[q] = req[q]
        BY <1>3, <2>3, <2>5
      <3>3. \A q \in Proc : Live(q)' <=> Live(q)
        BY <2>3, <2>4, <2>5
      <3>4. Slot \subseteq Proc /\ \A q : Zombie(q) => q \in Proc
        BY DEF Proc, Zombie
      <3> QED  BY <1>1, <2>1, <3>1, <3>2, <3>3, <3>4 DEF FInv, MMPhase, Sending, Reporting
    <2>11. ParentsSound'
      <3>1. \A q \in Slot : q \in Proc
        BY DEF Proc
      <3> QED  BY <1>1, <2>1, <2>3, <2>4, <2>5, <3>1 DEF FInv, ParentsSound, Reporting, Sending
    <2>12. ExitsNoticed'
      BY <1>1, <2>3, <2>4 DEF FInv, ExitsNoticed
    <2>13. TypeOK' /\ MMTypeOK'
      BY <1>1, <1>3, <2>1, <2>2, <2>8 DEF FInv, TypeOK, MMTypeOK
    <2> QED  BY <1>5, <2>7, <2>9, <2>10, <2>11, <2>12, <2>13 DEF FInv
  <1> QED  BY <1>7, <1>8

(* A message of MM reaches a process that waits for it: the process goes on, *)
(* and MM goes on after its SEND.                                            *)
LEMMA AnswerInv ==
    ASSUME FInv, mm.pc \in {"send", "sending"}, NEW d \in Proc, d = mm.dest,
           p_flags' \in [Proc -> SUBSET {"SENDING", "RECEIVING", "WAITING", "HANGING", "FREE_SLOT"}],
           p_flags'[d] = {}, \A q \in Proc \ {d} : p_flags'[q] = p_flags[q],
           upc' = [upc EXCEPT ![d] = After(d, mm.msg)], req' = [req EXCEPT ![d] = NULL],
           Goto(mm.next), UNCHANGED <<p_parent, exit_status, ldt, q_sending, memory_size, halted>>
    PROVE  FInv'
  <1>1. Busy(d) /\ Owed(d)
    BY DEF FInv, Shapes, Busy
  <1>2. Live(d) /\ ~Has(d, "FREE_SLOT") /\ ~Zombie(d) /\ ~Queued(d)
    BY <1>1, ShapeFlags
  <1>3. /\ upc' \in [Proc -> {"run", "sent", "recv", "spin"}] /\ req' \in [Proc -> Request \cup {NULL}]
        /\ upc'[d] \in {"run", "spin"} /\ req'[d] = NULL
        /\ \A q \in Proc \ {d} : upc'[q] = upc[q] /\ req'[q] = req[q]
    BY DEF FInv, TypeOK, After
  <1>4. TypeOK'
    BY <1>3 DEF FInv, TypeOK
  <1>5. \A q \in Proc \ {d} : /\ Owed(q)' <=> Owed(q)
                              /\ Settled(q)' <=> Settled(q)
                              /\ Queued(q)' <=> Queued(q)
                              /\ Zombie(q)' <=> Zombie(q)
                              /\ Live(q)' <=> Live(q)
                              /\ \A t : Asked(q, t)' <=> Asked(q, t)
                              /\ \A f : Has(q, f)' <=> Has(q, f)
    BY <1>3, EntryKept
  <1>6. Running(d)'
    BY <1>3 DEF Running
  <1>7. /\ Settled(d)' /\ Live(d)' /\ ~Has(d, "WAITING")' /\ ~Has(d, "HANGING")'
        /\ ~Has(d, "FREE_SLOT")'
    BY <1>6 DEF Running, Settled, Live, Has
  <1>8. ~Asked(INIT, "EXIT")'
    BY <1>3, NullAssumption DEF FInv, InitStays, Asked
  <1>9. InitStays'
    BY <1>8 DEF FInv, InitStays
  <1>10. QueueSound'
    <2>1. \A i \in 1 .. Len(q_sending) : q_sending[i] \in Proc \ {d}
      BY <1>2 DEF FInv, TypeOK, QueueSound
    <2> QED  BY <1>5, <2>1 DEF FInv, QueueSound
  <1>11. ExitsNoticed'
    BY <1>5, <1>7 DEF FInv, ExitsNoticed
  <1>12. Slot \subseteq Proc /\ mm.next \in {"loop", "fork_reply", "exit_free", "wait_free"}
    BY DEF FInv, MMTypeOK, Proc
  <1>13. \A q \in Proc : Live(q)' <=> Live(q)
    BY <1>2, <1>5, <1>7
  <1> DEFINE Rest == /\ MMTypeOK' /\ MMPhase' /\ ParentsSound'
                     /\ ~Busy(d)' /\ \A q \in Proc \ {d} : Busy(q)' <=> Busy(q)
  <1>14. ASSUME mm.next = "loop" PROVE Rest
    <2>1. mm' = Idle /\ MMTypeOK' /\ mm'.pc = "loop"
      BY <1>14 DEF Goto, Idle, MMTypeOK, MMPcs
    <2>2. MMPhase'
      BY <2>1 DEF MMPhase, Sending, Reporting
    <2>3. \A q : ~Busy(q)'
      BY <2>1 DEF Busy, Sending, Reporting
    <2>4. \A q : Busy(q) => q = d
      BY <1>14 DEF Busy, Sending, Reporting
    <2>5. ParentsSound'
      BY <1>2, <1>5, <1>7, <1>12, <1>13, <1>14, <2>1 DEF FInv, ParentsSound, Reporting, Sending
    <2> QED  BY <2>1, <2>2, <2>3, <2>4, <2>5
  <1>15. ASSUME mm.next = "fork_reply" PROVE Rest
    <2>1. /\ MMTypeOK' /\ mm'.pc = "fork_reply" /\ mm'.src = mm.src /\ mm'.kid = mm.kid
      BY <1>15 DEF Goto, FInv, MMTypeOK, MMPcs
    <2>2. mm.src \in Proc /\ mm.src # d /\ Asked(mm.src, "FORK") /\ mm.kid \in Proc
      BY <1>15 DEF FInv, MMPhase, Sending, Asked
    <2>3. PICK s \in Proc : s = mm.src
      BY <2>2
    <2>4. MMPhase'
      BY <1>5, <2>1, <2>2, <2>3 DEF MMPhase, Sending, Reporting
    <2>5. \A q : (Busy(q) <=> q \in {d, s}) /\ (Busy(q)' <=> q = s)
      BY <1>15, <2>1, <2>3 DEF Busy, Sending, Reporting
    <2>6. ParentsSound'
      BY <1>2, <1>5, <1>7, <1>12, <1>13, <1>15, <2>1 DEF FInv, ParentsSound, Reporting, Sending
    <2> QED  BY <2>1, <2>2, <2>3, <2>4, <2>5, <2>6
  <1>16. ASSUME mm.next = "wait_free" PROVE Rest
    <2>1. MMTypeOK' /\ mm'.pc = "wait_free" /\ mm'.kid = mm.kid
      BY <1>16 DEF Goto, FInv, MMTypeOK, MMPcs
    <2>2. mm.kid \in Proc /\ Zombie(mm.kid) /\ mm.kid # d
      BY <1>2, <1>16 DEF FInv, MMPhase, Sending, Zombie, Asked
    <2>3. MMPhase'
      BY <1>5, <2>1, <2>2 DEF MMPhase, Sending, Reporting
    <2>4. \A q : (Busy(q) <=> q = d) /\ ~Busy(q)'
      BY <1>16, <2>1 DEF Busy, Sending, Reporting
    <2>5. ParentsSound'
      BY <1>2, <1>5, <1>7, <1>12, <1>13, <1>16, <2>1 DEF FInv, ParentsSound, Reporting, Sending
    <2> QED  BY <2>1, <2>3, <2>4, <2>5
  <1>17. ASSUME mm.next = "exit_free" PROVE Rest
    <2>1. /\ MMTypeOK' /\ mm'.pc = "exit_free" /\ mm'.kid = mm.kid /\ mm'.src = mm.src
          /\ mm'.from = mm.from
      BY <1>17 DEF Goto, FInv, MMTypeOK, MMPcs
    <2>2. Reporting /\ Reporting'
      BY <1>17, <2>1 DEF Reporting, Sending
    <2>3. /\ mm.src \in Slot /\ Asked(mm.kid, "EXIT") /\ mm.kid # d
          /\ (mm.kid = mm.src => mm.from = 0)
          /\ (mm.kid # mm.src => Zombie(mm.kid) /\ ~Live(mm.src))
      BY <1>17, <2>2, AskedOnce DEF FInv, MMPhase, Sending
    <2>4. mm.kid \in Proc
      BY <2>3 DEF Asked
    <2>5. MMPhase'
      BY <1>2, <1>5, <1>12, <1>13, <2>1, <2>2, <2>3, <2>4 DEF MMPhase, Sending, Reporting
    <2>6. \A q : /\ Busy(q) <=> (q = d \/ (q = mm.kid /\ mm.kid = mm.src))
                 /\ Busy(q)' <=> (q = mm.kid /\ mm.kid = mm.src)
      BY <1>17, <2>1 DEF Busy, Sending, Reporting
    <2>7. ParentsSound'
      BY <1>2, <1>5, <1>7, <1>12, <1>13, <2>1, <2>2 DEF FInv, ParentsSound
    <2> QED  BY <2>1, <2>3, <2>5, <2>6, <2>7
  <1>18. Rest
    BY <1>12, <1>14, <1>15, <1>16, <1>17
  <1>19. Shapes'
    BY <1>5, <1>7, <1>18 DEF FInv, Shapes
  <1> QED  BY <1>4, <1>9, <1>10, <1>11, <1>18, <1>19 DEF FInv

(* msg_receive() from MM: the answer is there, or the caller blocks. *)
LEMMA CallReceiveInv ==
    ASSUME FInv, NEW p \in Proc, CallReceive(p)
    PROVE  FInv'
  <1>1. /\ p_flags[p] = {} /\ upc[p] = "sent"
        /\ UNCHANGED <<p_parent, exit_status, ldt, q_sending, memory_size, halted>>
    BY DEF CallReceive, CanRun
  <1>2. Busy(p) /\ Owed(p)
    BY <1>1, FlagShapes DEF FInv, Running
  <1>3. CASE mm.pc = "sending" /\ mm.dest = p
    <2>1. /\ upc' = [upc EXCEPT ![p] = After(p, mm.msg)] /\ req' = [req EXCEPT ![p] = NULL]
          /\ Goto(mm.next) /\ p_flags' = p_flags
      BY <1>3 DEF CallReceive
    <2> QED  BY <1>1, <1>3, <2>1, AnswerInv DEF FInv, TypeOK
  <1>4. CASE ~(mm.pc = "sending" /\ mm.dest = p)
    <2>1. /\ p_flags' = [p_flags EXCEPT ![p] = @ \cup {"RECEIVING"}]
          /\ upc' = [upc EXCEPT ![p] = "recv"] /\ UNCHANGED <<req, mm>>
      BY <1>4 DEF CallReceive
    <2>2. /\ p_flags' \in [Proc -> SUBSET {"SENDING", "RECEIVING", "WAITING", "HANGING", "FREE_SLOT"}]
          /\ upc' \in [Proc -> {"run", "sent", "recv", "spin"}]
          /\ p_flags'[p] = {"RECEIVING"} /\ upc'[p] = "recv"
          /\ \A q \in Proc \ {p} : p_flags'[q] = p_flags[q] /\ upc'[q] = upc[q]
      BY <1>1, <2>1 DEF FInv, TypeOK
    <2>3. \A q \in Proc \ {p} : /\ Owed(q)' <=> Owed(q)
                                /\ Settled(q)' <=> Settled(q)
                                /\ Queued(q)' <=> Queued(q)
                                /\ Zombie(q)' <=> Zombie(q)
                                /\ Live(q)' <=> Live(q)
                                /\ \A f : Has(q, f)' <=> Has(q, f)
      BY <1>1, <2>1, <2>2, EntryKept
    <2>4. \A q, t : Asked(q, t)' <=> Asked(q, t)
      BY <2>1 DEF Asked
    <2>5. /\ Owed(p)' /\ Live(p)' /\ ~Has(p, "FREE_SLOT")' /\ ~Has(p, "WAITING")'
          /\ ~Has(p, "HANGING")'
      BY <1>2, <2>1, <2>2 DEF Owed, Waits, Live, Has
    <2>6. Live(p) /\ ~Has(p, "FREE_SLOT") /\ ~Zombie(p) /\ ~Queued(p)
      BY <1>2, ShapeFlags
    <2>7. \A q : (Busy(q)' <=> Busy(q)) /\ (Reporting' <=> Reporting)
      BY <2>1 DEF Busy, Sending, Reporting
    <2>8. Shapes'
      BY <1>2, <2>3, <2>5, <2>7 DEF FInv, Shapes
    <2>9. QueueSound'
      <3>1. \A i \in 1 .. Len(q_sending) : q_sending[i] \in Proc \ {p}
        BY <2>6 DEF FInv, TypeOK, QueueSound
      <3> QED  BY <1>1, <2>3, <3>1 DEF FInv, QueueSound
    <2>10. Slot \subseteq Proc /\ \A q : Zombie(q) => q \in Proc
      BY DEF Proc, Zombie
    <2>11. MMPhase'
      BY <1>1, <2>1, <2>3, <2>4, <2>5, <2>6, <2>10 DEF FInv, MMPhase, Sending, Reporting
    <2>12. ParentsSound'
      BY <1>1, <2>1, <2>3, <2>5, <2>6, <2>7, <2>10 DEF FInv, ParentsSound
    <2>13. ExitsNoticed' /\ InitStays'
      BY <1>1, <2>3, <2>4, <2>5 DEF FInv, ExitsNoticed, InitStays
    <2>14. TypeOK' /\ MMTypeOK'
      BY <1>1, <2>1, <2>2 DEF FInv, TypeOK, MMTypeOK
    <2> QED  BY <2>8, <2>9, <2>11, <2>12, <2>13, <2>14 DEF FInv
  <1> QED  BY <1>3, <1>4

-----------------------------------------------------------------------------
(***************************************************************************)
(* MM's loop and do_fork()                                                 *)
(***************************************************************************)

(* A step of MM that leaves the entries alone. *)
LEMMA MMMoves ==
    ASSUME FInv, UNCHANGED <<p_flags, p_parent, exit_status, upc, req, q_sending, memory_size, halted>>,
           ldt' \in [Proc -> Proc], MMTypeOK', MMPhase', \A q \in Proc : Busy(q)' <=> Busy(q),
           mm.pc = "exit_kids" \/ Reporting =>
               (mm'.pc = "exit_kids" \/ Reporting') /\ mm'.src = mm.src /\ mm'.from = mm.from
    PROVE  FInv'
  <1>1. \A q : /\ Owed(q)' <=> Owed(q)
               /\ Settled(q)' <=> Settled(q)
               /\ Queued(q)' <=> Queued(q)
               /\ Live(q)' <=> Live(q)
               /\ \A t : Asked(q, t)' <=> Asked(q, t)
               /\ \A f : Has(q, f)' <=> Has(q, f)
    BY EntryKept
  <1>2. TypeOK' /\ InitStays' /\ QueueSound' /\ ExitsNoticed'
    BY <1>1 DEF FInv, TypeOK, InitStays, QueueSound, ExitsNoticed
  <1>3. Shapes'
    BY <1>1 DEF FInv, Shapes
  <1>4. ParentsSound'
    BY <1>1 DEF FInv, ParentsSound
  <1> QED  BY <1>2, <1>3, <1>4 DEF FInv

(* send_recv(RECEIVE, ANY): MM takes the first in its queue, or waits. *)
LEMMA MMReceiveInv == ASSUME FInv, MMReceive PROVE FInv'
  <1>1. /\ mm = Idle /\ mm.pc = "loop" /\ UNCHANGED <<p_parent, exit_status, ldt, upc, req, memory_size, halted>>
    BY DEF MMReceive, At, FInv, MMPhase
  <1>2. ~Reporting /\ \A q : ~Busy(q)
    BY <1>1 DEF Busy, Sending, Reporting
  <1>3. CASE q_sending = <<>>
    <2>1. mm' = [mm EXCEPT !.pc = "receiving"] /\ UNCHANGED <<p_flags, q_sending>>
      BY <1>3 DEF MMReceive
    <2>2. MMTypeOK' /\ mm'.pc = "receiving" /\ mm' = [Idle EXCEPT !.pc = "receiving"]
      BY <1>1, <2>1 DEF FInv, MMTypeOK, MMPcs
    <2>3. MMPhase' /\ \A q : ~Busy(q)'
      BY <2>2 DEF MMPhase, Busy, Sending, Reporting
    <2>4. ldt' \in [Proc -> Proc]
      BY <1>1 DEF FInv, TypeOK
    <2> QED  BY <1>1, <1>2, <2>1, <2>2, <2>3, <2>4, MMMoves
  <1>4. CASE q_sending # <<>>
    <2> DEFINE p == Head(q_sending)
    <2>1. /\ mm' = [mm EXCEPT !.pc = req[p].type, !.src = p]
          /\ p_flags' = [p_flags EXCEPT ![p] = @ \ {"SENDING"}]
          /\ q_sending' = Tail(q_sending)
      BY <1>4 DEF MMReceive
    <2>2. /\ q_sending \in Seq(Proc) /\ Len(q_sending) > 0 /\ p = q_sending[1] /\ p \in Proc
          /\ q_sending' \in Seq(Proc) /\ Len(q_sending') = Len(q_sending) - 1
          /\ \A i \in 1 .. Len(q_sending') : q_sending'[i] = q_sending[i + 1]
      BY <1>4, <2>1 DEF FInv, TypeOK
    <2>3. Queued(p)
      BY <2>2 DEF FInv, QueueSound
    <2>4. PICK c \in Proc : c = p
      BY <2>2
    <2> HIDE DEF p
    <2>5. req[c] \in Request /\ req[c].type \in {"FORK", "WAIT", "EXIT"} /\ Asked(c, req[c].type)
      BY <2>3, <2>4 DEF Queued, Request, Asked
    <2>6. /\ p_flags' \in [Proc -> SUBSET {"SENDING", "RECEIVING", "WAITING", "HANGING", "FREE_SLOT"}]
          /\ p_flags'[c] = {}
          /\ \A q \in Proc \ {c} : p_flags'[q] = p_flags[q]
      BY <2>1, <2>3, <2>4 DEF FInv, TypeOK, Queued
    <2>7. MMTypeOK' /\ mm'.pc = req[c].type /\ mm'.src = c
      BY <2>1, <2>4, <2>5 DEF FInv, MMTypeOK, MMPcs
    <2>8. \A q \in Proc \ {c} : /\ Owed(q)' <=> Owed(q)
                                /\ Settled(q)' <=> Settled(q)
                                /\ Queued(q)' <=> Queued(q)
                                /\ Live(q)' <=> Live(q)
                                /\ \A f : Has(q, f)' <=> Has(q, f)
      BY <1>1, <2>6, EntryKept
    <2>9. \A q, t : Asked(q, t)' <=> Asked(q, t)
      BY <1>1 DEF Asked
    <2>10. upc'[c] = "sent" /\ req'[c] \in Request
      BY <1>1, <2>3, <2>4 DEF Queued
    <2>11. /\ Owed(c)' /\ Live(c)' /\ ~Has(c, "WAITING")' /\ ~Has(c, "HANGING")'
           /\ ~Has(c, "FREE_SLOT")'
      BY <2>6, <2>10 DEF Owed, Waits, Live, Has
    <2>12. Live(c) /\ ~Has(c, "FREE_SLOT")
      BY <2>3, <2>4, ShapeFlags
    <2>13. \A q : Busy(q)' <=> q = c
      BY <2>5, <2>7 DEF Busy, Sending, Reporting
    <2>14. Shapes'
      BY <1>2, <2>8, <2>11, <2>13 DEF FInv, Shapes
    <2>15. QueueSound'
      <3>1. \A i \in 1 .. Len(q_sending') :
              /\ i + 1 \in 1 .. Len(q_sending) /\ q_sending[i + 1] \in Proc \ {c}
              /\ q_sending'[i] = q_sending[i + 1]
        <4> SUFFICES ASSUME NEW i \in 1 .. Len(q_sending')
                     PROVE  /\ i + 1 \in 1 .. Len(q_sending) /\ q_sending[i + 1] \in Proc \ {c}
                            /\ q_sending'[i] = q_sending[i + 1]
          OBVIOUS
        <4>1. Len(q_sending) \in Nat /\ Len(q_sending') = Len(q_sending) - 1
          BY <2>2
        <4>2. /\ i + 1 \in 1 .. Len(q_sending) /\ 1 \in 1 .. Len(q_sending) /\ i + 1 # 1
              /\ q_sending'[i] = q_sending[i + 1]
          BY <2>2, <4>1
        <4>3. q_sending[i + 1] \in Proc
          BY <2>2, <4>2
        <4>4. q_sending[i + 1] # q_sending[1]
          BY <4>2 DEF FInv, QueueSound
        <4> QED  BY <2>2, <2>4, <4>2, <4>3, <4>4
      <3>2. \A i \in 1 .. Len(q_sending') : Queued(q_sending[i])'
        BY <2>8, <3>1 DEF FInv, QueueSound
      <3>3. \A i, j \in 1 .. Len(q_sending') : q_sending'[i] = q_sending'[j] => i = j
        BY <2>2, <3>1 DEF FInv, QueueSound
      <3> QED  BY <3>2, <3>3 DEF QueueSound
    <2>16. MMPhase'
      <3>1. Asked(mm.src, mm.pc)'
        BY <2>5, <2>7, <2>9
      <3> QED  BY <2>5, <2>7, <3>1 DEF MMPhase, Sending, Reporting
    <2>17. Slot \subseteq Proc
      BY DEF Proc
    <2>18. ParentsSound'
      BY <1>1, <1>2, <2>8, <2>11, <2>12, <2>17 DEF FInv, ParentsSound
    <2>19. ExitsNoticed' /\ InitStays'
      BY <1>1, <2>8, <2>9, <2>11 DEF FInv, ExitsNoticed, InitStays
    <2>20. TypeOK'
      BY <1>1, <2>2, <2>6 DEF FInv, TypeOK
    <2> QED  BY <2>7, <2>14, <2>15, <2>16, <2>18, <2>19, <2>20 DEF FInv
  <1> QED  BY <1>3, <1>4

(* send_recv(SEND, dest): the answer is taken, or MM blocks. *)
LEMMA MMSendInv == ASSUME FInv, MMSend PROVE FInv'
  <1>1. mm.pc = "send" /\ UNCHANGED <<p_parent, exit_status, ldt, q_sending, memory_size, halted>>
    BY DEF MMSend, At
  <1>2. PICK d \in Proc : d = mm.dest
    BY <1>1 DEF FInv, MMPhase
  <1>3. Owed(d)
    BY <1>1, <1>2 DEF FInv, Shapes, Busy
  <1>4. CASE Has(mm.dest, "RECEIVING")
    <2>1. /\ p_flags' = [p_flags EXCEPT ![d] = @ \ {"RECEIVING"}]
          /\ upc' = [upc EXCEPT ![d] = After(d, mm.msg)]
          /\ req' = [req EXCEPT ![d] = NULL] /\ Goto(mm.next)
      BY <1>2, <1>4 DEF MMSend
    <2>2. /\ p_flags' \in [Proc -> SUBSET {"SENDING", "RECEIVING", "WAITING", "HANGING", "FREE_SLOT"}]
          /\ p_flags'[d] = {} /\ \A q \in Proc \ {d} : p_flags'[q] = p_flags[q]
      BY <1>3, <2>1 DEF FInv, TypeOK, Owed
    <2> QED  BY <1>1, <1>2, <2>1, <2>2, AnswerInv
  <1>5. CASE ~Has(mm.dest, "RECEIVING")
    <2>1. mm' = [mm EXCEPT !.pc = "sending"] /\ UNCHANGED <<p_flags, upc, req>>
      BY <1>5 DEF MMSend
    <2>2. /\ MMTypeOK' /\ mm'.pc = "sending" /\ mm'.src = mm.src /\ mm'.dest = mm.dest
          /\ mm'.msg = mm.msg /\ mm'.next = mm.next /\ mm'.kid = mm.kid /\ mm'.from = mm.from
      BY <2>1 DEF FInv, MMTypeOK, MMPcs
    <2>3. \A q : (Busy(q)' <=> Busy(q)) /\ (Reporting' <=> Reporting)
      BY <1>1, <2>2 DEF Busy, Sending, Reporting
    <2>4. \A q : /\ Zombie(q)' <=> Zombie(q)
                 /\ Live(q)' <=> Live(q)
                 /\ \A t : Asked(q, t)' <=> Asked(q, t)
      BY <1>1, <2>1, EntryKept
    <2>5. MMPhase'
      BY <1>1, <2>1, <2>2, <2>4 DEF FInv, MMPhase, Sending, Reporting
    <2>6. ldt' \in [Proc -> Proc]
      BY <1>1 DEF FInv, TypeOK
    <2> QED  BY <1>1, <2>1, <2>2, <2>3, <2>5, <2>6, MMMoves
  <1> QED  BY <1>4, <1>5

(* phys_copy() and the child's descriptors; the child is still owed its    *)
(* birth message.                                                          *)
LEMMA ForkMemInv == ASSUME FInv, ForkMem PROVE FInv'
  <1>1. /\ mm.pc = "fork_mem"
        /\ mm' = [mm EXCEPT !.pc = "send", !.dest = mm.kid, !.msg = [pid |-> 0, val |-> 0],
                            !.next = "fork_reply"]
        /\ ldt' = [ldt EXCEPT ![mm.kid] = mm.kid]
        /\ UNCHANGED <<p_flags, p_parent, exit_status, upc, req, q_sending, memory_size, halted>>
    BY DEF ForkMem, At, SendThen
  <1>2. Asked(mm.src, "FORK") /\ Asked(mm.kid, "FORK") /\ mm.src # mm.kid /\ mm.kid \in Proc
    BY <1>1 DEF FInv, MMPhase, Asked
  <1>3. [pid |-> 0, val |-> 0] \in Messages
    BY DEF Messages, Proc, INIT
  <1>4. /\ MMTypeOK' /\ mm'.pc = "send" /\ mm'.next = "fork_reply" /\ mm'.src = mm.src
        /\ mm'.kid = mm.kid /\ mm'.dest = mm.kid /\ mm'.msg \in Messages
    BY <1>1, <1>2, <1>3 DEF FInv, MMTypeOK, MMPcs
  <1>5. \A q : Busy(q)' <=> Busy(q)
    BY <1>1, <1>4 DEF Busy, Sending, Reporting
  <1>6. \A q, t : Asked(q, t)' <=> Asked(q, t)
    BY <1>1 DEF Asked
  <1>7. MMPhase'
    BY <1>2, <1>4, <1>6 DEF MMPhase, Sending, Reporting
  <1>8. ldt' \in [Proc -> Proc]
    BY <1>1, <1>2 DEF FInv, TypeOK
  <1> QED  BY <1>1, <1>4, <1>5, <1>7, <1>8, MMMoves DEF Reporting, Sending

(* The child's pid is to be sent to the parent. *)
LEMMA ForkReplyInv == ASSUME FInv, ForkReply PROVE FInv'
  <1>1. /\ mm.pc = "fork_reply"
        /\ mm' = [mm EXCEPT !.pc = "send", !.dest = mm.src, !.msg = [pid |-> mm.kid, val |-> 0],
                            !.next = "loop"]
        /\ UNCHANGED <<p_flags, p_parent, exit_status, ldt, upc, req, q_sending, memory_size, halted>>
    BY DEF ForkReply, At, SendThen
  <1>2. Asked(mm.src, "FORK") /\ mm.kid \in Proc /\ mm.src \in Proc
    BY <1>1 DEF FInv, MMPhase, Asked
  <1>3. [pid |-> mm.kid, val |-> 0] \in Messages
    BY <1>2 DEF Messages
  <1>4. /\ MMTypeOK' /\ mm'.pc = "send" /\ mm'.next = "loop" /\ mm'.dest = mm.src
        /\ mm'.msg \in Messages
    BY <1>1, <1>2, <1>3 DEF FInv, MMTypeOK, MMPcs
  <1>5. \A q : Busy(q)' <=> Busy(q)
    BY <1>1, <1>4 DEF Busy, Sending, Reporting
  <1>6. \A q, t : Asked(q, t)' <=> Asked(q, t)
    BY <1>1 DEF Asked
  <1>7. MMPhase'
    BY <1>2, <1>4, <1>6 DEF MMPhase, Sending, Reporting
  <1>8. ldt' \in [Proc -> Proc]
    BY <1>1 DEF FInv, TypeOK
  <1> QED  BY <1>1, <1>4, <1>5, <1>7, <1>8, MMMoves DEF Reporting, Sending

(* do_fork() copies the parent's entry into the first free one, so that the *)
(* child waits for an answer as its parent does.                            *)
LEMMA ForkCopyInv == ASSUME FInv, ForkCopy PROVE FInv'
  <1>1. mm.pc = "FORK" /\ q_sending' = q_sending
    BY DEF ForkCopy, At
  <1>2. PICK s \in Proc : s = mm.src
    BY <1>1 DEF FInv, MMPhase, Asked
  <1>3. Asked(s, "FORK") /\ ~Reporting /\ \A q : Busy(q) <=> q = s
    BY <1>1, <1>2 DEF FInv, MMPhase, Busy, Sending, Reporting
  <1>4. Owed(s)
    BY <1>3 DEF FInv, Shapes
  <1>5. CASE FreeSlots = {}
    <2>1. /\ mm' = [mm EXCEPT !.pc = "send", !.dest = s, !.msg = [pid |-> NULL, val |-> -1],
                              !.next = "loop"]
          /\ UNCHANGED <<p_flags, p_parent, exit_status, ldt, upc, req, memory_size, halted>>
      BY <1>2, <1>5 DEF ForkCopy, SendThen
    <2>2. [pid |-> NULL, val |-> -1] \in Messages
      BY DEF Messages
    <2>3. /\ MMTypeOK' /\ mm'.pc = "send" /\ mm'.next = "loop" /\ mm'.dest = s
          /\ mm'.msg \in Messages
      BY <2>1, <2>2 DEF FInv, MMTypeOK, MMPcs
    <2>4. \A q : Busy(q)' <=> q = s
      BY <2>3 DEF Busy, Sending, Reporting
    <2>5. \A q, t : Asked(q, t)' <=> Asked(q, t)
      BY <2>1 DEF Asked
    <2>6. MMPhase'
      BY <1>3, <2>3, <2>5 DEF MMPhase, Sending, Reporting
    <2>7. ldt' \in [Proc -> Proc]
      BY <2>1 DEF FInv, TypeOK
    <2> QED  BY <1>1, <1>3, <2>1, <2>3, <2>4, <2>6, <2>7, MMMoves
  <1>6. CASE FreeSlots # {}
    <2>1. PICK c : c = Min(FreeSlots)
      OBVIOUS
    <2>2. c \in FreeSlots
      BY <1>6, <2>1, FirstFound DEF FreeSlots
    <2>3. c \in Proc /\ Unused(c) /\ ~Busy(c) /\ c # s /\ c \in Slot
      <3>1. c \in Proc /\ Has(c, "FREE_SLOT")
        BY <2>2 DEF FreeSlots, Has
      <3> QED  BY <1>3, <3>1, FlagShapes DEF FInv, Unused
    <2>4. /\ p_flags' = [p_flags EXCEPT ![c] = p_flags[s]]
          /\ exit_status' = [exit_status EXCEPT ![c] = exit_status[s]]
          /\ ldt' = [ldt EXCEPT ![c] = ldt[s]]
          /\ upc' = [upc EXCEPT ![c] = upc[s]]
          /\ req' = [req EXCEPT ![c] = req[s]]
          /\ p_parent' = [p_parent EXCEPT ![c] = s]
          /\ mm' = [mm EXCEPT !.pc = "fork_mem", !.kid = c]
          /\ memory_size' = memory_size /\ halted' = (c > memory_size)
      BY <1>2, <1>6, <2>1 DEF ForkCopy
    <2>5. TypeOK'
      <3>1. c \in Proc /\ s \in Proc /\ TypeOK
        BY <1>2, <2>3 DEF FInv
      <3>2. /\ p_flags' \in [Proc -> SUBSET {"SENDING", "RECEIVING", "WAITING", "HANGING", "FREE_SLOT"}]
            /\ upc' \in [Proc -> {"run", "sent", "recv", "spin"}]
            /\ req' \in [Proc -> Request \cup {NULL}]
        BY <2>4, <3>1 DEF TypeOK
      <3>3. /\ p_parent' \in [Proc -> Proc \cup {NO_TASK}]
            /\ exit_status' \in [Proc -> Status \cup {NULL}]
            /\ ldt' \in [Proc -> Proc]
        BY <2>4, <3>1 DEF TypeOK
      <3>4. memory_size' \in MemSizes /\ halted' \in BOOLEAN
        BY <2>4, <3>1 DEF TypeOK
      <3> QED  BY <1>1, <3>1, <3>2, <3>3, <3>4 DEF TypeOK
    <2>6. /\ p_flags'[c] = p_flags[s] /\ upc'[c] = upc[s] /\ req'[c] = req[s] /\ p_parent'[c] = s
          /\ \A q \in Proc \ {c} : /\ p_flags'[q] = p_flags[q] /\ upc'[q] = upc[q]
                                   /\ req'[q] = req[q] /\ exit_status'[q] = exit_status[q]
                                   /\ p_parent'[q] = p_parent[q]
      BY <2>3, <2>4 DEF FInv, TypeOK
    <2>7. MMTypeOK' /\ mm'.pc = "fork_mem" /\ mm'.kid = c /\ mm'.src = s
      BY <1>2, <2>3, <2>4 DEF FInv, MMTypeOK, MMPcs
    <2>8. \A q \in Proc \ {c} : /\ Owed(q)' <=> Owed(q)
                                /\ Settled(q)' <=> Settled(q)
                                /\ Queued(q)' <=> Queued(q)
                                /\ Live(q)' <=> Live(q)
                                /\ \A t : Asked(q, t)' <=> Asked(q, t)
                                /\ \A f : Has(q, f)' <=> Has(q, f)
      BY <2>6, EntryKept
    <2>9. Owed(c)' /\ Asked(c, "FORK")'
      BY <1>3, <1>4, <2>3, <2>6 DEF Owed, Asked, Waits, Has
    <2>10. Live(c)' /\ ~Has(c, "WAITING")' /\ ~Has(c, "HANGING")' /\ ~Has(c, "FREE_SLOT")'
      BY <1>4, <2>6 DEF Owed, Live, Has
    <2>11. ~Live(c) /\ ~Queued(c)
      BY <2>3, ShapeFlags
    <2>12. \A q : Busy(q)' <=> q \in {s, c}
      BY <2>7 DEF Busy, Sending, Reporting
    <2>13. Shapes'
      BY <1>3, <1>4, <2>3, <2>8, <2>9, <2>12 DEF FInv, Shapes
    <2>14. INIT \in Proc /\ INIT # c /\ Slot \subseteq Proc
      BY <2>3 DEF Proc, Slot, INIT
    <2>15. InitStays'
      <3>1. ~Asked(INIT, "EXIT")' /\ p_parent'[INIT] = NO_TASK
        BY <2>6, <2>8, <2>14 DEF FInv, InitStays
      <3>2. \A q \in Proc : p_parent'[q] # q
        BY <2>3, <2>6 DEF FInv, InitStays
      <3> QED  BY <3>1, <3>2 DEF InitStays
    <2>16. QueueSound'
      <3>1. \A i \in 1 .. Len(q_sending) : q_sending[i] \in Proc \ {c}
        BY <2>11 DEF FInv, TypeOK, QueueSound
      <3> QED  BY <1>1, <2>8, <3>1 DEF FInv, QueueSound
    <2>17. MMPhase'
      BY <1>2, <1>3, <2>3, <2>7, <2>8, <2>9 DEF MMPhase, Sending, Reporting
    <2>18. Live(s)
      BY <1>4, ShapeFlags
    <2>19. ParentsSound'
      BY <1>1, <1>3, <2>3, <2>6, <2>8, <2>11, <2>14, <2>18 DEF FInv, ParentsSound
    <2>20. ExitsNoticed'
      BY <2>6, <2>8, <2>10 DEF FInv, ExitsNoticed
    <2> QED  BY <2>5, <2>7, <2>13, <2>15, <2>16, <2>17, <2>19, <2>20 DEF FInv
  <1> QED  BY <1>5, <1>6

-----------------------------------------------------------------------------
(***************************************************************************)
(* do_exit()                                                               *)
(***************************************************************************)

(* The parent is told if it waits; else the process hangs.  MM holds both   *)
(* entries in its hands while it does so: no exit falls between.            *)
LEMMA ExitMarkInv == ASSUME FInv, ExitMark PROVE FInv'
  <1>1. mm.pc = "EXIT" /\ UNCHANGED <<p_parent, ldt, upc, req, q_sending, memory_size, halted>>
    BY DEF ExitMark, At
  <1>2. PICK s \in Proc : s = mm.src
    BY <1>1 DEF FInv, MMPhase, Asked
  <1>3. Asked(s, "EXIT") /\ ~Reporting /\ \A q : Busy(q) <=> q = s
    BY <1>1, <1>2 DEF FInv, MMPhase, Busy, Sending, Reporting
  <1>4. Owed(s)
    BY <1>3 DEF FInv, Shapes
  <1>5. s \in Slot /\ INIT # s /\ Slot \subseteq Proc /\ INIT \in Proc
    BY <1>3 DEF FInv, InitStays, Proc, INIT, Slot
  <1>6. ~Has(s, "FREE_SLOT") /\ Live(s) /\ ~Has(s, "WAITING") /\ ~Queued(s)
    BY <1>4, ShapeFlags
  <1>7. p_parent[s] \in Proc
    BY <1>5, <1>6 DEF FInv, ParentsSound
  <1>8. PICK f \in Proc : f = p_parent[s]
    BY <1>7
  <1>9. PICK st \in Status : st = req[s].status
    BY <1>3 DEF Asked, Request
  <1>10. exit_status' = [exit_status EXCEPT ![s] = st]
    BY <1>2, <1>9 DEF ExitMark
  <1>11. /\ exit_status' \in [Proc -> Status \cup {NULL}] /\ exit_status'[s] = st
         /\ \A q \in Proc \ {s} : exit_status'[q] = exit_status[q]
    BY <1>9, <1>10 DEF FInv, TypeOK
  <1>12. \A q, t : Asked(q, t)' <=> Asked(q, t)
    BY <1>1 DEF Asked
  <1>13. InitStays'
    BY <1>1, <1>12 DEF FInv, InitStays
  <1>14. CASE Has(f, "WAITING")
    <2>1. /\ p_flags' = [p_flags EXCEPT ![f] = @ \ {"WAITING"}]
          /\ mm' = [mm EXCEPT !.pc = "send", !.dest = f, !.msg = [pid |-> s, val |-> st],
                              !.next = "exit_free", !.kid = s, !.from = 0]
      BY <1>2, <1>8, <1>9, <1>14 DEF ExitMark, CleanupThen
    <2>2. Waiting(f) /\ ~Busy(f) /\ f # s
      BY <1>3, <1>14, FlagShapes DEF FInv
    <2>3. Live(f) /\ ~Has(f, "FREE_SLOT") /\ Asked(f, "WAIT") /\ ~Queued(f)
      BY <2>2, ShapeFlags
    <2>4. /\ p_flags' \in [Proc -> SUBSET {"SENDING", "RECEIVING", "WAITING", "HANGING", "FREE_SLOT"}]
          /\ p_flags'[f] = p_flags[f] \ {"WAITING"}
          /\ \A q \in Proc \ {f} : p_flags'[q] = p_flags[q]
      BY <2>1 DEF FInv, TypeOK
    <2>5. \A q \in Proc \ {f, s} : /\ Owed(q)' <=> Owed(q)
                                   /\ Settled(q)' <=> Settled(q)
                                   /\ Queued(q)' <=> Queued(q)
      BY <1>1, <1>11, <2>4, EntryKept
    <2>6. Owed(f)'
      BY <1>1, <2>2, <2>4 DEF Waiting, Owed, Asked, Waits, Has
    <2>7. Owed(s)'
      BY <1>1, <1>4, <2>2, <2>4 DEF Owed, Waits, Has
    <2>8. \A q \in Proc : /\ Live(q)' <=> Live(q)
                          /\ Has(q, "FREE_SLOT")' <=> Has(q, "FREE_SLOT")
                          /\ Has(q, "HANGING")' <=> Has(q, "HANGING")
                          /\ Has(q, "WAITING")' => Has(q, "WAITING")
      BY <2>4 DEF Live, Has
    <2>9. [pid |-> s, val |-> st] \in Messages
      BY DEF Messages
    <2>10. /\ MMTypeOK' /\ mm'.pc = "send" /\ mm'.next = "exit_free" /\ mm'.dest = f
           /\ mm'.kid = s /\ mm'.src = s /\ mm'.from = 0 /\ mm'.msg = [pid |-> s, val |-> st]
      BY <1>2, <2>1, <2>9 DEF FInv, MMTypeOK, MMPcs
    <2>11. \A q : Busy(q)' <=> q \in {f, s}
      BY <2>10 DEF Busy, Sending, Reporting
    <2>12. Shapes'
      BY <1>3, <2>5, <2>6, <2>7, <2>11 DEF FInv, Shapes
    <2>13. QueueSound'
      <3>1. \A i \in 1 .. Len(q_sending) : q_sending[i] \in Proc \ {f, s}
        BY <1>6, <2>3 DEF FInv, TypeOK, QueueSound
      <3> QED  BY <1>1, <2>5, <3>1 DEF FInv, QueueSound
    <2>14. MMPhase'
      BY <1>1, <1>3, <1>5, <1>8, <1>9, <1>12, <2>3, <2>9, <2>10 DEF MMPhase, Sending, Reporting
    <2>15. ParentsSound'
      BY <1>1, <1>3, <1>5, <2>8 DEF FInv, ParentsSound
    <2>16. ExitsNoticed'
      BY <1>1, <2>8 DEF FInv, ExitsNoticed
    <2>17. TypeOK'
      BY <1>1, <1>11, <2>4 DEF FInv, TypeOK
    <2> QED  BY <1>13, <2>10, <2>12, <2>13, <2>14, <2>15, <2>16, <2>17 DEF FInv
  <1>15. CASE ~Has(f, "WAITING")
    <2>1. /\ p_flags' = [p_flags EXCEPT ![s] = @ \cup {"HANGING"}]
          /\ mm' = [mm EXCEPT !.pc = "exit_kids", !.from = 0]
      BY <1>2, <1>8, <1>15 DEF ExitMark
    <2>2. /\ p_flags' \in [Proc -> SUBSET {"SENDING", "RECEIVING", "WAITING", "HANGING", "FREE_SLOT"}]
          /\ p_flags'[s] = p_flags[s] \cup {"HANGING"}
          /\ \A q \in Proc \ {s} : p_flags'[q] = p_flags[q]
      BY <2>1 DEF FInv, TypeOK
    <2>3. \A q \in Proc \ {s} : /\ Owed(q)' <=> Owed(q)
                                /\ Settled(q)' <=> Settled(q)
                                /\ Queued(q)' <=> Queued(q)
                                /\ Live(q)' <=> Live(q)
                                /\ \A g : Has(q, g)' <=> Has(q, g)
      BY <1>1, <1>11, <2>2, EntryKept
    <2>4. Zombie(s)'
      BY <1>1, <1>3, <1>4, <1>5, <1>9, <1>11, <1>12, <2>2 DEF Zombie, Owed, Waits, Has
    <2>5. Settled(s)' /\ ~Live(s)' /\ ~Has(s, "WAITING")' /\ ~Has(s, "FREE_SLOT")'
      BY <1>6, <2>2, <2>4 DEF Settled, Live, Has
    <2>6. MMTypeOK' /\ mm'.pc = "exit_kids" /\ mm'.src = s /\ mm'.from = 0
      BY <1>2, <2>1 DEF FInv, MMTypeOK, MMPcs
    <2>7. \A q : ~Busy(q)'
      BY <2>6 DEF Busy, Sending, Reporting
    <2>8. Shapes'
      BY <1>3, <2>3, <2>5, <2>7 DEF FInv, Shapes
    <2>9. QueueSound'
      <3>1. \A i \in 1 .. Len(q_sending) : q_sending[i] \in Proc \ {s}
        BY <1>6 DEF FInv, TypeOK, QueueSound
      <3> QED  BY <1>1, <2>3, <3>1 DEF FInv, QueueSound
    <2>10. MMPhase'
      BY <1>5, <2>5, <2>6 DEF MMPhase, Sending, Reporting
    <2>11. ParentsSound'
      <3>1. \A q \in Slot : q >= 0
        BY SlotAssumption DEF Slot
      <3> QED  BY <1>1, <1>3, <1>5, <1>6, <2>3, <2>6, <3>1 DEF FInv, ParentsSound
    <2>12. ExitsNoticed'
      BY <1>1, <1>8, <1>15, <2>3, <2>5 DEF FInv, ExitsNoticed
    <2>13. TypeOK'
      BY <1>1, <1>11, <2>2 DEF FInv, TypeOK
    <2> QED  BY <1>13, <2>6, <2>8, <2>9, <2>10, <2>11, <2>12, <2>13 DEF FInv
  <1> QED  BY <1>14, <1>15

(* The entry of a child whose exit has been reported is released. *)
LEMMA FreeEntry ==
    ASSUME FInv, NEW k \in Slot, k = mm.kid, NEW pc, NEW next, Free(pc, next),
           Busy(k) \/ Zombie(k)
    PROVE  /\ TypeOK' /\ InitStays' /\ QueueSound' /\ ExitsNoticed'
           /\ Settled(k)' /\ ~Live(k)' /\ Has(k, "FREE_SLOT")'
           /\ \A q \in Proc \ {k} : /\ Owed(q)' <=> Owed(q)
                                    /\ Settled(q)' <=> Settled(q)
                                    /\ Live(q)' <=> Live(q)
                                    /\ \A f : Has(q, f)' <=> Has(q, f)
  <1>1. /\ p_flags' = [p_flags EXCEPT ![k] = {"FREE_SLOT"}]
        /\ upc' = [upc EXCEPT ![k] = "run"] /\ req' = [req EXCEPT ![k] = NULL]
        /\ UNCHANGED <<p_parent, exit_status, ldt, q_sending, memory_size, halted>>
    BY DEF Free
  <1>2. k \in Proc /\ Slot \subseteq Proc
    BY DEF Proc
  <1>3. /\ p_flags' \in [Proc -> SUBSET {"SENDING", "RECEIVING", "WAITING", "HANGING", "FREE_SLOT"}]
        /\ upc' \in [Proc -> {"run", "sent", "recv", "spin"}] /\ req' \in [Proc -> Request \cup {NULL}]
        /\ p_flags'[k] = {"FREE_SLOT"} /\ upc'[k] = "run" /\ req'[k] = NULL
        /\ \A q \in Proc \ {k} : p_flags'[q] = p_flags[q] /\ upc'[q] = upc[q] /\ req'[q] = req[q]
    BY <1>1, <1>2 DEF FInv, TypeOK
  <1>4. TypeOK'
    BY <1>1, <1>3 DEF FInv, TypeOK
  <1>5. \A q \in Proc \ {k} : /\ Owed(q)' <=> Owed(q)
                              /\ Settled(q)' <=> Settled(q)
                              /\ Queued(q)' <=> Queued(q)
                              /\ Live(q)' <=> Live(q)
                              /\ \A t : Asked(q, t)' <=> Asked(q, t)
                              /\ \A f : Has(q, f)' <=> Has(q, f)
    BY <1>1, <1>3, EntryKept
  <1>6. Unused(k)'
    BY <1>3 DEF Unused
  <1>7. /\ Settled(k)' /\ ~Live(k)' /\ ~Has(k, "WAITING")' /\ ~Has(k, "HANGING")'
        /\ Has(k, "FREE_SLOT")'
    BY <1>3, <1>6 DEF Settled, Live, Has
  <1>8. ~Asked(INIT, "EXIT")'
    BY <1>3, NullAssumption DEF FInv, InitStays, Asked
  <1>9. InitStays'
    BY <1>1, <1>8 DEF FInv, InitStays
  <1>10. ~Queued(k)
    BY <1>2, FlagShapes, ShapeFlags DEF FInv
  <1>11. QueueSound'
    <2>1. \A i \in 1 .. Len(q_sending) : q_sending[i] \in Proc \ {k}
      BY <1>10 DEF FInv, TypeOK, QueueSound
    <2> QED  BY <1>1, <1>5, <2>1 DEF FInv, QueueSound
  <1>12. ExitsNoticed'
    BY <1>1, <1>5, <1>7 DEF FInv, ExitsNoticed
  <1> QED  BY <1>4, <1>5, <1>7, <1>9, <1>11, <1>12

(* cleanup() in do_exit(), back to the loop over the children. *)
LEMMA ExitFreeInv == ASSUME FInv, ExitFree PROVE FInv'
  <1>1. /\ mm.pc = "exit_free" /\ Reporting /\ Goto("exit_kids") /\ Free("exit_free", "exit_kids")
        /\ p_parent' = p_parent
    BY DEF ExitFree, Free, At, Reporting
  <1>2. /\ mm.src \in Slot /\ Asked(mm.kid, "EXIT")
        /\ (mm.kid = mm.src => mm.from = 0)
        /\ (mm.kid # mm.src => Zombie(mm.kid) /\ ~Live(mm.src))
    BY <1>1 DEF FInv, MMPhase
  <1>3. Slot \subseteq Proc
    BY DEF Proc
  <1>4. PICK k \in Slot : k = mm.kid
    BY <1>2 DEF FInv, InitStays, Asked, Proc
  <1>5. PICK s \in Slot : s = mm.src
    BY <1>2
  <1>6. \A q : Busy(q) <=> (q = k /\ k = s)
    BY <1>1, <1>4, <1>5 DEF Busy, Sending, Reporting
  <1>7. Busy(k) \/ Zombie(k)
    BY <1>2, <1>4, <1>5, <1>6
  <1>8. /\ TypeOK' /\ InitStays' /\ QueueSound' /\ ExitsNoticed'
        /\ Settled(k)' /\ ~Live(k)' /\ Has(k, "FREE_SLOT")'
        /\ \A q \in Proc \ {k} : /\ Owed(q)' <=> Owed(q)
                                 /\ Settled(q)' <=> Settled(q)
                                 /\ Live(q)' <=> Live(q)
                                 /\ \A f : Has(q, f)' <=> Has(q, f)
    BY <1>1, <1>4, <1>7, FreeEntry
  <1>9. MMTypeOK' /\ mm'.pc = "exit_kids" /\ mm'.src = s /\ mm'.from = mm.from
    BY <1>1, <1>5 DEF Goto, FInv, MMTypeOK, MMPcs
  <1>10. \A q : ~Busy(q)'
    BY <1>9 DEF Busy, Sending, Reporting
  <1>11. Shapes'
    BY <1>6, <1>8, <1>10 DEF FInv, Shapes
  <1>12. ~Live(s)'
    BY <1>2, <1>3, <1>4, <1>5, <1>8
  <1>13. MMPhase'
    BY <1>9, <1>12 DEF MMPhase, Sending, Reporting
  <1>14. ParentsSound'
    <2> SUFFICES ASSUME NEW p \in Slot, ~Has(p, "FREE_SLOT")'
                 PROVE  /\ p_parent'[p] \in Proc
                        /\ Live(p_parent[p])' \/ (p_parent'[p] = s /\ p >= mm'.from)
      BY <1>9 DEF ParentsSound
    <2>1. PICK f : f = p_parent[p]
      OBVIOUS
    <2>2. f \in Proc /\ (Live(f) \/ (f = s /\ p >= mm.from))
      BY <1>3, <1>5, <1>8, <2>1 DEF FInv, ParentsSound
    <2>3. CASE f # k
      BY <1>1, <1>8, <1>9, <2>1, <2>2, <2>3
    <2>4. CASE f = k
      <3>1. f = s /\ p >= mm.from
        <4>1. CASE k = s
          <5>1. mm.from = 0 /\ p >= 0
            BY <1>2, <1>4, <1>5, <4>1, SlotAssumption DEF Slot
          <5> QED  BY <2>4, <4>1, <5>1
        <4>2. CASE k # s
          BY <1>2, <1>4, <1>5, <2>2, <2>4, <4>2, ShapeFlags
        <4> QED  BY <4>1, <4>2
      <3> QED  BY <1>1, <1>9, <2>1, <2>2, <3>1
    <2> QED  BY <2>3, <2>4
  <1> QED  BY <1>8, <1>9, <1>11, <1>13, <1>14 DEF FInv

(* cleanup() in do_wait(), back to the main loop. *)
LEMMA WaitFreeInv == ASSUME FInv, WaitFree PROVE FInv'
  <1>1. /\ mm.pc = "wait_free" /\ ~Reporting /\ Goto("loop") /\ Free("wait_free", "loop")
        /\ p_parent' = p_parent
    BY DEF WaitFree, Free, At, Reporting, Sending
  <1>2. PICK k \in Slot : k = mm.kid
    BY <1>1 DEF FInv, MMPhase, Zombie
  <1>3. Zombie(k) /\ Slot \subseteq Proc /\ \A q : ~Busy(q)
    BY <1>1, <1>2 DEF FInv, MMPhase, Busy, Sending, Reporting, Proc
  <1>4. /\ TypeOK' /\ InitStays' /\ QueueSound' /\ ExitsNoticed'
        /\ Settled(k)' /\ ~Live(k)' /\ Has(k, "FREE_SLOT")'
        /\ \A q \in Proc \ {k} : /\ Owed(q)' <=> Owed(q)
                                 /\ Settled(q)' <=> Settled(q)
                                 /\ Live(q)' <=> Live(q)
                                 /\ \A f : Has(q, f)' <=> Has(q, f)
    BY <1>1, <1>2, <1>3, FreeEntry
  <1>5. mm' = Idle /\ mm'.pc = "loop" /\ MMTypeOK'
    BY <1>1 DEF Goto, Idle, MMTypeOK, MMPcs
  <1>6. MMPhase' /\ \A q : ~Busy(q)'
    BY <1>5 DEF MMPhase, Busy, Sending, Reporting
  <1>7. Shapes'
    BY <1>3, <1>4, <1>6 DEF FInv, Shapes
  <1>8. ~Live(k)
    BY <1>3, ShapeFlags
  <1>9. ParentsSound'
    BY <1>1, <1>3, <1>4, <1>8 DEF FInv, ParentsSound
  <1> QED  BY <1>4, <1>5, <1>6, <1>7, <1>9 DEF FInv

(* The next child of the exited process becomes a child of INIT; a zombie   *)
(* that INIT waits for is reported to it.                                   *)
LEMMA ExitKidsInv == ASSUME FInv, ExitKids PROVE FInv'
  <1> DEFINE kids == {i \in Proc : i >= mm.from /\ p_parent[i] = mm.src}
  <1>1. /\ mm.pc = "exit_kids" /\ mm.from \in Nat
        /\ UNCHANGED <<exit_status, ldt, upc, req, q_sending, memory_size, halted>>
    BY DEF ExitKids, At, FInv, MMTypeOK
  <1>2. PICK s \in Slot : s = mm.src
    BY <1>1 DEF FInv, MMPhase
  <1>3. ~Live(s) /\ ~Reporting /\ \A q : ~Busy(q)
    BY <1>1, <1>2 DEF FInv, MMPhase, Busy, Sending, Reporting
  <1>4. Slot \subseteq Proc /\ INIT \in Proc /\ INIT \notin Slot /\ INIT # s
    BY DEF Proc, Slot, INIT
  <1>5. \A q \in Slot : ~Has(q, "FREE_SLOT") =>
            p_parent[q] \in Proc /\ (Live(p_parent[q]) \/ q \in kids)
    BY <1>1, <1>2, <1>3, <1>4 DEF FInv, ParentsSound
  <1>6. CASE kids = {}
    <2>1. mm' = Idle /\ UNCHANGED <<p_flags, p_parent>>
      BY <1>6 DEF ExitKids
    <2>2. mm'.pc = "loop" /\ MMTypeOK'
      BY <2>1 DEF Idle, MMTypeOK, MMPcs
    <2>3. MMPhase' /\ \A q : ~Busy(q)'
      BY <2>1, <2>2 DEF MMPhase, Busy, Sending, Reporting
    <2>4. \A q : /\ Settled(q)' <=> Settled(q)
                 /\ Queued(q)' <=> Queued(q)
                 /\ Live(q)' <=> Live(q)
                 /\ \A t : Asked(q, t)' <=> Asked(q, t)
                 /\ \A f : Has(q, f)' <=> Has(q, f)
      BY <1>1, <2>1, EntryKept
    <2>5. TypeOK' /\ InitStays' /\ QueueSound' /\ ExitsNoticed'
      BY <1>1, <2>1, <2>4 DEF FInv, TypeOK, InitStays, QueueSound, ExitsNoticed
    <2>6. Shapes'
      BY <1>3, <2>3, <2>4 DEF FInv, Shapes
    <2>7. ParentsSound'
      BY <1>5, <1>6, <2>1, <2>4 DEF ParentsSound
    <2> QED  BY <2>2, <2>3, <2>5, <2>6, <2>7 DEF FInv
  <1>7. CASE kids # {}
    <2>1. PICK c : c = Min(kids)
      OBVIOUS
    <2>2. c \in kids /\ \A y \in kids : c <= y
      <3>1. kids \in SUBSET Proc
        OBVIOUS
      <3> HIDE DEF kids
      <3> QED  BY <1>7, <2>1, <3>1, FirstFound
    <2>3. c \in Slot /\ c # s /\ p_parent[c] = s
      BY <1>2, <1>4, <2>2, SlotAssumption DEF FInv, InitStays, Proc
    <2>4. p_parent' = [p_parent EXCEPT ![c] = INIT]
      BY <1>7, <2>1 DEF ExitKids
    <2>5. /\ p_parent' \in [Proc -> Proc \cup {NO_TASK}] /\ p_parent'[c] = INIT
          /\ \A q \in Proc \ {c} : p_parent'[q] = p_parent[q]
      BY <1>4, <2>3, <2>4 DEF FInv, TypeOK
    <2>6. \A q, t : Asked(q, t)' <=> Asked(q, t)
      BY <1>1 DEF Asked
    <2>7. InitStays'
      BY <1>4, <2>3, <2>5, <2>6 DEF FInv, InitStays
    <2>8. Live(INIT) /\ ~Has(INIT, "HANGING") /\ ~Has(INIT, "FREE_SLOT")
      BY <1>4, FlagShapes DEF FInv, Live, Zombie, Unused
    <2>9. c \in Nat /\ c + 1 \in Nat /\ \A q \in kids \ {c} : q >= c + 1
      BY <1>4, <2>2, <2>3, SlotAssumption DEF Slot, Proc, INIT
    <2>10. CASE Has(INIT, "WAITING") /\ Has(c, "HANGING")
      <3>1. /\ p_flags' = [p_flags EXCEPT ![INIT] = @ \ {"WAITING"}]
            /\ mm' = [mm EXCEPT !.pc = "send", !.dest = INIT,
                                !.msg = [pid |-> c, val |-> exit_status[c]],
                                !.next = "exit_free", !.kid = c, !.from = c + 1]
        BY <1>7, <2>1, <2>10 DEF ExitKids, CleanupThen
      <3>2. Waiting(INIT) /\ Zombie(c)
        BY <1>4, <2>3, <2>10, FlagShapes DEF FInv
      <3>3. Asked(INIT, "WAIT") /\ ~Queued(INIT) /\ Asked(c, "EXIT") /\ exit_status[c] = req[c].status
        BY <3>2, ShapeFlags DEF Zombie
      <3>4. /\ p_flags' \in [Proc -> SUBSET {"SENDING", "RECEIVING", "WAITING", "HANGING", "FREE_SLOT"}]
            /\ p_flags'[INIT] = p_flags[INIT] \ {"WAITING"}
            /\ \A q \in Proc \ {INIT} : p_flags'[q] = p_flags[q]
        BY <1>4, <3>1 DEF FInv, TypeOK
      <3>5. \A q \in Proc \ {INIT} : /\ Owed(q)' <=> Owed(q)
                                     /\ Settled(q)' <=> Settled(q)
                                     /\ Queued(q)' <=> Queued(q)
                                     /\ Zombie(q)' <=> Zombie(q)
        BY <1>1, <3>4, EntryKept
      <3>6. \A q \in Proc : /\ Live(q)' <=> Live(q)
                            /\ Has(q, "FREE_SLOT")' <=> Has(q, "FREE_SLOT")
                            /\ Has(q, "HANGING")' <=> Has(q, "HANGING")
                            /\ Has(q, "WAITING")' => Has(q, "WAITING") /\ q # INIT
        BY <3>4 DEF Live, Has
      <3>7. Owed(INIT)'
        BY <1>1, <3>2, <3>4 DEF Waiting, Owed, Asked, Waits, Has
      <3>8. [pid |-> c, val |-> exit_status[c]] \in Messages
        BY <1>4, <2>3 DEF FInv, TypeOK, Messages
      <3>9. /\ MMTypeOK' /\ mm'.pc = "send" /\ mm'.next = "exit_free" /\ mm'.dest = INIT
            /\ mm'.kid = c /\ mm'.src = s /\ mm'.from = c + 1
            /\ mm'.msg = [pid |-> c, val |-> exit_status[c]]
        BY <1>2, <1>4, <2>3, <2>9, <3>1, <3>8 DEF FInv, MMTypeOK, MMPcs
      <3>10. Reporting' /\ \A q : Busy(q)' <=> q = INIT
        BY <2>3, <3>9 DEF Busy, Sending, Reporting
      <3>11. Shapes'
        BY <1>3, <3>5, <3>7, <3>10 DEF FInv, Shapes
      <3>12. QueueSound'
        <4>1. \A i \in 1 .. Len(q_sending) : q_sending[i] \in Proc \ {INIT}
          BY <3>3 DEF FInv, TypeOK, QueueSound
        <4> QED  BY <1>1, <3>5, <4>1 DEF FInv, QueueSound
      <3>13. Zombie(c)' /\ ~Live(s)' /\ Asked(c, "EXIT")' /\ Asked(INIT, "WAIT")'
             /\ req'[c].status = exit_status[c]
        BY <1>1, <1>3, <1>4, <2>3, <2>6, <3>2, <3>3, <3>5, <3>6
      <3>14. MMPhase'
        BY <1>4, <2>3, <2>5, <3>8, <3>9, <3>10, <3>13 DEF MMPhase, Sending, Reporting
      <3>15. ParentsSound'
        <4> SUFFICES ASSUME NEW p \in Slot, ~Has(p, "FREE_SLOT")'
                     PROVE  /\ p_parent'[p] \in Proc
                            /\ Live(p_parent[p])' \/ (p_parent'[p] = s /\ p >= c + 1)
          BY <3>9, <3>10 DEF ParentsSound
        <4>1. CASE p = c
          BY <1>4, <2>5, <2>8, <3>6, <4>1
        <4>2. CASE p # c
          <5>1. p_parent'[p] = p_parent[p] /\ p \in Proc /\ ~Has(p, "FREE_SLOT")
            BY <1>4, <2>5, <3>6, <4>2
          <5>2. p_parent[p] \in Proc /\ (Live(p_parent[p]) \/ p \in kids)
            BY <1>5, <5>1
          <5> HIDE DEF kids
          <5>3. CASE Live(p_parent[p])
            BY <3>6, <5>1, <5>2, <5>3
          <5>4. CASE p \in kids
            <6>1. p_parent[p] = s
              BY <1>2, <5>4 DEF kids
            <6> QED  BY <2>9, <4>2, <5>1, <5>2, <5>4, <6>1
          <5> QED  BY <5>2, <5>3, <5>4
        <4> QED  BY <4>1, <4>2
      <3>16. ExitsNoticed'
        BY <2>5, <3>6 DEF FInv, ExitsNoticed
      <3>17. TypeOK'
        BY <1>1, <2>5, <3>4 DEF FInv, TypeOK
      <3> QED  BY <2>7, <3>9, <3>11, <3>12, <3>14, <3>15, <3>16, <3>17 DEF FInv
    <2>11. CASE ~(Has(INIT, "WAITING") /\ Has(c, "HANGING"))
      <3>1. mm' = [mm EXCEPT !.from = c + 1] /\ p_flags' = p_flags
        BY <1>7, <2>1, <2>11 DEF ExitKids
      <3>2. MMTypeOK' /\ mm'.pc = "exit_kids" /\ mm'.src = s /\ mm'.from = c + 1
        BY <1>1, <1>2, <2>9, <3>1 DEF FInv, MMTypeOK, MMPcs
      <3>3. \A q : /\ Settled(q)' <=> Settled(q)
                   /\ Queued(q)' <=> Queued(q)
                   /\ Live(q)' <=> Live(q)
                   /\ \A f : Has(q, f)' <=> Has(q, f)
        BY <1>1, <3>1, EntryKept
      <3>4. MMPhase' /\ \A q : ~Busy(q)'
        BY <1>3, <3>2, <3>3 DEF MMPhase, Busy, Sending, Reporting
      <3>5. Shapes' /\ QueueSound'
        BY <1>1, <1>3, <3>3, <3>4 DEF FInv, Shapes, QueueSound
      <3>6. ParentsSound'
        <4> SUFFICES ASSUME NEW p \in Slot, ~Has(p, "FREE_SLOT")'
                     PROVE  /\ p_parent'[p] \in Proc
                            /\ Live(p_parent[p])' \/ (p_parent'[p] = s /\ p >= c + 1)
          BY <3>2 DEF ParentsSound
        <4>1. CASE p = c
          BY <1>4, <2>5, <2>8, <3>3, <4>1
        <4>2. CASE p # c
          <5>1. p_parent'[p] = p_parent[p] /\ p \in Proc /\ ~Has(p, "FREE_SLOT")
            BY <1>4, <2>5, <3>3, <4>2
          <5>2. p_parent[p] \in Proc /\ (Live(p_parent[p]) \/ p \in kids)
            BY <1>5, <5>1
          <5> HIDE DEF kids
          <5>3. CASE Live(p_parent[p])
            BY <3>3, <5>1, <5>2, <5>3
          <5>4. CASE p \in kids
            <6>1. p_parent[p] = s
              BY <1>2, <5>4 DEF kids
            <6> QED  BY <2>9, <4>2, <5>1, <5>2, <5>4, <6>1
          <5> QED  BY <5>2, <5>3, <5>4
        <4> QED  BY <4>1, <4>2
      <3>7. ExitsNoticed'
        BY <2>5, <2>11, <3>3 DEF FInv, ExitsNoticed
      <3>8. TypeOK'
        BY <1>1, <2>5, <3>1 DEF FInv, TypeOK
      <3> QED  BY <2>7, <3>2, <3>4, <3>5, <3>6, <3>7, <3>8 DEF FInv
    <2> QED  BY <2>10, <2>11
  <1> QED  BY <1>6, <1>7

-----------------------------------------------------------------------------
(***************************************************************************)
(* do_wait()                                                               *)
(***************************************************************************)

(* The first child that hangs is reported; a process with children only    *)
(* that do not is marked WAITING; one without children is told so.         *)
LEMMA WaitInv == ASSUME FInv, Wait PROVE FInv'
  <1> DEFINE zombies == {i \in Children(mm.src) : Has(i, "HANGING")}
  <1>1. mm.pc = "WAIT" /\ UNCHANGED <<p_parent, exit_status, ldt, upc, req, q_sending, memory_size, halted>>
    BY DEF Wait, At
  <1>2. PICK s \in Proc : s = mm.src
    BY <1>1 DEF FInv, MMPhase, Asked
  <1>3. Asked(s, "WAIT") /\ ~Reporting /\ \A q : Busy(q) <=> q = s
    BY <1>1, <1>2 DEF FInv, MMPhase, Busy, Sending, Reporting
  <1>4. Owed(s)
    BY <1>3 DEF FInv, Shapes
  <1>5. \A q, t : Asked(q, t)' <=> Asked(q, t)
    BY <1>1 DEF Asked
  <1>6. ldt' \in [Proc -> Proc]
    BY <1>1 DEF FInv, TypeOK
  <1>7. CASE /\ zombies # {} /\ p_flags' = p_flags
             /\ CleanupThen(Min(zombies), mm.src, exit_status[Min(zombies)], "wait_free", 0)
    <2>1. PICK z : z = Min(zombies)
      OBVIOUS
    <2>2. z \in zombies
      <3>1. zombies \in SUBSET Proc
        BY DEF Children
      <3> HIDE DEF zombies
      <3> QED  BY <1>7, <2>1, <3>1, FirstFound
    <2>3. z \in Proc /\ p_parent[z] = s /\ Zombie(z)
      BY <1>2, <2>2, FlagShapes DEF FInv, Children
    <2>4. mm' = [mm EXCEPT !.pc = "send", !.dest = s, !.msg = [pid |-> z, val |-> exit_status[z]],
                           !.next = "wait_free", !.kid = z, !.from = 0]
      BY <1>2, <1>7, <2>1 DEF CleanupThen
    <2>5. [pid |-> z, val |-> exit_status[z]] \in Messages
      BY <2>3 DEF FInv, TypeOK, Messages
    <2>6. /\ MMTypeOK' /\ mm'.pc = "send" /\ mm'.next = "wait_free" /\ mm'.dest = s
          /\ mm'.kid = z /\ mm'.msg = [pid |-> z, val |-> exit_status[z]]
      BY <2>3, <2>4, <2>5 DEF FInv, MMTypeOK, MMPcs
    <2>7. \A q : Busy(q)' <=> q = s
      BY <2>6 DEF Busy, Sending, Reporting
    <2>8. Zombie(z)' /\ exit_status[z] = req'[z].status
      <3>1. Zombie(z)' <=> Zombie(z)
        BY <1>1, <1>7, EntryKept
      <3> QED  BY <1>1, <2>3, <3>1 DEF Zombie
    <2>9. MMPhase'
      BY <1>1, <1>3, <1>5, <2>3, <2>5, <2>6, <2>8 DEF MMPhase, Sending, Reporting
    <2> QED  BY <1>1, <1>3, <1>6, <1>7, <2>6, <2>7, <2>9, MMMoves
  <1>8. CASE /\ zombies = {} /\ mm' = Idle
             /\ p_flags' = [p_flags EXCEPT ![mm.src] = @ \cup {"WAITING"}]
    <2>1. /\ p_flags' \in [Proc -> SUBSET {"SENDING", "RECEIVING", "WAITING", "HANGING", "FREE_SLOT"}]
          /\ p_flags'[s] = p_flags[s] \cup {"WAITING"}
          /\ \A q \in Proc \ {s} : p_flags'[q] = p_flags[q]
      BY <1>2, <1>8 DEF FInv, TypeOK
    <2>2. \A q \in Proc \ {s} : /\ Owed(q)' <=> Owed(q)
                                /\ Settled(q)' <=> Settled(q)
                                /\ Queued(q)' <=> Queued(q)
      BY <1>1, <2>1, EntryKept
    <2>3. \A q \in Proc : /\ Live(q)' <=> Live(q)
                          /\ Has(q, "FREE_SLOT")' <=> Has(q, "FREE_SLOT")
                          /\ Has(q, "HANGING")' <=> Has(q, "HANGING")
                          /\ Has(q, "WAITING")' => Has(q, "WAITING") \/ q = s
      BY <2>1 DEF Live, Has
    <2>4. Waiting(s)'
      BY <1>1, <1>3, <1>4, <1>5, <2>1 DEF Waiting, Owed, Waits, Has
    <2>5. mm'.pc = "loop" /\ MMTypeOK'
      BY <1>8 DEF Idle, MMTypeOK, MMPcs
    <2>6. MMPhase' /\ \A q : ~Busy(q)'
      BY <1>8, <2>5 DEF MMPhase, Busy, Sending, Reporting
    <2>7. Shapes'
      BY <1>3, <2>2, <2>4, <2>6 DEF FInv, Shapes, Settled
    <2>8. QueueSound'
      <3>1. ~Queued(s)
        BY <1>4, ShapeFlags
      <3>2. \A i \in 1 .. Len(q_sending) : q_sending[i] \in Proc \ {s}
        BY <3>1 DEF FInv, TypeOK, QueueSound
      <3> QED  BY <1>1, <2>2, <3>2 DEF FInv, QueueSound
    <2>9. ParentsSound'
      <3>1. Slot \subseteq Proc
        BY DEF Proc
      <3> QED  BY <1>1, <1>3, <2>3, <3>1 DEF FInv, ParentsSound
    <2>10. ExitsNoticed'
      BY <1>1, <1>2, <1>8, <2>3 DEF FInv, ExitsNoticed, Children
    <2>11. TypeOK' /\ InitStays'
      BY <1>1, <1>5, <2>1 DEF FInv, TypeOK, InitStays
    <2> QED  BY <2>5, <2>6, <2>7, <2>8, <2>9, <2>10, <2>11 DEF FInv
  <1>9. CASE p_flags' = p_flags /\ SendThen(mm.src, [pid |-> NO_TASK, val |-> NULL], "loop")
    <2>1. mm' = [mm EXCEPT !.pc = "send", !.dest = s, !.msg = [pid |-> NO_TASK, val |-> NULL],
                           !.next = "loop"]
      BY <1>2, <1>9 DEF SendThen
    <2>2. [pid |-> NO_TASK, val |-> NULL] \in Messages
      BY DEF Messages
    <2>3. /\ MMTypeOK' /\ mm'.pc = "send" /\ mm'.next = "loop" /\ mm'.dest = s
          /\ mm'.msg = [pid |-> NO_TASK, val |-> NULL]
      BY <2>1, <2>2 DEF FInv, MMTypeOK, MMPcs
    <2>4. \A q : Busy(q)' <=> q = s
      BY <2>3 DEF Busy, Sending, Reporting
    <2>5. MMPhase'
      BY <1>3, <1>5, <2>2, <2>3 DEF MMPhase, Sending, Reporting
    <2> QED  BY <1>1, <1>3, <1>6, <1>9, <2>3, <2>4, <2>5, MMMoves
  <1> QED  BY <1>7, <1>8, <1>9 DEF Wait

-----------------------------------------------------------------------------
(***************************************************************************)
(* The theorems                                                            *)
(***************************************************************************)

(* INIT runs, the other entries are free, MM is about to receive. *)
LEMMA InitFInv == ASSUME Init PROVE FInv
  <1>1. mm = Idle /\ mm.pc = "loop" /\ MMTypeOK
    BY DEF Init, Idle, MMTypeOK, MMPcs
  <1>2. MMPhase /\ \A q : ~Busy(q)
    BY <1>1 DEF MMPhase, Busy, Sending, Reporting
  <1>3. INIT \in Proc /\ INIT \notin Slot /\ Slot \subseteq Proc
    BY DEF Proc, Slot, INIT
  <1>4. TypeOK
    <2>1. /\ p_flags \in [Proc -> SUBSET {"SENDING", "RECEIVING", "WAITING", "HANGING", "FREE_SLOT"}]
          /\ upc \in [Proc -> {"run", "sent", "recv", "spin"}]
          /\ req \in [Proc -> Request \cup {NULL}]
      BY DEF Init
    <2>2. /\ p_parent \in [Proc -> Proc \cup {NO_TASK}] /\ ldt \in [Proc -> Proc]
          /\ exit_status \in [Proc -> Status \cup {NULL}] /\ q_sending \in Seq(Proc)
      BY DEF Init
    <2>3. memory_size \in MemSizes /\ halted \in BOOLEAN
      BY DEF Init
    <2> QED  BY <2>1, <2>2, <2>3 DEF TypeOK
  <1>5. p_flags[INIT] = {} /\ \A p \in Slot : p_flags[p] = {"FREE_SLOT"}
    BY <1>3 DEF Init
  <1>6. Shapes
    <2>1. Running(INIT)
      BY <1>3, <1>5 DEF Init, Running
    <2>2. \A p \in Slot : Unused(p)
      BY <1>3, <1>5 DEF Init, Unused
    <2> QED  BY <1>2, <2>1, <2>2 DEF Shapes, Settled, Proc
  <1>7. InitStays
    <2>1. \A p \in Proc : p_parent[p] = NO_TASK /\ req[p] = NULL
      BY DEF Init
    <2> QED  BY <1>3, <2>1, SlotAssumption, NullAssumption DEF InitStays, Asked
  <1>8. QueueSound
    BY DEF Init, QueueSound
  <1>9. ParentsSound /\ ExitsNoticed
    <2>1. \A p \in Slot : Has(p, "FREE_SLOT")
      BY <1>5 DEF Has
    <2>2. \A p \in Proc : ~Has(p, "WAITING")
      BY <1>5 DEF Has, Proc
    <2> QED  BY <2>1, <2>2 DEF ParentsSound, ExitsNoticed
  <1> QED  BY <1>1, <1>2, <1>4, <1>6, <1>7, <1>8, <1>9 DEF FInv

(* Every system call of a process and every step of MM keeps it so. *)
LEMMA NextFInv == ASSUME FInv, [Next]_vars PROVE FInv'
  <1>1. CASE \E p \in Proc : CallReceive(p) \/ \E r \in Request : CallSend(p, r)
    BY <1>1, CallReceiveInv, CallSendInv
  <1>2. CASE MMStep
    BY <1>2, MMReceiveInv, MMSendInv, ForkCopyInv, ForkMemInv, ForkReplyInv, ExitMarkInv,
       ExitFreeInv, ExitKidsInv, WaitInv, WaitFreeInv DEF MMStep
  <1>3. CASE UNCHANGED vars
    <2>1. UNCHANGED <<p_flags, p_parent, exit_status, ldt, upc, req, q_sending, mm, memory_size, halted>>
      BY <1>3 DEF vars
    <2>2. MMPhase'
      <3>1. \A q : /\ Zombie(q)' <=> Zombie(q)
                   /\ Live(q)' <=> Live(q)
                   /\ \A t : Asked(q, t)' <=> Asked(q, t)
        BY <2>1, EntryKept
      <3> QED  BY <2>1, <3>1 DEF FInv, MMPhase, Sending, Reporting
    <2>3. MMTypeOK' /\ ldt' \in [Proc -> Proc]
      BY <2>1 DEF FInv, MMTypeOK, TypeOK
    <2>4. \A q : (Busy(q)' <=> Busy(q)) /\ (Reporting' <=> Reporting)
      BY <2>1 DEF Busy, Sending, Reporting
    <2> QED  BY <2>1, <2>2, <2>3, <2>4, MMMoves
  <1> QED  BY <1>1, <1>2, <1>3 DEF Next

(* The inductive invariant: whose answer MM owes at each of its steps, and  *)
(* what every other process waits for.                                      *)
THEOREM ForkExitInvariant == Spec => []FInv
  <1>1. Init => FInv
    BY InitFInv
  <1>2. FInv /\ [Next]_vars => FInv'
    BY NextFInv
  <1> QED  BY <1>1, <1>2, PTL DEF Spec

(* The entries of the process table keep their types. *)
THEOREM ForkExitTypeCorrect == Spec => []TypeOK
  <1>1. FInv => TypeOK
    BY DEF FInv
  <1> QED  BY <1>1, ForkExitInvariant, PTL

(* do_exit() and do_wait() never miss each other, in whichever order MM     *)
(* serves them and whoever the child has been handed on to.                 *)
THEOREM ExitsAreNoticed == Spec => []NoMissedExit
  <1>1. FInv => NoMissedExit
    BY DEF FInv, ExitsNoticed, NoMissedExit
  <1> QED  BY <1>1, ForkExitInvariant, PTL

(* The loop of do_exit() leaves no process with a parent that is gone. *)
THEOREM ParentsAreThere == Spec => []NoOrphans
  <1>1. FInv => NoOrphans
    BY DEF FInv, ParentsSound, NoOrphans, MMIdle, Reporting, Sending
  <1> QED  BY <1>1, ForkExitInvariant, PTL

(* When msg_send() of MM unblocks a process, the assertion that it has no   *)
(* other flag holds.                                                        *)
THEOREM AnswersUnblock == Spec => []AnsweredBecomesRunnable
  <1>1. FInv => AnsweredBecomesRunnable
    <2> SUFFICES ASSUME FInv, mm.pc = "send", Has(mm.dest, "RECEIVING")
                 PROVE  p_flags[mm.dest] = {"RECEIVING"}
      BY DEF AnsweredBecomesRunnable
    <2>1. mm.dest \in Proc
      BY DEF FInv, MMPhase
    <2>2. Owed(mm.dest)
      BY <2>1 DEF FInv, Shapes, Busy
    <2> QED  BY <2>2 DEF Owed, Has
  <1> QED  BY <1>1, ForkExitInvariant, PTL

(* wait() returns a child of the caller, with the status that child passed  *)
(* to exit(), before the entry of the child is released.                    *)
THEOREM WaitReturnsOwnChild == Spec => []ReapsOwnChild
  <1>1. FInv => ReapsOwnChild
    <2> SUFFICES ASSUME FInv, mm.pc \in {"send", "sending"}, req[mm.dest] # NULL,
                        req[mm.dest].type = "WAIT", mm.msg.pid \in Slot
                 PROVE  /\ p_parent[mm.msg.pid] = mm.dest
                        /\ ~Has(mm.msg.pid, "FREE_SLOT")
                        /\ req[mm.msg.pid] # NULL /\ req[mm.msg.pid].type = "EXIT"
                        /\ req[mm.msg.pid].status = mm.msg.val
      BY DEF ReapsOwnChild
    <2>1. mm.next \in {"loop", "fork_reply", "exit_free", "wait_free"}
      BY DEF FInv, MMTypeOK
    <2>2. mm.next # "loop"
      <3>1. NO_TASK \notin Slot
        BY SlotAssumption DEF Proc
      <3> QED  BY <3>1 DEF FInv, MMPhase, Sending, Asked
    <2>3. mm.next # "fork_reply"
      BY DEF FInv, MMPhase, Sending, Asked
    <2>4. /\ p_parent[mm.kid] = mm.dest
          /\ mm.msg = [pid |-> mm.kid, val |-> req[mm.kid].status]
      BY <2>1, <2>2, <2>3 DEF FInv, MMPhase, Sending
    <2>5. mm.msg.pid = mm.kid /\ mm.msg.val = req[mm.kid].status
      BY <2>4
    <2>6. Asked(mm.kid, "EXIT") /\ (Zombie(mm.kid) \/ Busy(mm.kid))
      BY <2>1, <2>2, <2>3 DEF FInv, MMPhase, Sending, Reporting, Busy, Zombie
    <2>7. ~Has(mm.kid, "FREE_SLOT")
      <3>1. mm.kid \in Proc
        BY <2>6 DEF Asked
      <3> QED  BY <2>6, <3>1, FlagShapes, ShapeFlags DEF FInv
    <2>8. PICK c : c = mm.kid
      OBVIOUS
    <2>9. req[c] # NULL /\ req[c].type = "EXIT"
      BY <2>6, <2>8, AskedOnce
    <2> QED  BY <2>4, <2>5, <2>7, <2>8, <2>9
  <1> QED  BY <1>1, ForkExitInvariant, PTL
=============================================================================
