-------------------------------- MODULE Tty --------------------------------
(***************************************************************************)
(* The terminals: task TTY (kernel/tty.c) with the keyboard and the        *)
(* consoles, the part of FS that passes reads and writes of terminals on   *)
(* to it and suspends and resumes the readers (fs/main.c, the first half   *)
(* of do_rdwt()), the processes that call FS, and the clock interrupt      *)
(* that wakes TTY after a key.                                             *)
(*                                                                         *)
(* Every step of TTY that other parts can see is an action of its own:     *)
(* one byte of the ring, one access to a cursor, one message.  Messages    *)
(* are as msg_send() and msg_receive() do them (see Ipc): a send to FS     *)
(* waits in a queue, an interrupt is received before a message, and FS and *)
(* TTY sending to each other are stopped by deadlock(), which halts all.   *)
(***************************************************************************)
EXTENDS Keyboard, Console, FiniteSets

CONSTANTS Proc,          \* processes that use terminals
          Chars,         \* keys that are characters: no FLAG_EXT
          Printable,     \* those between ' ' and '~'
          FKeys,         \* Alt + one of these selects a console
          Used,          \* where the start-up messages end on console 0
          TTY_IN_BYTES,
          Scenarios      \* what may be done: [keys, calls, prints]

\* What is put out on a console, and what processes ask FS for.
Bytes == Chars \cup {"LF", "BS"}
Requests == [type : {"READ", "WRITE", "OPEN"}, t : Consoles, n : Nat, bytes : Seq(Bytes),
             st : {"sending"}]

ASSUME TtyAssumption ==
    /\ Printable \subseteq Chars /\ Chars \cap {"LF", "BS"} = {}
    /\ Proc \cap {"TTY", "none"} = {}
    /\ DOMAIN FKeys \cap Chars = {} /\ Locks \cap (Chars \cup DOMAIN FKeys) = {}
    /\ Used \in 0..(V_MEM_LIMIT - 1)
    /\ \A s \in Scenarios :
         /\ s.keys \in Seq([key : DOMAIN ScanCodes, make : BOOLEAN])
         \* the keyboard sends nothing when Pause is released
         /\ \A i \in 1..Len(s.keys) : s.keys[i].make \/ ScanCodes[s.keys[i].key].break # <<>>
         /\ s.calls \in [Proc -> Seq(Requests)]
         \* printl() is given messages of the tasks: they have no backspaces
         /\ s.prints \in Seq([c : Consoles, ch : Bytes \ {"BS"}])

VARIABLES tty,           \* tty_table
          tk,            \* task TTY: where it is and its local variables
          has_int_msg,   \* of TTY
          fs,            \* task FS: where it is and fs_msg
          fsq,           \* senders blocked on FS
          call,          \* process -> its call, and how far it is
          ubuf,          \* process -> the buffer it reads into
          halted,        \* deadlock() found a cycle, or the kernel loops in out_char()
          chars,         \* history: characters TTY took for the reader of a terminal
          lost,          \* history: readers whose request was overwritten
          calls, prints  \* what the processes have still to call and to print

ioVars == <<ubuf, halted, chars, lost, calls, prints>>
taskVars == <<tty, tk, has_int_msg, fs, fsq, call, ioVars>>
vars == <<kbVars, conVars, taskVars>>

NoCall == [type |-> "none", t |-> 0, n |-> 0, bytes |-> <<>>, st |-> "ready"]
FsIdle == [pc |-> "recv", p |-> "none", reply |-> "none", cnt |-> 0]
TtyAt(pc, k) == [pc |-> pc, k |-> k, scan |-> 0, want |-> <<>>, then |-> "none", ret |-> "none",
                 dir |-> "none", c |-> 0, ch |-> "NUL", vm |-> 0, r |-> 0, out |-> <<>>]

Init ==
    /\ \E s \in Scenarios : init_keyboard(s.keys) /\ calls = s.calls /\ prints = s.prints
    /\ init_screen(Used)
    /\ tty = [t \in Consoles |-> [inbuf |-> <<>>, procnr |-> "none", left |-> 0, trans |-> 0]]
    /\ tk = TtyAt("scan", 0)
    /\ has_int_msg = FALSE
    /\ fs = FsIdle
    /\ fsq = <<>>
    /\ call = [p \in Proc |-> NoCall]
    /\ ubuf = [p \in Proc |-> <<>>]
    /\ halted = FALSE
    /\ chars = [t \in Consoles |-> <<>>]
    /\ lost = {}

-----------------------------------------------------------------------------
(* Processes and FS. *)

\* read(), write() and open(): send_recv(BOTH, FS).
Call(p) ==
    /\ call[p].st = "ready" /\ calls[p] # <<>>
    /\ call' = [call EXCEPT ![p] = Head(calls[p])]
    /\ calls' = [calls EXCEPT ![p] = Tail(@)]
    /\ fsq' = Append(fsq, p)
    /\ UNCHANGED <<tty, tk, has_int_msg, fs, ubuf, halted, chars, lost, prints, kbVars, conVars>>

\* task_fs(): the next message, a call or RESUME_PROC, which names the reader.
FsReceive ==
    /\ fs.pc = "recv" /\ fsq # <<>>
    /\ fsq' = Tail(fsq)
    /\ IF Head(fsq) = "TTY"
       THEN /\ fs' = [pc |-> "got", p |-> tty[tk.k].procnr, reply |-> "RESUME_PROC",
                      cnt |-> tty[tk.k].trans]
            /\ tk' = [tk EXCEPT !.pc = "resumed"]
            /\ UNCHANGED call
       ELSE /\ fs' = [fs EXCEPT !.pc = "call", !.p = Head(fsq)]
            /\ call' = [call EXCEPT ![Head(fsq)].st = "waiting"]
            /\ UNCHANGED tk
    /\ UNCHANGED <<tty, has_int_msg, ioVars, kbVars, conVars>>

\* do_rdwt() and do_open() of a terminal: send_recv(BOTH, TTY), the send.
do_rdwt ==
    /\ fs.pc = "call"
    /\ IF tk.pc = "sending" THEN halted' = TRUE /\ UNCHANGED fs
       ELSE fs' = [fs EXCEPT !.pc = "send"] /\ UNCHANGED halted
    /\ UNCHANGED <<tty, tk, has_int_msg, fsq, call, ubuf, chars, lost, calls, prints, kbVars, conVars>>

\* Mutant: only what the call itself returns is passed on, RESUME_PROC is not.
FsAnswer_NotResumed ==
    /\ fs.pc = "got"
    /\ fs' = FsIdle
    /\ call' = IF fs.reply = "SYSCALL_RET" THEN [call EXCEPT ![fs.p] = NoCall] ELSE call
    /\ UNCHANGED <<tty, tk, has_int_msg, fsq, ioVars, kbVars, conVars>>

\* The reply: SYSCALL_RET to the caller or the resumed reader; after
\* SUSPEND_PROC none.
FsAnswer ==
    /\ fs.pc = "got"
    /\ fs' = FsIdle
    /\ IF fs.reply = "SUSPEND_PROC" THEN UNCHANGED <<call, ubuf, chars>>
       ELSE /\ call' = [call EXCEPT ![fs.p] = NoCall]
            /\ ubuf' = [ubuf EXCEPT ![fs.p] = <<>>]
            /\ chars' = IF fs.reply = "RESUME_PROC" THEN [chars EXCEPT ![call[fs.p].t] = <<>>]
                        ELSE chars
    /\ UNCHANGED <<tty, tk, has_int_msg, fsq, halted, lost, calls, prints, kbVars, conVars>>

task_fs == FsReceive \/ do_rdwt \/ FsAnswer

-----------------------------------------------------------------------------
(* TTY reading the keyboard. *)

TtyQuiet == UNCHANGED <<has_int_msg, fs, fsq, call, ubuf, halted, lost, calls, prints>>

put_key(t, ch) == IF Len(tty[t].inbuf) < TTY_IN_BYTES
                  THEN [tty EXCEPT ![t].inbuf = Append(@, ch)] ELSE tty

\* The call scroll_screen(), after which TTY goes on at `ret'.
Scrolling(at, c, direction, ret) == [at EXCEPT !.pc = "scrl", !.c = c, !.dir = direction, !.ret = ret]

\* in_process(): a character, a line feed or a backspace goes into the
\* terminal's buffer, Shift and a cursor key scroll, Alt and F1.. select.
in_process(t, key, m) ==
    LET shift == m["SHIFT_L"] \/ m["SHIFT_R"]
        alt == m["ALT_L"] \/ m["ALT_R"]
        next == TtyAt("drain", t)
    IN  /\ tty' = CASE key \in Chars       -> put_key(t, key)
                    [] key = "ENTER"       -> put_key(t, "LF")
                    [] key = "BACKSPACE"   -> put_key(t, "BS")
                    [] OTHER               -> tty
        /\ tk' = CASE key = "UP" /\ shift   -> Scrolling(next, t, "SCR_DN", "drain")
                   [] key = "DOWN" /\ shift -> Scrolling(next, t, "SCR_UP", "drain")
                   [] OTHER                 -> next
        /\ nr_current_console' = IF key \in DOMAIN FKeys /\ alt THEN Selected(FKeys[key])
                                 ELSE nr_current_console

\* The end of keyboard_read(): look the code up, note modifiers, pass a made key
\* on.  A lock key is no character and selects nothing: only set_leds() is called.
Decode(t, scan, with_E0) ==
    LET m == ModsAfter(scan, with_E0)
        key == Key(scan, with_E0)
    IN  /\ mods' = m
        /\ IF Make(scan) /\ key \notin Locks THEN in_process(t, PadKey(key, m["NUM_LOCK"]), m)
           ELSE /\ tk' = TtyAt(IF Make(scan) THEN "code" ELSE "drain", t)
                /\ UNCHANGED <<tty, nr_current_console>>

\* More codes are needed to know the key.
ReadOn(t, pc, scan, want) ==
    /\ tk' = [TtyAt(pc, t) EXCEPT !.scan = scan, !.want = want]
    /\ UNCHANGED <<mods, tty, nr_current_console>>

TakeByte == get_byte_from_kbuf /\ UNCHANGED <<key_pressed, script, typed, dropped>>
ReadQuiet == TtyQuiet /\ UNCHANGED <<chars, cursor, start, vmem>>

\* The loop over the terminals, tty_dev_read(): the one on the screen reads the
\* first code of a key, if there is one; then the loop goes on behind it.
keyboard_read ==
    LET t == nr_current_console
    IN  /\ tk.pc = "scan" /\ tk.k <= t
        /\ TakeByte
        /\ CASE Byte = E1 -> ReadOn(t, "pause", E1, Tail(Pause))
             [] Byte = E0 -> ReadOn(t, "e0", E0, <<>>)
             [] OTHER     -> Decode(t, Byte, FALSE)
        /\ ReadQuiet

\* The code after E0.
ReadE0 ==
    /\ tk.pc = "e0" /\ TakeByte
    /\ IF PrintScreen(Byte) # <<>> THEN ReadOn(tk.k, "print", Byte, PrintScreen(Byte))
       ELSE Decode(tk.k, Byte, TRUE)
    /\ ReadQuiet

\* The codes that complete Pause and Print Screen; another one ends the match,
\* and the code that began it is decoded.
ReadRest ==
    /\ tk.pc \in {"pause", "print"} /\ TakeByte
    /\ IF Byte # Head(tk.want) THEN Decode(tk.k, tk.scan, tk.pc = "print")
       ELSE ReadOn(tk.k, IF Len(tk.want) = 1 THEN "drain" ELSE tk.pc, tk.scan, Tail(tk.want))
    /\ ReadQuiet

\* set_leds(): LED_CODE is written to the keyboard, then the state of the lights.
set_leds ==
    /\ tk.pc \in {"code", "leds"}
    /\ script' = Acked
    /\ tk' = TtyAt(IF tk.pc = "code" THEN "ack1" ELSE "ack2", tk.k)
    /\ UNCHANGED <<tty, chars, kb_in, key_pressed, mods, typed, dropped, conVars>> /\ TtyQuiet

\* kb_ack(), after each of them: reads the port, with interrupts on, until it
\* holds an ACK.
kb_ack ==
    /\ tk.pc \in {"ack1", "ack2"} /\ Port = KB_ACK
    /\ tk' = TtyAt(IF tk.pc = "ack1" THEN "leds" ELSE "drain", tk.k)
    /\ UNCHANGED <<tty, chars, kbVars, conVars>> /\ TtyQuiet

\* Nothing to read, or the loop is past the terminal on the screen.
tty_dev_read ==
    /\ tk.pc = "scan"
    /\ tk.k > nr_current_console \/ kb_in.count = 0
    /\ tk' = TtyAt("recv", 0)
    /\ UNCHANGED <<tty, chars, kbVars, conVars>> /\ TtyQuiet

-----------------------------------------------------------------------------
(* TTY putting characters out: out_char(), an access to the console a step. *)

\* The call out_char(c, ch), after which TTY goes on at `then'.
OutChar(c, ch, then) ==
    [tk EXCEPT !.pc = "check", !.c = c, !.ch = ch, !.vm = cursor[c], !.then = then]

OutQuiet == TtyQuiet /\ UNCHANGED <<tty, chars, kbVars, nr_current_console>>

OutCheck ==
    /\ tk.pc = "check"
    /\ IF HasRoom(tk.c, tk.ch)
       THEN /\ tk' = [tk EXCEPT !.pc = "read"]
            /\ vmem' = IF tk.ch = "BS" THEN vmem ELSE Painted(tk.c, Touched(tk.ch, tk.vm))
       ELSE tk' = [tk EXCEPT !.pc = "loop"] /\ UNCHANGED vmem
    /\ UNCHANGED <<cursor, start>> /\ OutQuiet

OutRead ==
    /\ tk.pc = "read"
    /\ tk' = [tk EXCEPT !.pc = "move", !.r = cursor[tk.c]]
    /\ UNCHANGED <<cursor, start, vmem>> /\ OutQuiet

OutMove ==
    /\ tk.pc = "move"
    /\ tk' = [tk EXCEPT !.pc = "loop", !.r = 0]
    /\ cursor' = [cursor EXCEPT ![tk.c] = Moved(tk.c, tk.ch, tk.r)]
    /\ vmem' = IF tk.ch = "BS" THEN Painted(tk.c, Touched("BS", tk.vm)) ELSE vmem
    /\ UNCHANGED start /\ OutQuiet

\* The loop that scrolls until the cursor is on the screen.
OutLoop ==
    /\ tk.pc = "loop"
    /\ tk' = IF OffScreen(cursor[tk.c], start[tk.c]) THEN Scrolling(tk, tk.c, "SCR_DN", "loop")
             ELSE [tk EXCEPT !.pc = tk.then, !.vm = 0, !.then = "none", !.ret = "none"]
    /\ UNCHANGED <<cursor, start, vmem>> /\ OutQuiet

\* scroll_screen(): the check, then the start of the screen read and written.
ScrollCheck ==
    /\ tk.pc = "scrl"
    /\ tk' = IF CanScroll(tk.c, start[tk.c], tk.dir) THEN [tk EXCEPT !.pc = "scrr"]
             ELSE [tk EXCEPT !.pc = tk.ret, !.dir = "none"]
    /\ UNCHANGED <<cursor, start, vmem>> /\ OutQuiet

ScrollRead ==
    /\ tk.pc = "scrr"
    /\ tk' = [tk EXCEPT !.pc = "scrw", !.r = start[tk.c]]
    /\ UNCHANGED <<cursor, start, vmem>> /\ OutQuiet

ScrollWrite ==
    /\ tk.pc = "scrw"
    /\ start' = [start EXCEPT ![tk.c] = Scrolled(tk.r, tk.dir)]
    /\ tk' = [tk EXCEPT !.pc = tk.ret, !.r = 0, !.dir = "none"]
    /\ UNCHANGED <<cursor, vmem>> /\ OutQuiet

out_char == OutCheck \/ OutRead \/ OutMove \/ OutLoop \/ ScrollCheck \/ ScrollRead \/ ScrollWrite

-----------------------------------------------------------------------------
(* tty_dev_write(): echo, give to the reader, resume it. *)

\* The next character of the terminal read last; none left: the next terminal.
tty_dev_write ==
    /\ tk.pc = "drain"
    /\ LET t == tk.k
           q == tty[t]
           ch == Head(q.inbuf)
       IN  IF q.inbuf = <<>>
           THEN /\ tk' = TtyAt("scan", t + 1)
                /\ UNCHANGED <<tty, chars>>
           ELSE /\ tty' = [tty EXCEPT ![t].inbuf = Tail(@)]
                /\ chars' = IF q.left > 0 THEN [chars EXCEPT ![t] = Append(@, ch)] ELSE chars
                /\ tk' = CASE q.left > 0 /\ (ch \in Printable \/ (ch = "BS" /\ q.trans > 0))
                                  -> OutChar(t, ch, "store")
                           [] q.left > 0 /\ ch = "LF" -> OutChar(t, "LF", "resume")
                           [] OTHER -> tk
    /\ UNCHANGED <<kbVars, conVars>> /\ TtyQuiet

\* Mutant: a backspace does not give the place in the buffer back.
Advance_NoBack(ch) == IF ch = "BS" THEN 0 ELSE 1

\* How far a character moves the place in the reader's buffer.
Advance(ch) == IF ch = "BS" THEN -1 ELSE 1

\* The character goes to the place tty_trans_cnt in the reader's buffer, a
\* backspace frees the place before; the last character asked for ends the read.
tty_store ==
    /\ tk.pc = "store"
    /\ LET q == tty[tk.k]
           n == Advance(tk.ch)
       IN  /\ tty' = [tty EXCEPT ![tk.k] = [q EXCEPT !.trans = @ + n, !.left = @ - n]]
           /\ ubuf' = IF tk.ch = "BS" THEN ubuf
                      ELSE [ubuf EXCEPT ![q.procnr] = Append(SubSeq(@, 1, q.trans), tk.ch)]
           /\ tk' = IF q.left - n = 0 THEN OutChar(tk.k, "LF", "resume") ELSE TtyAt("drain", tk.k)
    /\ UNCHANGED <<has_int_msg, fs, fsq, call, halted, chars, lost, calls, prints, kbVars, conVars>>

\* RESUME_PROC to FS: blocks until FS receives; FS sending to TTY is a cycle.
tty_resume ==
    /\ tk.pc = "resume"
    /\ IF fs.pc = "send" THEN halted' = TRUE /\ UNCHANGED <<tk, fsq>>
       ELSE /\ tk' = TtyAt("sending", tk.k)
            /\ fsq' = Append(fsq, "TTY")
            /\ UNCHANGED halted
    /\ UNCHANGED <<tty, has_int_msg, fs, call, ubuf, chars, lost, calls, prints, kbVars, conVars>>

tty_resumed ==
    /\ tk.pc = "resumed"
    /\ tk' = TtyAt("drain", tk.k)
    /\ tty' = [tty EXCEPT ![tk.k].left = 0]
    /\ UNCHANGED <<chars, kbVars, conVars>> /\ TtyQuiet

-----------------------------------------------------------------------------
(* task_tty() receiving. *)

\* HARD_INT is received before any message; key_pressed is cleared a step later.
ReceiveInterrupt ==
    /\ tk.pc = "recv" /\ has_int_msg
    /\ has_int_msg' = FALSE
    /\ tk' = TtyAt("clear", 0)
    /\ UNCHANGED <<tty, fs, fsq, call, ioVars, kbVars, conVars>>

\* Mutant: key_pressed is not cleared.
ClearKeyPressed_Kept ==
    /\ tk.pc = "clear"
    /\ tk' = TtyAt("scan", 0)
    /\ UNCHANGED <<tty, chars, kbVars, conVars>> /\ TtyQuiet

ClearKeyPressed ==
    /\ tk.pc = "clear"
    /\ key_pressed' = FALSE
    /\ tk' = TtyAt("scan", 0)
    /\ UNCHANGED <<tty, chars, kb_in, mods, script, typed, dropped, conVars>> /\ TtyQuiet

\* tty_do_read() sets the terminal up for p, whatever it was doing before.
tty_do_read(t, p, n) ==
    /\ tty' = [tty EXCEPT ![t] = [@ EXCEPT !.procnr = p, !.left = n, !.trans = 0]]
    /\ chars' = [chars EXCEPT ![t] = <<>>]
    /\ lost' = IF tty[t].left > 0 THEN lost \cup {tty[t].procnr} ELSE lost

\* The request of FS, when no interrupt is waiting.
ReceiveRequest ==
    /\ tk.pc = "recv" /\ ~has_int_msg /\ fs.pc = "send"
    /\ LET req == call[fs.p]
       IN  /\ fs' = [fs EXCEPT !.pc = "wait", !.cnt = req.n,
                       !.reply = IF req.type = "READ" THEN "SUSPEND_PROC" ELSE "SYSCALL_RET"]
           /\ IF req.type = "READ" THEN tty_do_read(req.t, fs.p, req.n)
              ELSE UNCHANGED <<tty, chars, lost>>
           /\ tk' = IF req.type = "WRITE"
                    THEN [TtyAt("write", 0) EXCEPT !.c = req.t, !.out = req.bytes]
                    ELSE TtyAt("reply", 0)
    /\ UNCHANGED <<has_int_msg, fsq, call, ubuf, halted, calls, prints, kbVars, conVars>>

\* tty_do_write(): the caller's bytes one after the other.
tty_do_write ==
    /\ tk.pc = "write"
    /\ tk' = IF tk.out = <<>> THEN TtyAt("reply", 0)
             ELSE [OutChar(tk.c, Head(tk.out), "write") EXCEPT !.out = Tail(@)]
    /\ UNCHANGED <<tty, chars, kbVars, conVars>> /\ TtyQuiet

\* SEND to FS, which waits for it; then the loop starts again.
TtyReply ==
    /\ tk.pc = "reply"
    /\ fs' = [fs EXCEPT !.pc = "got"]
    /\ tk' = TtyAt("scan", 0)
    /\ UNCHANGED <<tty, has_int_msg, fsq, call, ioVars, kbVars, conVars>>

task_tty ==
    \/ tty_dev_read \/ keyboard_read \/ ReadE0 \/ ReadRest \/ set_leds \/ kb_ack
    \/ out_char
    \/ tty_dev_write \/ tty_store \/ tty_resume \/ tty_resumed
    \/ ReceiveInterrupt \/ ClearKeyPressed \/ ReceiveRequest \/ tty_do_write \/ TtyReply

-----------------------------------------------------------------------------
(* Interrupts and other processes. *)

\* clock_handler(): after a key, inform_int(TTY).
ClockTick ==
    /\ key_pressed /\ ~has_int_msg
    /\ has_int_msg' = TRUE
    /\ UNCHANGED <<tty, tk, fs, fsq, call, ioVars, kbVars, conVars>>

KeyInterrupt == keyboard_handler /\ UNCHANGED <<conVars, taskVars>>

\* printl() of some process or task.  With the cursor behind the last screen
\* the kernel does not leave the loop of out_char() any more.
Printx ==
    /\ prints # <<>>
    /\ prints' = Tail(prints)
    /\ LET c == Head(prints).c
       IN  sys_printx(c, Head(prints).ch) /\ halted' = OffScreen(cursor'[c], start'[c])
    /\ UNCHANGED <<tty, tk, has_int_msg, fs, fsq, call, ubuf, chars, lost, calls, kbVars>>

Next ==
    /\ ~halted
    /\ \/ \E p \in Proc : Call(p)
       \/ task_fs
       \/ task_tty
       \/ ClockTick
       \/ KeyInterrupt
       \/ Printx

\* The tasks and the clock go on; the keyboard finishes what it sends.
\* Processes need not call or print.
Spec ==
    /\ Init /\ [][Next]_vars
    /\ WF_vars(~halted /\ task_tty)
    /\ WF_vars(~halted /\ task_fs)
    /\ WF_vars(~halted /\ ClockTick)
    /\ WF_vars(~halted /\ KeyInterrupt)

-----------------------------------------------------------------------------
(* Properties. *)

TypeOK ==
    /\ kb_in.head \in 0..(KB_IN_BYTES - 1) /\ kb_in.tail \in 0..(KB_IN_BYTES - 1)
    /\ kb_in.count \in 0..KB_IN_BYTES
    /\ mods \in [Modifiers \cup Locks -> BOOLEAN]
    /\ {key_pressed, dropped, has_int_msg, halted} \subseteq BOOLEAN
    /\ nr_current_console \in Consoles
    /\ \A t \in Consoles : /\ tty[t].procnr \in Proc \cup {"none"}
                          /\ tty[t].left \in Nat /\ tty[t].trans \in Nat
                          /\ Len(tty[t].inbuf) <= 1
    /\ tk.pc \in {"scan", "e0", "pause", "print", "code", "ack1", "leds", "ack2", "drain", "check", "read", "move", "loop",
                  "scrl", "scrr", "scrw", "store", "resume", "sending", "resumed", "recv", "clear", "write",
                  "reply"}
    /\ tk.k \in 0..NR_CONSOLES
    /\ fs.pc \in {"recv", "call", "send", "wait", "got"}
    /\ fs.pc = "wait" => tk.pc = "reply" \/ tk.pc = "write" \/ tk.then = "write"
    /\ \A p \in Proc : call[p].st \in {"ready", "sending", "waiting"}
    /\ lost \subseteq Proc

\* The keys that are down once the keyboard has sent whole events only.
Down(key) ==
    LET sent == {i \in 1..(typed.event - 1) : script[i].key = key}
    IN  sent # {} /\ script[CHOOSE i \in sent : \A j \in sent : j <= i].make

\* The decoder has consumed every code and stands between two keys.
DecoderIdle ==
    kb_in.count = 0 /\ typed.byte = 1 /\ tk.pc \notin {"e0", "pause", "print"} /\ ~dropped

\* The handler fills the ring while keyboard_read() takes codes one by one,
\* and E0 and E1 sequences are split over several of them: as long as no code
\* was lost, whenever the reader has caught up the modifiers it keeps are the
\* keys that are down (keyboard.c:42-56, 88-319).  Alt is only kept right when
\* one of the two Alt keys is used: both are entered as the left one.
ModifiersMatchKeys ==
    DecoderIdle =>
      /\ \A m \in {"SHIFT_L", "SHIFT_R", "CTRL_L", "CTRL_R"} : mods[m] = Down(m)
      /\ (\A i \in 1..Len(script) : script[i].key # "ALT_R")
            => mods["ALT_L"] = Down("ALT_L")
      /\ (\A i \in 1..Len(script) : script[i].key # "ALT_L")
            => (mods["ALT_L"] \/ mods["ALT_R"]) = Down("ALT_R")

\* TTY is ending the read of terminal t: the reader is about to be resumed.
Ending(t) ==
    /\ tk.k = t
    /\ tk.then = "resume" \/ tk.pc \in {"resume", "sending"}

\* Terminal t has a reader, which FS has not yet been told to resume.
Reading(t) == Ending(t) \/ (tty[t].left > 0 /\ ~(tk.pc = "resumed" /\ tk.k = t))

\* A reader FS does not answer is not forgotten: TTY has its request, or is
\* ending it, or FS is dealing with it (tty.c:354-366, 164-200, fs/main.c:51-76).
\* Two readers are lost for good: one whose request another read of the same
\* terminal has overwritten, and one that asked for no bytes at all.
SuspendedReaderKnown ==
    \A p \in Proc :
      call[p].st = "waiting" /\ call[p].type = "READ" =>
        \/ fs.pc # "recv" /\ fs.p = p
        \/ \E t \in Consoles : tty[t].procnr = p /\ Reading(t)
        \/ p \in lost \/ call[p].n = 0

\* Reference: the line that results from typing a sequence of characters.
Edited(s) ==
    LET line[i \in 0..Len(s)] ==
          IF i = 0 THEN <<>>
          ELSE IF s[i] \in Printable THEN Append(line[i - 1], s[i])
          ELSE IF s[i] = "BS" /\ line[i - 1] # <<>>
               THEN SubSeq(line[i - 1], 1, Len(line[i - 1]) - 1)
          ELSE line[i - 1]
    IN  line[Len(s)]

\* tty_dev_write() writes characters into the buffer of a process that is
\* suspended, takes them back for backspaces and counts down what is wanted:
\* between two characters the buffer holds the edited line, the counters add
\* up to what was asked for, a read is ended by a line feed or a full buffer,
\* never later, and the length FS answers with is that of the line
\* (tty.c:164-200, fs/main.c:51-53).
LineDelivered ==
    /\ \A t \in Consoles :
         LET p == tty[t].procnr IN
           Reading(t) =>
             /\ tty[t].trans + tty[t].left = call[p].n
             /\ tk.pc \in {"scan", "recv", "resume", "sending"} =>
                  /\ SubSeq(ubuf[p], 1, tty[t].trans) = Edited(chars[t])
                  /\ (\E i \in DOMAIN chars[t] : chars[t][i] = "LF") => Ending(t)
    /\ fs.pc = "got" /\ fs.reply = "RESUME_PROC" =>
         SubSeq(ubuf[fs.p], 1, fs.cnt) = Edited(chars[call[fs.p].t])

\* TTY waits in get_byte_from_kbuf() for the rest of a key that was dropped, or
\* in kb_ack() for an ACK that came and has been replaced by the next code, or it
\* scrolls in out_char() for a cursor that the last screen does not reach.
Spinning ==
    \/ /\ tk.pc \in {"ack1", "ack2"} /\ Port # KB_ACK
       /\ \A i \in typed.event..Len(script) : script[i] # Ack
    \/ dropped /\ tk.pc \in {"e0", "pause", "print"}
    \/ /\ tk.pc \in {"loop", "scrl"}
       /\ OffScreen(cursor[tk.c], start[tk.c]) /\ ~CanScroll(tk.c, start[tk.c], "SCR_DN")

\* What is under way is finished: again and again there is a moment at which
\* every key pressed has woken TTY (clock.c:29-31, tty.c:74-80), every call of
\* a process has been taken by FS and passed on, and every reader whose line is
\* complete runs again (fs/main.c:51-53, 77-81).  Four things end this for good:
\* deadlock() halts the system when FS and TTY send to each other; TTY, and FS
\* with it, spins when a code of a longer sequence was lost, and when the
\* handler has read a key after the ACK kb_ack() waits for (keyboard.c:334-339);
\* and TTY or the kernel spins when the cursor was moved off the last screen
\* (console.c:83).
EventsServed ==
    []<>(\/ /\ tk.pc = "recv" /\ ~has_int_msg /\ ~key_pressed
            /\ fs.pc = "recv" /\ fsq = <<>>
         \/ halted
         \/ Spinning)
=============================================================================
