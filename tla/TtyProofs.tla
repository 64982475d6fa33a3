----------------------------- MODULE TtyProofs -----------------------------
(***************************************************************************)
(* Proofs about Tty: the terminals for any number and size of consoles,    *)
(* any keyboard, any processes and whatever they call, print and type.     *)
(***************************************************************************)
EXTENDS Tty, WellFoundedInduction, TLAPS

OutPcs == {"check", "read", "move", "loop"}
ScrollPcs == {"scrl", "scrr", "scrw"}
KeyPcs == {"e0", "pause", "print"}
LedPcs == {"code", "ack1", "leds", "ack2"}
EndPcs == {"resume", "sending"}
TaskPcs == {"scan", "drain", "store", "resumed", "recv", "clear", "write", "reply"}
               \cup OutPcs \cup ScrollPcs \cup KeyPcs \cup LedPcs \cup EndPcs

\* TTY is inside out_char(), or in a scroll_screen() that a key asked for.
Putting == tk.pc \in OutPcs \/ (tk.pc \in ScrollPcs /\ tk.ret = "loop")
KeyScroll == tk.pc \in ScrollPcs /\ tk.ret = "drain"

\* TTY works for the terminal tk.k.
AtTerminal ==
    \/ tk.pc \in {"drain", "store", "resumed"} \cup KeyPcs \cup LedPcs \cup EndPcs
    \/ tk.then \in {"store", "resume"}
    \/ KeyScroll

TaskRecord ==
    tk = [pc |-> tk.pc, k |-> tk.k, scan |-> tk.scan, want |-> tk.want, then |-> tk.then,
          ret |-> tk.ret, dir |-> tk.dir, c |-> tk.c, ch |-> tk.ch, vm |-> tk.vm, r |-> tk.r,
          out |-> tk.out]

\* Where task TTY goes on, and that it names a console where it uses one.
TaskSound ==
    /\ TaskRecord
    /\ tk.pc \in TaskPcs
    /\ tk.k \in 0..NR_CONSOLES
    /\ tk.pc \in ScrollPcs => tk.ret \in {"loop", "drain"}
    /\ IF Putting THEN tk.then \in {"store", "resume", "write"} ELSE tk.then = "none"
    /\ Putting \/ KeyScroll \/ tk.pc = "write" => tk.c \in Consoles
    /\ AtTerminal => tk.k \in Consoles

Terminal == [inbuf : Seq(Bytes), procnr : Proc \cup {"none"}, left : Nat, trans : Nat]

\* A terminal holds a character only from the key that made it to the loop that
\* takes it, and a count only for a reader.
TerminalsSound ==
    /\ tty \in [Consoles -> Terminal]
    /\ \A t \in Consoles :
         /\ Len(tty[t].inbuf) <= 1
         /\ tty[t].inbuf # <<>> => tk.k = t /\ (tk.pc = "drain" \/ KeyScroll)
         /\ tty[t].left > 0 => tty[t].procnr \in Proc
    /\ tk.pc = "store" \/ tk.then = "store" =>
         tty[tk.k].left > 0 /\ (tk.ch = "BS" => tty[tk.k].trans > 0)
    /\ Ending(tk.k) => tty[tk.k].procnr \in Proc

Calls == [type : {"none", "READ", "WRITE", "OPEN"}, t : Consoles, n : Nat, bytes : Seq(Bytes),
          st : {"ready", "sending", "waiting"}]
FsState == [pc : {"recv", "call", "send", "wait", "got"}, p : Proc \cup {"none"},
            reply : {"none", "RESUME_PROC", "SUSPEND_PROC", "SYSCALL_RET"}, cnt : Nat]

\* TTY is about to answer FS.
Answering == tk.pc \in {"reply", "write"} \/ tk.then = "write"

\* FS always knows for whom it works, and TTY waits in its queue at most once.
FsSound ==
    /\ fs \in FsState
    /\ fs.pc # "recv" => fs.p \in Proc
    /\ fs.pc = "wait" <=> Answering
    /\ call \in [Proc -> Calls]
    /\ calls \in [Proc -> Seq(Requests)]
    /\ lost \subseteq Proc
    /\ fsq \in Seq(Proc \cup {"TTY"})
    /\ \A i, j \in 1..Len(fsq) :
         fsq[i] = "TTY" => tk.pc = "sending" /\ (fsq[j] = "TTY" => i = j)

\* FS has the call of p, and will answer it or pass it on to TTY.
FsHas(p) ==
    /\ fs.pc # "recv" /\ fs.p = p
    /\ fs.pc \in {"wait", "got"} => fs.reply # "SUSPEND_PROC"

\* TTY has the read of p.
TtyHas(p) == \E t \in Consoles : tty[t].procnr = p /\ Reading(t)

ReadersKnown ==
    \A p \in Proc :
      call[p].st = "waiting" /\ call[p].type = "READ" =>
        FsHas(p) \/ TtyHas(p) \/ p \in lost \/ call[p].n = 0

KeyboardSound ==
    /\ kb_in = [buf |-> kb_in.buf, head |-> kb_in.head, tail |-> kb_in.tail, count |-> kb_in.count]
    /\ kb_in.head \in 0..(KB_IN_BYTES - 1) /\ kb_in.tail \in 0..(KB_IN_BYTES - 1)
    /\ kb_in.count \in 0..KB_IN_BYTES
    /\ mods \in [Modifiers \cup Locks -> BOOLEAN]
    /\ key_pressed \in BOOLEAN /\ dropped \in BOOLEAN /\ has_int_msg \in BOOLEAN
    /\ halted \in BOOLEAN
    /\ nr_current_console \in Consoles

-----------------------------------------------------------------------------
(* The consoles: what each place of out_char() and scroll_screen() relies on. *)

\* The room a character needed when it was checked, with the cursor at `at'
\* now: printx() may have used it up, but has not gone on.
StillRoom(c, ch, at) ==
    /\ at \in Int
    /\ IF ch = "BS" THEN Orig(c) < at /\ at < Orig(c) + V_MEM_LIMIT + SCR_WIDTH
       ELSE Orig(c) <= at /\ at < Orig(c) + V_MEM_LIMIT

\* The start of the screen, before and after a line was found to scroll by.
StartIn(c, st) ==
    /\ st \in Int
    /\ Orig(c) <= st /\ st + SCR_SIZE < Orig(c) + V_MEM_LIMIT + 2 * SCR_WIDTH
    /\ (st - Orig(c)) % SCR_WIDTH = 0

StillScrolls(c, direction, st) ==
    /\ StartIn(c, st)
    /\ IF direction = "SCR_UP" THEN st > Orig(c)
       ELSE st + SCR_SIZE < Orig(c) + V_MEM_LIMIT + SCR_WIDTH

InConsole(c, cur) == cur \in Int /\ Orig(c) <= cur /\ cur < Orig(c) + V_MEM_LIMIT + SCR_WIDTH

CellOf(cell, c) ==
    /\ c \in Int
    /\ Orig(c) - 1 <= cell /\ cell < Orig(c) + V_MEM_LIMIT + SCR_WIDTH - 1

Prints == [c : Consoles, ch : Bytes \ {"BS"}]

PlacesSound ==
    /\ cursor = [c \in Consoles |-> cursor[c]] /\ start = [c \in Consoles |-> start[c]]
    /\ \A c \in Consoles : InConsole(c, cursor[c]) /\ StartIn(c, start[c])
    /\ \A cell \in Cells : CellOf(cell, vmem[cell])
    /\ prints \in Seq(Prints)

OutSound ==
    /\ tk.pc = "check" => tk.vm \in Int /\ Orig(tk.c) <= tk.vm /\ tk.vm <= cursor[tk.c]
    /\ tk.pc \in {"read", "move"} /\ tk.ch = "BS" => InConsole(tk.c, tk.vm)
    /\ tk.pc = "read" => StillRoom(tk.c, tk.ch, cursor[tk.c])
    /\ tk.pc = "move" => StillRoom(tk.c, tk.ch, tk.r)
    /\ tk.pc = "scrr" => StillScrolls(tk.c, tk.dir, start[tk.c])
    /\ tk.pc = "scrw" => StillScrolls(tk.c, tk.dir, tk.r)

TInv == /\ TaskSound /\ TerminalsSound /\ FsSound /\ ReadersKnown /\ KeyboardSound
        /\ PlacesSound /\ OutSound

-----------------------------------------------------------------------------
(***************************************************************************)
(* Arithmetic of lines and cells                                           *)
(***************************************************************************)

LEMMA Sizes == /\ NR_CONSOLES \in Nat /\ NR_CONSOLES > 0
               /\ V_MEM_LIMIT \in Nat /\ V_MEM_LIMIT > 0
               /\ SCR_WIDTH \in Nat /\ SCR_WIDTH > 0
               /\ SCR_SIZE \in Nat /\ 2 * SCR_WIDTH <= SCR_SIZE /\ SCR_SIZE < V_MEM_LIMIT
  BY ConsoleAssumption

(* A set of natural numbers that is not empty has a least element. *)
LEMMA LeastNat ==
    ASSUME NEW T \in SUBSET Nat, T # {}
    PROVE  \E x \in T : \A y \in T : x <= y
  <1>1. PICK x \in T : \A y \in T : ~(<<y, x>> \in OpToRel(<, Nat))
    BY NatLessThanWellFounded, WFMin
  <1>2. \A y \in T : ~(y < x)
    BY <1>1 DEF OpToRel
  <1> QED  BY <1>2

(* A bounded one has a greatest. *)
LEMMA GreatestNat ==
    ASSUME NEW n \in Nat, NEW T \in SUBSET (1..n), T # {}
    PROVE  \E x \in T : \A y \in T : y <= x
  <1>1. PICK S : S = {n - x : x \in T}
    OBVIOUS
  <1>2. S \in SUBSET Nat /\ S # {}
    <2>1. \A x \in T : x \in 1..n /\ n - x \in Nat
      OBVIOUS
    <2> QED  BY <1>1, <2>1
  <1>3. PICK z \in S : \A y \in S : z <= y
    BY <1>2, LeastNat
  <1>4. PICK x \in T : z = n - x
    BY <1>1, <1>3
  <1>5. \A y \in T : n - x <= n - y
    BY <1>1, <1>3, <1>4
  <1> QED  BY <1>5

(* The beginning of the line that place x is on. *)
LEMMA LineOf ==
    ASSUME NEW x \in Nat
    PROVE  /\ SCR_WIDTH * ((x \div SCR_WIDTH) + 1) \in Nat
           /\ x < SCR_WIDTH * ((x \div SCR_WIDTH) + 1)
           /\ SCR_WIDTH * ((x \div SCR_WIDTH) + 1) <= x + SCR_WIDTH
  <1> DEFINE q == x \div SCR_WIDTH
  <1>1. q \in Nat /\ SCR_WIDTH * q <= x /\ x < SCR_WIDTH * q + SCR_WIDTH
    BY Sizes
  <1> HIDE DEF q
  <1>2. SCR_WIDTH * (q + 1) = SCR_WIDTH * q + SCR_WIDTH
    BY <1>1, Sizes
  <1>3. SCR_WIDTH * q \in Nat
    BY <1>1, Sizes
  <1>4. /\ SCR_WIDTH * (q + 1) \in Nat /\ x < SCR_WIDTH * (q + 1)
        /\ SCR_WIDTH * (q + 1) <= x + SCR_WIDTH
    BY <1>1, <1>2, <1>3, Sizes
  <1> QED  BY <1>4 DEF q

LEMMA WholeLines ==
    ASSUME NEW x \in Int, NEW n \in Int, x % SCR_WIDTH = 0
    PROVE  (x + n * SCR_WIDTH) % SCR_WIDTH = 0
  <1> DEFINE q == x \div SCR_WIDTH
  <1>1. q \in Int /\ x = SCR_WIDTH * q
    BY Sizes
  <1> HIDE DEF q
  <1>2. x + n * SCR_WIDTH = SCR_WIDTH * (q + n) /\ q + n \in Int
    BY <1>1, Sizes
  <1>3. ASSUME NEW y \in Int, NEW m \in Int, y = SCR_WIDTH * m PROVE y % SCR_WIDTH = 0
    BY <1>3, Sizes
  <1>4. n * SCR_WIDTH \in Int
    BY Sizes
  <1> QED  BY <1>2, <1>3, <1>4

LEMMA OneLine ==
    ASSUME NEW x \in Int, x % SCR_WIDTH = 0
    PROVE  /\ (x + SCR_WIDTH) % SCR_WIDTH = 0
           /\ (x - SCR_WIDTH) % SCR_WIDTH = 0
           /\ x > 0 => x >= SCR_WIDTH
  <1>1. (x + 1 * SCR_WIDTH) % SCR_WIDTH = 0 /\ (x + (-1) * SCR_WIDTH) % SCR_WIDTH = 0
    BY WholeLines
  <1>2. 1 * SCR_WIDTH = SCR_WIDTH /\ x + (-1) * SCR_WIDTH = x - SCR_WIDTH
    BY Sizes
  <1>3. x > 0 => x >= SCR_WIDTH
    BY Sizes
  <1> QED  BY <1>1, <1>2, <1>3

LEMMA OrigInt == \A c \in Int : Orig(c) \in Int
  BY Sizes DEF Orig

LEMMA ConsolesInt == Consoles \subseteq Int /\ 0 \in Consoles /\ \A t \in Consoles : t + 1 \in 0..NR_CONSOLES
  BY Sizes DEF Consoles

(* Where the loop of out_char() in the kernel leaves the start of the screen. *)
LEMMA ScrolledToSound ==
    ASSUME NEW c \in Consoles, NEW cur \in Int, StartIn(c, start[c])
    PROVE  /\ StartIn(c, ScrolledTo(c, cur))
           /\ start[c] <= ScrolledTo(c, cur)
           /\ start[c] + SCR_SIZE < Orig(c) + V_MEM_LIMIT + SCR_WIDTH =>
                ScrolledTo(c, cur) + SCR_SIZE < Orig(c) + V_MEM_LIMIT + SCR_WIDTH
  <1> DEFINE At(lines) == start[c] + lines * SCR_WIDTH
             Goes(lines) == OffScreen(cur, At(lines)) /\ CanScroll(c, At(lines), "SCR_DN")
             Stops(lines) == ~Goes(lines) /\ \A before \in 0..(lines - 1) : Goes(before)
             n == CHOOSE lines \in 0..V_MEM_LIMIT : Stops(lines)
             S == {lines \in Nat : ~Goes(lines)}
  <1>1. c \in Int /\ Orig(c) \in Int
    BY ConsolesInt, OrigInt
  <1>2. start[c] \in Int /\ start[c] >= Orig(c)
    BY DEF StartIn
  <1>3. \A k \in Nat : At(k) \in Int /\ At(k) >= start[c] /\ At(k + 1) = At(k) + SCR_WIDTH
    BY <1>2, Sizes
  <1>4. At(V_MEM_LIMIT) >= start[c] + V_MEM_LIMIT
    BY <1>2, Sizes
  <1>5. V_MEM_LIMIT \in S
    BY <1>1, <1>2, <1>4, <1>3, Sizes DEF CanScroll
  <1>6. PICK k \in S : \A y \in S : k <= y
    BY <1>5, LeastNat
  <1>7. k \in 0..V_MEM_LIMIT /\ Stops(k)
    BY <1>5, <1>6, Sizes
  <1>8. n \in 0..V_MEM_LIMIT /\ Stops(n)
    BY <1>7
  <1>9. ScrolledTo(c, cur) = At(n)
    BY DEF ScrolledTo
  <1> HIDE DEF n, S
  <1>10. (At(n) - Orig(c)) % SCR_WIDTH = 0
    <2>1. ((start[c] - Orig(c)) + n * SCR_WIDTH) % SCR_WIDTH = 0
      BY <1>1, <1>2, <1>8, WholeLines DEF StartIn
    <2>2. n * SCR_WIDTH \in Int
      BY <1>8, Sizes
    <2>3. (start[c] - Orig(c)) + n * SCR_WIDTH = At(n) - Orig(c)
      BY <1>1, <1>2, <2>2
    <2> QED  BY <2>1, <2>3
  <1>11. CASE n = 0
    <2>1. At(n) = start[c]
      BY <1>11, <1>2, Sizes
    <2> QED  BY <2>1, <1>9, <1>2
  <1>12. CASE n # 0
    <2>1. n - 1 \in Nat /\ n - 1 \in 0..(n - 1) /\ (n - 1) + 1 = n
      BY <1>8, <1>12
    <2>2. Goes(n - 1)
      BY <1>8, <2>1
    <2>3. At(n - 1) + SCR_SIZE < Orig(c) + V_MEM_LIMIT
      BY <2>2 DEF CanScroll
    <2>4. At(n) = At(n - 1) + SCR_WIDTH /\ At(n - 1) \in Int /\ At(n - 1) >= start[c]
      BY <2>1, <1>3
    <2> HIDE DEF At
    <2>5. At(n) \in Int /\ start[c] <= At(n) /\ At(n) + SCR_SIZE < Orig(c) + V_MEM_LIMIT + SCR_WIDTH
      BY <2>3, <2>4, <1>1, <1>2, Sizes
    <2> QED  BY <2>5, <1>9, <1>10, <1>1, <1>2, Sizes DEF StartIn
  <1> QED  BY <1>11, <1>12

-----------------------------------------------------------------------------
(***************************************************************************)
(* What a step of TTY leaves alone                                         *)
(***************************************************************************)

(* A step of TTY outside of its send to FS keeps FS's side, if FS is to be *)
(* answered after it as before.                                            *)
LEMMA FsSideKept ==
    ASSUME FsSound, UNCHANGED <<fs, call, calls, lost, fsq>>, tk.pc # "sending",
           Answering' <=> Answering
    PROVE  FsSound'
  <1>1. \A i \in 1..Len(fsq) : fsq[i] # "TTY"
    BY DEF FsSound
  <1> QED  BY <1>1 DEF FsSound

(* Readers stay known while their terminals go on reading. *)
LEMMA ReadersKept ==
    ASSUME ReadersKnown, UNCHANGED <<call, fs, lost>>,
           \A t \in Consoles : /\ tty'[t].procnr = tty[t].procnr
                               /\ Reading(t) => Reading(t)'
    PROVE  ReadersKnown'
  <1>1. \A p \in Proc : (FsHas(p) => FsHas(p)') /\ (TtyHas(p) => TtyHas(p)')
    BY DEF FsHas, TtyHas
  <1> QED  BY <1>1 DEF ReadersKnown

LEMMA KeyboardKept ==
    ASSUME KeyboardSound,
           UNCHANGED <<kb_in, mods, key_pressed, dropped, has_int_msg, halted, nr_current_console>>
    PROVE  KeyboardSound'
  BY DEF KeyboardSound

LEMMA PlacesKept ==
    ASSUME PlacesSound, UNCHANGED <<cursor, start, vmem, prints>>
    PROVE  PlacesSound'
  BY DEF PlacesSound, InConsole, StartIn, CellOf

(* A step inside out_char() or scroll_screen(), or the return from it: the  *)
(* terminal, the character and where TTY goes on afterwards are kept.       *)
LEMMA OutKeepsTerminals ==
    ASSUME TInv, TaskSound', OutQuiet, tk'.k = tk.k, tk'.ch = tk.ch,
           \/ Putting /\ Putting' /\ tk'.then = tk.then
           \/ Putting /\ tk'.pc = tk.then
           \/ KeyScroll /\ (KeyScroll' \/ tk'.pc = "drain")
    PROVE  TerminalsSound' /\ FsSound' /\ ReadersKnown' /\ KeyboardSound'
  <1>1. tk.pc \notin EndPcs \cup {"resumed", "store"}
    BY DEF Putting, KeyScroll, OutPcs, ScrollPcs, EndPcs
  <1>2. tk.then = "resume" \/ tk.then = "store" => Putting
    BY DEF TInv, TaskSound
  <1>3. \/ tk'.then = tk.then /\ tk'.pc \notin EndPcs \cup {"resumed", "store", "reply", "write"}
        \/ tk'.pc = tk.then /\ tk'.then = "none" /\ tk.then \in {"store", "resume", "write"}
    BY Zenon DEF TInv, TaskSound, Putting, KeyScroll, OutPcs, ScrollPcs, EndPcs
  <1>4. tk'.pc # "resumed"
    BY <1>3
  <1>5. TerminalsSound'
    <2>1. \A t \in Consoles : tty[t].inbuf # <<>> => tk'.k = t /\ (tk'.pc = "drain" \/ KeyScroll')
      BY DEF TInv, TerminalsSound, Putting, KeyScroll, OutPcs, ScrollPcs
    <2>2. (tk'.pc = "store" \/ tk'.then = "store") => tk.then = "store"
      BY <1>3
    <2>3. Ending(tk.k)' => Ending(tk.k)
      BY <1>3 DEF Ending, EndPcs
    <2>4. tty' = tty
      BY DEF OutQuiet
    <2> QED  BY <2>1, <2>2, <2>3, <2>4 DEF TInv, TerminalsSound, Ending
  <1>6. FsSound'
    <2>1. tk.pc # "sending"
      BY <1>1 DEF EndPcs
    <2>2. Answering' <=> Answering
      BY <1>3 DEF Answering, Putting, KeyScroll, OutPcs, ScrollPcs
    <2> QED  BY <2>1, <2>2, FsSideKept DEF TInv, OutQuiet, TtyQuiet
  <1>7. ReadersKnown'
    <2>1. \A t \in Consoles : Reading(t) => Reading(t)'
      BY <1>1, <1>3, <1>4 DEF Reading, Ending, EndPcs, OutQuiet
    <2> QED  BY <2>1, ReadersKept DEF TInv, OutQuiet, TtyQuiet
  <1>8. KeyboardSound'
    BY KeyboardKept DEF TInv, OutQuiet, TtyQuiet, kbVars
  <1> QED  BY <1>5, <1>6, <1>7, <1>8

-----------------------------------------------------------------------------
(***************************************************************************)
(* out_char() and scroll_screen(), step by step                            *)
(***************************************************************************)

(* Cells painted by the console they belong to. *)
LEMMA PaintedSound ==
    ASSUME PlacesSound, NEW c \in Consoles, NEW cells,
           \A cell \in cells \cap Cells : CellOf(cell, c)
    PROVE  \A cell \in Cells : CellOf(cell, Painted(c, cells)[cell])
  <1> HIDE DEF CellOf, Cells
  <1> QED BY DEF PlacesSound, Painted

(* TTY stays in out_char(), or in a scroll_screen() it was called for. *)
LEMMA StaysPutting ==
    ASSUME TInv, Putting, TaskRecord', Putting', tk'.k = tk.k, tk'.c = tk.c, tk'.then = tk.then
    PROVE  TaskSound'
  <1>1. tk'.pc \in TaskPcs /\ (tk'.pc \in ScrollPcs => tk'.ret \in {"loop", "drain"})
    BY DEF Putting, TaskPcs, OutPcs, ScrollPcs
  <1>2. AtTerminal' => AtTerminal
    BY DEF AtTerminal, Putting, KeyScroll, OutPcs, ScrollPcs, KeyPcs, LedPcs, EndPcs
  <1> QED  BY <1>1, <1>2 DEF TInv, TaskSound

LEMMA OutCheckInv == ASSUME TInv, OutCheck PROVE TInv'
  <1>1. tk.pc = "check" /\ tk.c \in Consoles /\ Putting /\ Orig(tk.c) \in Int /\ TaskRecord
    BY ConsolesInt, OrigInt DEF OutCheck, TInv, TaskSound, Putting, OutPcs
  <1>2. tk' = [tk EXCEPT !.pc = "read"] \/ tk' = [tk EXCEPT !.pc = "loop"]
    BY DEF OutCheck
  <1>3. /\ tk'.k = tk.k /\ tk'.c = tk.c /\ tk'.ch = tk.ch /\ tk'.vm = tk.vm /\ tk'.then = tk.then
        /\ TaskRecord' /\ tk'.pc \in {"read", "loop"}
    BY <1>1, <1>2 DEF TaskRecord
  <1>4. Putting' /\ TaskSound'
    BY <1>1, <1>3, StaysPutting DEF Putting, OutPcs
  <1>5. TerminalsSound' /\ FsSound' /\ ReadersKnown' /\ KeyboardSound'
    BY <1>1, <1>3, <1>4, OutKeepsTerminals DEF OutCheck
  <1>6. /\ tk.vm \in Int /\ Orig(tk.c) <= tk.vm /\ tk.vm <= cursor[tk.c]
        /\ InConsole(tk.c, cursor[tk.c])
    BY <1>1 DEF TInv, OutSound, PlacesSound
  <1>7. HasRoom(tk.c, tk.ch) => StillRoom(tk.c, tk.ch, cursor[tk.c])
    BY <1>1, <1>6, Sizes DEF HasRoom, StillRoom, InConsole
  <1>8. PlacesSound'
    <2>1. CASE HasRoom(tk.c, tk.ch) /\ tk.ch # "BS"
      <3>1. \A cell \in Touched(tk.ch, tk.vm) : CellOf(cell, tk.c)
        BY <2>1, <1>1, <1>6, <1>7, ConsolesInt, Sizes DEF Touched, CellOf, StillRoom
      <3>2. \A cell \in Cells : CellOf(cell, Painted(tk.c, Touched(tk.ch, tk.vm))[cell])
        BY <3>1, <1>1, PaintedSound DEF TInv
      <3>3. vmem' = Painted(tk.c, Touched(tk.ch, tk.vm)) /\ UNCHANGED <<cursor, start, prints>>
        BY <2>1 DEF OutCheck, OutQuiet, TtyQuiet
      <3> QED  BY <3>2, <3>3 DEF TInv, PlacesSound, InConsole, StartIn, CellOf
    <2>2. CASE ~(HasRoom(tk.c, tk.ch) /\ tk.ch # "BS")
      <3>1. UNCHANGED <<cursor, start, vmem, prints>>
        BY <2>2 DEF OutCheck, OutQuiet, TtyQuiet
      <3> QED  BY <3>1, PlacesKept DEF TInv
    <2> QED  BY <2>1, <2>2
  <1>9. OutSound'
    <2>1. cursor' = cursor /\ (tk'.pc = "read" => HasRoom(tk.c, tk.ch))
      BY <1>1, <1>3 DEF OutCheck, TaskRecord
    <2>2. InConsole(tk.c, tk.vm)
      BY <1>1, <1>6, Sizes DEF InConsole
    <2> QED  BY <1>3, <1>7, <2>1, <2>2 DEF OutSound, StillRoom, InConsole
  <1> QED  BY <1>4, <1>5, <1>8, <1>9 DEF TInv

LEMMA OutReadInv == ASSUME TInv, OutRead PROVE TInv'
  <1>1. tk.pc = "read" /\ Putting /\ TaskRecord /\ UNCHANGED <<cursor, start, vmem, prints>>
    BY DEF OutRead, OutQuiet, TtyQuiet, TInv, TaskSound, Putting, OutPcs
  <1>2. tk' = [tk EXCEPT !.pc = "move", !.r = cursor[tk.c]]
    BY DEF OutRead
  <1>3. /\ tk'.k = tk.k /\ tk'.c = tk.c /\ tk'.ch = tk.ch /\ tk'.vm = tk.vm /\ tk'.then = tk.then
        /\ TaskRecord' /\ tk'.pc = "move" /\ tk'.r = cursor[tk.c]
    BY <1>1, <1>2 DEF TaskRecord
  <1>4. Putting' /\ TaskSound'
    BY <1>1, <1>3, StaysPutting DEF Putting, OutPcs
  <1>5. TerminalsSound' /\ FsSound' /\ ReadersKnown' /\ KeyboardSound'
    BY <1>1, <1>3, <1>4, OutKeepsTerminals DEF OutRead
  <1>6. PlacesSound'
    BY <1>1, PlacesKept DEF TInv
  <1>7. OutSound'
    BY <1>1, <1>3 DEF TInv, OutSound, StillRoom, InConsole
  <1> QED  BY <1>4, <1>5, <1>6, <1>7 DEF TInv

LEMMA OutMoveInv == ASSUME TInv, OutMove PROVE TInv'
  <1>1. /\ tk.pc = "move" /\ tk.c \in Consoles /\ Putting /\ Orig(tk.c) \in Int /\ TaskRecord
        /\ start' = start /\ prints' = prints
    BY ConsolesInt, OrigInt DEF OutMove, OutQuiet, TtyQuiet, TInv, TaskSound, Putting, OutPcs
  <1>2. tk' = [tk EXCEPT !.pc = "loop", !.r = 0]
    BY DEF OutMove
  <1>3. /\ tk'.k = tk.k /\ tk'.c = tk.c /\ tk'.ch = tk.ch /\ tk'.then = tk.then
        /\ TaskRecord' /\ tk'.pc = "loop"
    BY <1>1, <1>2 DEF TaskRecord
  <1>4. Putting' /\ TaskSound'
    BY <1>1, <1>3, StaysPutting DEF Putting, OutPcs
  <1>5. TerminalsSound' /\ FsSound' /\ ReadersKnown' /\ KeyboardSound'
    BY <1>1, <1>3, <1>4, OutKeepsTerminals DEF OutMove
  <1>6. StillRoom(tk.c, tk.ch, tk.r) /\ (tk.ch = "BS" => InConsole(tk.c, tk.vm))
    BY <1>1 DEF TInv, OutSound
  <1>7. InConsole(tk.c, Moved(tk.c, tk.ch, tk.r))
    <2>1. CASE tk.ch = "LF"
      <3>1. tk.r - Orig(tk.c) \in Nat /\ tk.r - Orig(tk.c) < V_MEM_LIMIT
        BY <1>1, <1>6, <2>1, Sizes DEF StillRoom
      <3>2. Moved(tk.c, "LF", tk.r) = Orig(tk.c) + SCR_WIDTH * (((tk.r - Orig(tk.c)) \div SCR_WIDTH) + 1)
        BY DEF Moved
      <3> QED  BY <1>1, <2>1, <3>1, <3>2, LineOf, Sizes DEF InConsole
    <2>2. CASE tk.ch # "LF"
      BY <1>1, <1>6, <2>2, Sizes DEF InConsole, StillRoom, Moved
    <2> QED  BY <2>1, <2>2
  <1>8. PlacesSound'
    <2>1. \A cell \in Cells : CellOf(cell, vmem'[cell])
      <3>1. CASE tk.ch = "BS"
        <4>1. \A cell \in Touched("BS", tk.vm) : CellOf(cell, tk.c)
          BY <3>1, <1>1, <1>6, ConsolesInt, Sizes DEF Touched, CellOf, InConsole
        <4> QED  BY <3>1, <4>1, <1>1, PaintedSound DEF OutMove, TInv
      <3>2. CASE tk.ch # "BS"
        BY <3>2 DEF OutMove, TInv, PlacesSound, CellOf
      <3> QED  BY <3>1, <3>2
    <2>2. cursor' = [cursor EXCEPT ![tk.c] = Moved(tk.c, tk.ch, tk.r)]
      BY DEF OutMove
    <2>3. cursor' = [c \in Consoles |-> cursor'[c]] /\ \A c \in Consoles : InConsole(c, cursor'[c])
      BY <1>1, <1>7, <2>2 DEF TInv, PlacesSound
    <2> QED  BY <1>1, <2>1, <2>3 DEF TInv, PlacesSound, InConsole, StartIn, CellOf
  <1>9. OutSound'
    BY <1>3 DEF OutSound
  <1> QED  BY <1>4, <1>5, <1>8, <1>9 DEF TInv

LEMMA OutLoopInv == ASSUME TInv, OutLoop PROVE TInv'
  <1>1. tk.pc = "loop" /\ Putting /\ TaskRecord /\ UNCHANGED <<cursor, start, vmem, prints>>
    BY DEF OutLoop, OutQuiet, TtyQuiet, TInv, TaskSound, Putting, OutPcs
  <1>2. PlacesSound'
    BY <1>1, PlacesKept DEF TInv
  <1>3. CASE OffScreen(cursor[tk.c], start[tk.c])
    <2>1. tk' = [tk EXCEPT !.pc = "scrl", !.c = tk.c, !.dir = "SCR_DN", !.ret = "loop"]
      BY <1>3 DEF OutLoop, Scrolling
    <2>2. /\ tk'.k = tk.k /\ tk'.c = tk.c /\ tk'.ch = tk.ch /\ tk'.then = tk.then
          /\ TaskRecord' /\ tk'.pc = "scrl" /\ tk'.ret = "loop"
      BY <1>1, <2>1 DEF TaskRecord
    <2>3. Putting' /\ TaskSound'
      BY <1>1, <2>2, StaysPutting DEF Putting, OutPcs, ScrollPcs
    <2>4. TerminalsSound' /\ FsSound' /\ ReadersKnown' /\ KeyboardSound'
      BY <1>1, <2>2, <2>3, OutKeepsTerminals DEF OutLoop
    <2> QED  BY <1>2, <2>2, <2>3, <2>4 DEF TInv, OutSound
  <1>4. CASE ~OffScreen(cursor[tk.c], start[tk.c])
    <2>1. tk' = [tk EXCEPT !.pc = tk.then, !.vm = 0, !.then = "none", !.ret = "none"]
      BY <1>4 DEF OutLoop
    <2>2. /\ tk'.k = tk.k /\ tk'.c = tk.c /\ tk'.ch = tk.ch /\ tk'.then = "none"
          /\ TaskRecord' /\ tk'.pc = tk.then
      BY <1>1, <2>1 DEF TaskRecord
    <2>3. tk.then \in {"store", "resume", "write"}
      BY <1>1 DEF TInv, TaskSound
    <2>4. TaskSound'
      BY <1>1, <2>2, <2>3 DEF TInv, TaskSound, Putting, KeyScroll, AtTerminal, TaskPcs, OutPcs,
             ScrollPcs, KeyPcs, LedPcs, EndPcs
    <2>5. TerminalsSound' /\ FsSound' /\ ReadersKnown' /\ KeyboardSound'
      BY <1>1, <2>2, <2>4, OutKeepsTerminals DEF OutLoop
    <2> QED  BY <1>2, <2>2, <2>3, <2>4, <2>5 DEF TInv, OutSound
  <1> QED  BY <1>3, <1>4

(* A step of scroll_screen(), or the return from it. *)
LEMMA ScrollKeepsTask ==
    ASSUME TInv, tk.pc \in ScrollPcs, OutQuiet, TaskRecord', tk'.k = tk.k, tk'.c = tk.c,
           tk'.ch = tk.ch, tk'.then = tk.then, tk'.ret = tk.ret,
           tk'.pc \in ScrollPcs \/ tk'.pc = tk.ret
    PROVE  TaskSound' /\ TerminalsSound' /\ FsSound' /\ ReadersKnown' /\ KeyboardSound'
  <1>1. tk.ret \in {"loop", "drain"}
    BY DEF TInv, TaskSound
  <1>2. CASE tk.ret = "loop"
    <2>1. Putting /\ Putting'
      BY <1>2 DEF Putting, OutPcs
    <2>2. TaskSound'
      BY <2>1, StaysPutting
    <2> QED  BY <2>1, <2>2, OutKeepsTerminals
  <1>3. CASE tk.ret = "drain"
    <2>1. KeyScroll /\ ~Putting /\ ~Putting'
      BY <1>3 DEF KeyScroll, Putting, OutPcs, ScrollPcs
    <2>2. KeyScroll' \/ tk'.pc = "drain"
      BY <1>3 DEF KeyScroll
    <2>3. TaskSound'
      BY <1>3, <2>1, <2>2 DEF TInv, TaskSound, KeyScroll, AtTerminal, TaskPcs
    <2> QED  BY <2>1, <2>2, <2>3, OutKeepsTerminals
  <1> QED  BY <1>1, <1>2, <1>3

LEMMA ScrollCheckInv == ASSUME TInv, ScrollCheck PROVE TInv'
  <1>1. /\ tk.pc \in ScrollPcs /\ TaskRecord /\ UNCHANGED <<cursor, start, vmem, prints>>
        /\ tk.c \in Consoles /\ tk.ret \in {"loop", "drain"}
    BY DEF ScrollCheck, OutQuiet, TtyQuiet, TInv, TaskSound, Putting, KeyScroll, ScrollPcs
  <1>2. IF CanScroll(tk.c, start[tk.c], tk.dir) THEN tk' = [tk EXCEPT !.pc = "scrr"]
        ELSE tk' = [tk EXCEPT !.pc = tk.ret, !.dir = "none"]
    BY DEF ScrollCheck
  <1>3. /\ tk'.k = tk.k /\ tk'.c = tk.c /\ tk'.ch = tk.ch /\ tk'.then = tk.then /\ tk'.ret = tk.ret
        /\ TaskRecord'
        /\ IF CanScroll(tk.c, start[tk.c], tk.dir) THEN tk'.pc = "scrr" /\ tk'.dir = tk.dir
           ELSE tk'.pc = tk.ret
    BY <1>1, <1>2 DEF TaskRecord
  <1>4. TaskSound' /\ TerminalsSound' /\ FsSound' /\ ReadersKnown' /\ KeyboardSound'
    BY <1>1, <1>3, ScrollKeepsTask DEF ScrollCheck, ScrollPcs
  <1>5. PlacesSound'
    BY <1>1, PlacesKept DEF TInv
  <1>6. CanScroll(tk.c, start[tk.c], tk.dir) => StillScrolls(tk.c, tk.dir, start[tk.c])
    <2>1. StartIn(tk.c, start[tk.c]) /\ Orig(tk.c) \in Int
      BY <1>1, ConsolesInt, OrigInt DEF TInv, PlacesSound
    <2> QED  BY <2>1, Sizes DEF CanScroll, StillScrolls, StartIn
  <1>7. OutSound'
    BY <1>1, <1>3, <1>6 DEF OutSound, StillScrolls, StartIn
  <1> QED  BY <1>4, <1>5, <1>7 DEF TInv

LEMMA ScrollReadInv == ASSUME TInv, ScrollRead PROVE TInv'
  <1>1. tk.pc = "scrr" /\ TaskRecord /\ UNCHANGED <<cursor, start, vmem, prints>>
    BY DEF ScrollRead, OutQuiet, TtyQuiet, TInv, TaskSound
  <1>2. tk' = [tk EXCEPT !.pc = "scrw", !.r = start[tk.c]]
    BY DEF ScrollRead
  <1>3. /\ tk'.k = tk.k /\ tk'.c = tk.c /\ tk'.ch = tk.ch /\ tk'.then = tk.then /\ tk'.ret = tk.ret
        /\ TaskRecord' /\ tk'.pc = "scrw" /\ tk'.dir = tk.dir /\ tk'.r = start[tk.c]
    BY <1>1, <1>2 DEF TaskRecord
  <1>4. TaskSound' /\ TerminalsSound' /\ FsSound' /\ ReadersKnown' /\ KeyboardSound'
    BY <1>1, <1>3, ScrollKeepsTask DEF ScrollRead, ScrollPcs
  <1>5. PlacesSound'
    BY <1>1, PlacesKept DEF TInv
  <1>6. OutSound'
    BY <1>1, <1>3 DEF TInv, OutSound, StillScrolls, StartIn
  <1> QED  BY <1>4, <1>5, <1>6 DEF TInv

LEMMA ScrollWriteInv == ASSUME TInv, ScrollWrite PROVE TInv'
  <1>1. /\ tk.pc = "scrw" /\ TaskRecord /\ UNCHANGED <<cursor, vmem, prints>>
        /\ tk.c \in Consoles /\ tk.ret \in {"loop", "drain"} /\ Orig(tk.c) \in Int
    BY ConsolesInt, OrigInt
       DEF ScrollWrite, OutQuiet, TtyQuiet, TInv, TaskSound, Putting, KeyScroll, ScrollPcs
  <1>2. tk' = [tk EXCEPT !.pc = tk.ret, !.r = 0, !.dir = "none"]
    BY DEF ScrollWrite
  <1>3. /\ tk'.k = tk.k /\ tk'.c = tk.c /\ tk'.ch = tk.ch /\ tk'.then = tk.then /\ tk'.ret = tk.ret
        /\ TaskRecord' /\ tk'.pc = tk.ret
    BY <1>1, <1>2 DEF TaskRecord
  <1>4. TaskSound' /\ TerminalsSound' /\ FsSound' /\ ReadersKnown' /\ KeyboardSound'
    BY <1>1, <1>3, ScrollKeepsTask DEF ScrollWrite, ScrollPcs
  <1>5. StartIn(tk.c, Scrolled(tk.r, tk.dir))
    <2>1. StillScrolls(tk.c, tk.dir, tk.r)
      BY <1>1 DEF TInv, OutSound
    <2>2. tk.r \in Int /\ (tk.r - Orig(tk.c)) % SCR_WIDTH = 0
      BY <2>1 DEF StillScrolls, StartIn
    <2>3. /\ ((tk.r - Orig(tk.c)) + SCR_WIDTH) % SCR_WIDTH = 0
          /\ ((tk.r - Orig(tk.c)) - SCR_WIDTH) % SCR_WIDTH = 0
          /\ tk.r > Orig(tk.c) => tk.r - Orig(tk.c) >= SCR_WIDTH
      BY <2>2, <1>1, OneLine
    <2>4. /\ (tk.r - Orig(tk.c)) + SCR_WIDTH = (tk.r + SCR_WIDTH) - Orig(tk.c)
          /\ (tk.r - Orig(tk.c)) - SCR_WIDTH = (tk.r - SCR_WIDTH) - Orig(tk.c)
      BY <2>2, <1>1, Sizes
    <2>5. CASE tk.dir = "SCR_UP"
      <3>1. /\ tk.r > Orig(tk.c) /\ Scrolled(tk.r, tk.dir) = tk.r - SCR_WIDTH
            /\ tk.r + SCR_SIZE < Orig(tk.c) + V_MEM_LIMIT + 2 * SCR_WIDTH
        BY <2>1, <2>5 DEF StillScrolls, StartIn, Scrolled
      <3>2. /\ tk.r - SCR_WIDTH \in Int /\ Orig(tk.c) <= tk.r - SCR_WIDTH
            /\ (tk.r - SCR_WIDTH) + SCR_SIZE < Orig(tk.c) + V_MEM_LIMIT + 2 * SCR_WIDTH
        BY <1>1, <2>2, <2>3, <3>1, Sizes
      <3> QED  BY <2>3, <2>4, <3>1, <3>2 DEF StartIn
    <2>6. CASE tk.dir # "SCR_UP"
      <3>1. /\ Scrolled(tk.r, tk.dir) = tk.r + SCR_WIDTH /\ Orig(tk.c) <= tk.r
            /\ tk.r + SCR_SIZE < Orig(tk.c) + V_MEM_LIMIT + SCR_WIDTH
        BY <2>1, <2>6 DEF StillScrolls, StartIn, Scrolled
      <3>2. /\ tk.r + SCR_WIDTH \in Int /\ Orig(tk.c) <= tk.r + SCR_WIDTH
            /\ (tk.r + SCR_WIDTH) + SCR_SIZE < Orig(tk.c) + V_MEM_LIMIT + 2 * SCR_WIDTH
        BY <1>1, <2>2, <3>1, Sizes
      <3> QED  BY <2>3, <2>4, <3>1, <3>2 DEF StartIn
    <2> QED  BY <2>5, <2>6
  <1>6. PlacesSound'
    <2>1. start' = [start EXCEPT ![tk.c] = Scrolled(tk.r, tk.dir)]
      BY DEF ScrollWrite
    <2>2. start' = [c \in Consoles |-> start'[c]] /\ \A c \in Consoles : StartIn(c, start'[c])
      BY <1>1, <1>5, <2>1 DEF TInv, PlacesSound
    <2> QED  BY <1>1, <2>2 DEF TInv, PlacesSound, InConsole, StartIn, CellOf
  <1>7. OutSound'
    BY <1>1, <1>3 DEF OutSound
  <1> QED  BY <1>4, <1>6, <1>7 DEF TInv

-----------------------------------------------------------------------------
(***************************************************************************)
(* printx(), the interrupts, the processes and FS                          *)
(***************************************************************************)

(* A step that is not TTY's keeps what depends on tk and tty only. *)
LEMMA TaskKept ==
    ASSUME TInv, UNCHANGED <<tk, tty>>
    PROVE  TaskSound' /\ TerminalsSound'
  <1>1. TaskSound'
    BY DEF TInv, TaskSound, TaskRecord, Putting, KeyScroll, AtTerminal
  <1>2. TerminalsSound'
    BY DEF TInv, TerminalsSound, Ending, KeyScroll
  <1> QED  BY <1>1, <1>2

LEMMA OutKept ==
    ASSUME TInv, UNCHANGED <<tk, cursor, start>>
    PROVE  OutSound'
  BY DEF TInv, OutSound, StillRoom, StillScrolls, StartIn, InConsole

(* The reading terminals are the same when TTY does nothing. *)
LEMMA ReadingKept ==
    ASSUME UNCHANGED <<tk, tty>>
    PROVE  \A t \in Consoles : Reading(t)' <=> Reading(t)
  BY DEF Reading, Ending

(* printx() uses up room and scrolls on, but never goes back. *)
LEMMA PrintxInv == ASSUME TInv, Printx PROVE TInv'
  <1> DEFINE c == Head(prints).c
             ch == Head(prints).ch
             cur == IF HasRoom(c, ch) THEN Moved(c, ch, cursor[c]) ELSE cursor[c]
  <1>1. /\ c \in Consoles /\ ch # "BS" /\ prints' \in Seq(Prints)
    <2>1. prints \in Seq(Prints) /\ prints # <<>>
      BY DEF TInv, PlacesSound, Printx
    <2>2. Head(prints) \in Prints /\ Tail(prints) \in Seq(Prints)
      BY <2>1
    <2> QED  BY <2>2 DEF Prints, Printx
  <1>2. /\ cursor' = [cursor EXCEPT ![c] = cur]
        /\ vmem' = IF HasRoom(c, ch) THEN Painted(c, Touched(ch, cursor[c])) ELSE vmem
        /\ start' = [start EXCEPT ![c] = ScrolledTo(c, cur)]
        /\ UNCHANGED nr_current_console
        /\ halted' = OffScreen(cursor'[c], start'[c])
    BY DEF Printx, sys_printx
  <1>3. UNCHANGED <<tty, tk, has_int_msg, fs, fsq, call, lost, calls, kb_in, mods, key_pressed, dropped>>
    BY DEF Printx, kbVars
  <1> HIDE DEF c, ch
  <1>4. /\ c \in Int /\ Orig(c) \in Int /\ InConsole(c, cursor[c]) /\ StartIn(c, start[c])
        /\ cursor = [d \in Consoles |-> cursor[d]] /\ start = [d \in Consoles |-> start[d]]
    BY <1>1, ConsolesInt, OrigInt DEF TInv, PlacesSound
  <1>5. /\ cur \in Int /\ cursor[c] <= cur /\ InConsole(c, cur)
        /\ cursor[c] < Orig(c) + V_MEM_LIMIT => cur < Orig(c) + V_MEM_LIMIT
    <2>1. CASE HasRoom(c, ch) /\ ch = "LF"
      <3>1. cursor[c] - Orig(c) \in Nat /\ cursor[c] < Orig(c) + V_MEM_LIMIT - SCR_WIDTH
        BY <1>4, <2>1 DEF HasRoom, InConsole
      <3>2. cur = Orig(c) + SCR_WIDTH * (((cursor[c] - Orig(c)) \div SCR_WIDTH) + 1)
        BY <2>1 DEF Moved
      <3>3. PICK n \in Nat : /\ n = SCR_WIDTH * (((cursor[c] - Orig(c)) \div SCR_WIDTH) + 1)
                             /\ cursor[c] - Orig(c) < n
                             /\ n <= (cursor[c] - Orig(c)) + SCR_WIDTH
        BY <3>1, LineOf
      <3> HIDE DEF cur
      <3>4. cur = Orig(c) + n
        BY <3>2, <3>3
      <3>5. /\ cur \in Int /\ cursor[c] \in Int /\ cursor[c] < cur /\ cur < Orig(c) + V_MEM_LIMIT
            /\ Orig(c) <= cur
        BY <1>4, <3>1, <3>3, <3>4, Sizes DEF InConsole
      <3> QED  BY <1>4, <3>5, Sizes DEF InConsole
    <2>2. CASE HasRoom(c, ch) /\ ch # "LF"
      BY <1>1, <1>4, <2>2, Sizes, SMTT(20) DEF HasRoom, Moved, InConsole
    <2>3. CASE ~HasRoom(c, ch)
      BY <1>4, <2>3 DEF InConsole
    <2> QED  BY <2>1, <2>2, <2>3
  <1> HIDE DEF cur
  <1>6. /\ StartIn(c, ScrolledTo(c, cur)) /\ start[c] <= ScrolledTo(c, cur)
        /\ start[c] + SCR_SIZE < Orig(c) + V_MEM_LIMIT + SCR_WIDTH =>
             ScrolledTo(c, cur) + SCR_SIZE < Orig(c) + V_MEM_LIMIT + SCR_WIDTH
    BY <1>1, <1>4, <1>5, ScrolledToSound
  <1>7. /\ cursor' = [d \in Consoles |-> cursor'[d]] /\ start' = [d \in Consoles |-> start'[d]]
        /\ cursor'[c] = cur /\ start'[c] = ScrolledTo(c, cur)
        /\ \A d \in Consoles : d # c => cursor'[d] = cursor[d] /\ start'[d] = start[d]
    BY <1>1, <1>2, <1>4
  <1>8. PlacesSound'
    <2>1. \A d \in Consoles : InConsole(d, cursor'[d]) /\ StartIn(d, start'[d])
      BY <1>1, <1>5, <1>6, <1>7 DEF TInv, PlacesSound
    <2>2. \A cell \in Cells : CellOf(cell, vmem'[cell])
      <3>1. CASE HasRoom(c, ch)
        <4>1. \A cell \in Touched(ch, cursor[c]) : CellOf(cell, c)
          <5>1. CASE ch = "LF"
            BY <5>1 DEF Touched
          <5>2. CASE ch # "LF"
            <6>1. Touched(ch, cursor[c]) = {cursor[c]} /\ cursor[c] < Orig(c) + V_MEM_LIMIT - 1
              BY <3>1, <1>1, <5>2 DEF Touched, HasRoom
            <6>2. CellOf(cursor[c], c)
              BY <1>4, <6>1, Sizes DEF CellOf, InConsole
            <6> QED  BY <6>1, <6>2
          <5> QED  BY <5>1, <5>2
        <4> QED  BY <3>1, <4>1, <1>1, <1>2, PaintedSound DEF TInv
      <3>2. CASE ~HasRoom(c, ch)
        BY <3>2, <1>2 DEF TInv, PlacesSound, CellOf
      <3> QED  BY <3>1, <3>2
    <2> QED  BY <1>1, <1>7, <2>1, <2>2 DEF PlacesSound, InConsole, StartIn, CellOf
  <1>9. OutSound'
    <2>1. CASE tk.c = c
      <3>1. InConsole(tk.c, cursor[tk.c])' /\ StartIn(tk.c, start[tk.c])'
        BY <1>8, <1>1, <2>1, <1>3 DEF PlacesSound
      <3>2. tk.pc = "check" => tk.vm \in Int /\ Orig(tk.c) <= tk.vm /\ tk.vm <= cursor'[tk.c]
        BY <2>1, <1>4, <1>5, <1>7 DEF TInv, OutSound, InConsole
      <3>3. tk.pc = "read" => StillRoom(tk.c, tk.ch, cursor'[tk.c])
        BY <2>1, <1>4, <1>5, <1>7 DEF TInv, OutSound, StillRoom, InConsole
      <3>4. tk.pc = "scrr" => StillScrolls(tk.c, tk.dir, start'[tk.c])
        BY <2>1, <1>4, <1>6, <1>7 DEF TInv, OutSound, StillScrolls, StartIn
      <3> QED  BY <3>2, <3>3, <3>4, <1>3 DEF TInv, OutSound, StillRoom, StillScrolls, StartIn, InConsole
    <2>2. CASE tk.c # c
      <3>1. tk.pc \in {"check", "read", "move", "scrr", "scrw"} => tk.c \in Consoles
        BY DEF TInv, TaskSound, Putting, KeyScroll, OutPcs, ScrollPcs
      <3> QED  BY <2>2, <3>1, <1>7, <1>3
               DEF TInv, OutSound, StillRoom, StillScrolls, StartIn, InConsole
    <2> QED  BY <2>1, <2>2
  <1>10. TaskSound' /\ TerminalsSound'
    BY <1>3, TaskKept
  <1>11. FsSound'
    BY <1>3 DEF TInv, FsSound, Answering
  <1>12. ReadersKnown'
    BY <1>3, ReadingKept, ReadersKept DEF TInv
  <1>13. KeyboardSound'
    BY <1>2, <1>3 DEF TInv, KeyboardSound, OffScreen
  <1> QED  BY <1>8, <1>9, <1>10, <1>11, <1>12, <1>13 DEF TInv

LEMMA InterruptInv == ASSUME TInv, ClockTick \/ KeyInterrupt PROVE TInv'
  <1>1. UNCHANGED <<tty, tk, fs, fsq, call, lost, calls, prints, halted, mods, cursor, start, vmem,
                    nr_current_console>>
    BY DEF ClockTick, KeyInterrupt, keyboard_handler, taskVars, ioVars, conVars, kbVars
  <1>2. TaskSound' /\ TerminalsSound' /\ PlacesSound' /\ OutSound' /\ ReadersKnown'
    BY <1>1, TaskKept, PlacesKept, OutKept, ReadersKept, ReadingKept DEF TInv
  <1>3. FsSound'
    BY <1>1 DEF TInv, FsSound, Answering
  <1>4. KeyboardSound'
    <2>1. CASE ClockTick
      BY <2>1 DEF ClockTick, kbVars, conVars, ioVars, TInv, KeyboardSound
    <2>2. CASE KeyInterrupt
      <3>1. /\ has_int_msg' = has_int_msg /\ key_pressed' = TRUE
            /\ dropped' = dropped \/ dropped' = TRUE
        BY <2>2 DEF KeyInterrupt, keyboard_handler, taskVars
      <3>2. kb_in' = kb_in \/ (kb_in.count < KB_IN_BYTES /\
               kb_in' = [kb_in EXCEPT !.buf[kb_in.head] = EventCodes[typed.byte],
                                      !.head = Wrap(@), !.count = @ + 1])
        BY <2>2 DEF KeyInterrupt, keyboard_handler
      <3>3. Wrap(kb_in.head) \in 0..(KB_IN_BYTES - 1)
        BY KeyboardAssumption DEF TInv, KeyboardSound, Wrap
      <3>4. \/ kb_in' = kb_in
            \/ /\ kb_in.count < KB_IN_BYTES
               /\ kb_in' = [buf |-> kb_in'.buf, head |-> Wrap(kb_in.head), tail |-> kb_in.tail,
                            count |-> kb_in.count + 1]
        BY <3>2 DEF TInv, KeyboardSound
      <3>5. /\ kb_in' = [buf |-> kb_in'.buf, head |-> kb_in'.head, tail |-> kb_in'.tail,
                         count |-> kb_in'.count]
            /\ kb_in'.head \in 0..(KB_IN_BYTES - 1) /\ kb_in'.tail \in 0..(KB_IN_BYTES - 1)
            /\ kb_in'.count \in 0..KB_IN_BYTES
        BY <3>3, <3>4, KeyboardAssumption DEF TInv, KeyboardSound
      <3> QED  BY <3>1, <3>5, <1>1 DEF TInv, KeyboardSound
    <2> QED  BY <2>1, <2>2
  <1> QED  BY <1>2, <1>3, <1>4 DEF TInv

LEMMA CallInv == ASSUME TInv, NEW p \in Proc, Call(p) PROVE TInv'
  <1>1. /\ UNCHANGED <<tty, tk, has_int_msg, fs, halted, lost, prints, cursor, start, vmem,
                       nr_current_console, kb_in, mods, key_pressed, dropped>>
        /\ call' = [call EXCEPT ![p] = Head(calls[p])]
        /\ calls' = [calls EXCEPT ![p] = Tail(@)]
        /\ fsq' = Append(fsq, p) /\ calls[p] # <<>>
    BY DEF Call, conVars, kbVars
  <1>2. calls[p] \in Seq(Requests) /\ fsq \in Seq(Proc \cup {"TTY"})
    BY DEF TInv, FsSound
  <1>3. Head(calls[p]) \in Requests /\ Tail(calls[p]) \in Seq(Requests)
    BY <1>1, <1>2
  <1>4. Head(calls[p]) \in Calls /\ Head(calls[p]).st = "sending"
    BY <1>3 DEF Requests, Calls
  <1>5. TaskSound' /\ TerminalsSound' /\ PlacesSound' /\ OutSound' /\ KeyboardSound'
    BY <1>1, TaskKept, PlacesKept, OutKept, KeyboardKept DEF TInv
  <1>6. ReadersKnown'
    <2>1. \A q \in Proc : call'[q] = call[q] \/ call'[q].st = "sending"
      BY <1>1, <1>4 DEF TInv, FsSound
    <2>2. \A q \in Proc : (FsHas(q)' <=> FsHas(q)) /\ (TtyHas(q)' <=> TtyHas(q))
      BY <1>1, ReadingKept DEF FsHas, TtyHas
    <2> QED  BY <1>1, <2>1, <2>2 DEF TInv, ReadersKnown
  <1>7. FsSound'
    <2>1. call' \in [Proc -> Calls] /\ calls' \in [Proc -> Seq(Requests)]
      BY <1>1, <1>3, <1>4 DEF TInv, FsSound
    <2>2. p # "TTY"
      BY TtyAssumption
    <2>3. \A i \in 1..Len(fsq') : fsq'[i] = "TTY" => i \in 1..Len(fsq) /\ fsq[i] = "TTY"
      BY <1>1, <1>2, <2>2
    <2>4. fsq' \in Seq(Proc \cup {"TTY"})
      BY <1>1, <1>2
    <2> QED  BY <1>1, <2>1, <2>3, <2>4 DEF TInv, FsSound, Answering
  <1> QED  BY <1>5, <1>6, <1>7 DEF TInv

LEMMA FsReceiveInv == ASSUME TInv, FsReceive PROVE TInv'
  <1>1. /\ fs.pc = "recv" /\ fsq # <<>> /\ fsq' = Tail(fsq)
        /\ UNCHANGED <<tty, has_int_msg, halted, lost, calls, prints, cursor, start, vmem,
                       nr_current_console, kb_in, mods, key_pressed, dropped>>
    BY DEF FsReceive, ioVars, conVars, kbVars
  <1>2. PlacesSound' /\ KeyboardSound'
    BY <1>1, PlacesKept, KeyboardKept DEF TInv
  <1>3. /\ fsq \in Seq(Proc \cup {"TTY"}) /\ Head(fsq) \in Proc \cup {"TTY"}
        /\ Head(fsq) = fsq[1] /\ 1 \in 1..Len(fsq)
        /\ fsq' \in Seq(Proc \cup {"TTY"})
        /\ \A i \in 1..Len(fsq') : i + 1 \in 1..Len(fsq) /\ fsq'[i] = fsq[i + 1] /\ i + 1 # 1
    <2>1. fsq \in Seq(Proc \cup {"TTY"})
      BY DEF TInv, FsSound
    <2> QED  BY <2>1, <1>1
  <1>4. CASE Head(fsq) = "TTY"
    <2>1. /\ fs' = [pc |-> "got", p |-> tty[tk.k].procnr, reply |-> "RESUME_PROC",
                    cnt |-> tty[tk.k].trans]
          /\ tk' = [tk EXCEPT !.pc = "resumed"] /\ call' = call
      BY <1>4 DEF FsReceive
    <2>2. /\ tk.pc = "sending" /\ \A j \in 1..Len(fsq) : fsq[j] = "TTY" => 1 = j
      BY <1>3, <1>4 DEF TInv, FsSound
    <2>3. TaskRecord' /\ tk'.pc = "resumed" /\ tk'.k = tk.k /\ tk'.then = tk.then
      BY <2>1 DEF TInv, TaskSound, TaskRecord
    <2>4. tk.k \in Consoles /\ tk.then = "none" /\ tk.k \in 0..NR_CONSOLES
      BY <2>2 DEF TInv, TaskSound, AtTerminal, EndPcs, Putting, OutPcs, ScrollPcs
    <2>5. tty[tk.k].procnr \in Proc /\ tty[tk.k].trans \in Nat /\ tty \in [Consoles -> Terminal]
      BY <2>2, <2>4 DEF TInv, TerminalsSound, Ending, Terminal
    <2>6. TaskSound'
      BY <2>3, <2>4 DEF TaskSound, TaskPcs, Putting, KeyScroll, OutPcs, ScrollPcs
    <2>7. TerminalsSound'
      <3>1. \A t \in Consoles : tty[t].inbuf = <<>>
        BY <2>2 DEF TInv, TerminalsSound, KeyScroll, ScrollPcs
      <3> QED  BY <1>1, <2>3, <2>4, <3>1 DEF TInv, TerminalsSound, Ending
    <2>8. FsSound'
      <3>1. fs' \in FsState /\ fs'.pc = "got" /\ fs'.p \in Proc
        BY <2>1, <2>5 DEF FsState
      <3>2. \A i \in 1..Len(fsq') : fsq'[i] # "TTY"
        BY <1>3, <2>2
      <3>3. ~Answering'
        BY <2>3, <2>4 DEF Answering
      <3> QED  BY <1>1, <1>3, <2>1, <3>1, <3>2, <3>3 DEF TInv, FsSound
    <2>9. ReadersKnown'
      <3>1. \A t \in Consoles : t # tk.k => (Reading(t) => Reading(t)')
        BY <1>1, <2>2, <2>3 DEF Reading, Ending
      <3>2. \A p \in Proc : tty[tk.k].procnr = p => FsHas(p)'
        BY <2>1 DEF FsHas
      <3>3. \A p \in Proc : ~FsHas(p)
        BY <1>1 DEF FsHas
      <3>4. \A p \in Proc : TtyHas(p) => TtyHas(p)' \/ FsHas(p)'
        BY <1>1, <2>4, <3>1, <3>2 DEF TtyHas
      <3> QED  BY <1>1, <2>1, <3>3, <3>4 DEF TInv, ReadersKnown
    <2> QED  BY <1>2, <2>3, <2>6, <2>7, <2>8, <2>9 DEF TInv, OutSound
  <1>5. CASE Head(fsq) # "TTY"
    <2>0. PICK p \in Proc : p = Head(fsq)
      BY <1>3, <1>5
    <2>1. /\ fs' = [fs EXCEPT !.pc = "call", !.p = p] /\ tk' = tk
          /\ call' = [call EXCEPT ![p].st = "waiting"]
      BY <2>0, <1>5 DEF FsReceive
    <2>2. TaskSound' /\ TerminalsSound' /\ OutSound'
      BY <1>1, <2>1, TaskKept, OutKept
    <2>3. fs' \in FsState /\ fs'.pc = "call" /\ fs'.p = p
      BY <2>1 DEF TInv, FsSound, FsState
    <2>4. call' \in [Proc -> Calls] /\ \A q \in Proc : q # p => call'[q] = call[q]
      BY <2>1 DEF TInv, FsSound, Calls
    <2>5. FsSound'
      <3>1. \A i \in 1..Len(fsq') : fsq'[i] = "TTY" => tk'.pc = "sending"
        BY <1>3, <2>1 DEF TInv, FsSound
      <3>2. \A i, j \in 1..Len(fsq') : fsq'[i] = "TTY" /\ fsq'[j] = "TTY" => i = j
        <4>1. SUFFICES ASSUME NEW i \in 1..Len(fsq'), NEW j \in 1..Len(fsq'),
                              fsq'[i] = "TTY", fsq'[j] = "TTY"
                       PROVE  i = j
          OBVIOUS
        <4>2. i + 1 = j + 1
          BY <1>3, <4>1 DEF TInv, FsSound
        <4> QED  BY <4>2
      <3> QED  BY <1>1, <1>3, <2>1, <2>3, <2>4, <3>1, <3>2 DEF TInv, FsSound, Answering
    <2>6. ReadersKnown'
      <3>1. FsHas(p)' /\ \A q \in Proc : ~FsHas(q)
        BY <1>1, <2>3 DEF FsHas
      <3>2. \A q \in Proc : TtyHas(q)' <=> TtyHas(q)
        BY <1>1, <2>1, ReadingKept DEF TtyHas
      <3> QED  BY <1>1, <2>4, <3>1, <3>2 DEF TInv, ReadersKnown
    <2> QED  BY <1>2, <2>2, <2>5, <2>6 DEF TInv
  <1> QED  BY <1>4, <1>5

LEMMA DoRdwtInv == ASSUME TInv, do_rdwt PROVE TInv'
  <1>1. /\ fs.pc = "call"
        /\ UNCHANGED <<tty, tk, has_int_msg, fsq, call, lost, calls, prints, cursor, start, vmem,
                       nr_current_console, kb_in, mods, key_pressed, dropped>>
        /\ fs' = fs \/ fs' = [fs EXCEPT !.pc = "send"]
        /\ halted' = halted \/ halted' = TRUE
    BY DEF do_rdwt, conVars, kbVars
  <1>2. TaskSound' /\ TerminalsSound' /\ PlacesSound' /\ OutSound'
    BY <1>1, TaskKept, PlacesKept, OutKept DEF TInv
  <1>3. KeyboardSound'
    BY <1>1 DEF TInv, KeyboardSound
  <1>4. fs' \in FsState /\ fs'.pc \in {"call", "send"} /\ fs'.p = fs.p
    BY <1>1 DEF TInv, FsSound, FsState
  <1>5. FsSound'
    BY <1>1, <1>4 DEF TInv, FsSound, Answering
  <1>6. ReadersKnown'
    <2>1. \A q \in Proc : (FsHas(q) => FsHas(q)') /\ (TtyHas(q)' <=> TtyHas(q))
      BY <1>1, <1>4, ReadingKept DEF FsHas, TtyHas
    <2> QED  BY <1>1, <2>1 DEF TInv, ReadersKnown
  <1> QED  BY <1>2, <1>3, <1>5, <1>6 DEF TInv

LEMMA FsAnswerInv == ASSUME TInv, FsAnswer PROVE TInv'
  <1>1. /\ fs.pc = "got" /\ fs' = FsIdle
        /\ UNCHANGED <<tty, tk, has_int_msg, fsq, halted, lost, calls, prints, cursor, start, vmem,
                       nr_current_console, kb_in, mods, key_pressed, dropped>>
        /\ IF fs.reply = "SUSPEND_PROC" THEN call' = call
           ELSE call' = [call EXCEPT ![fs.p] = NoCall]
    BY DEF FsAnswer, conVars, kbVars
  <1>2. TaskSound' /\ TerminalsSound' /\ PlacesSound' /\ OutSound' /\ KeyboardSound'
    BY <1>1, TaskKept, PlacesKept, OutKept, KeyboardKept DEF TInv
  <1>3. fs.p \in Proc /\ call \in [Proc -> Calls]
    BY <1>1 DEF TInv, FsSound
  <1>4. NoCall \in Calls /\ NoCall.st = "ready"
    BY ConsolesInt DEF NoCall, Calls
  <1>5. FsSound'
    <2>1. fs' \in FsState /\ fs'.pc = "recv"
      BY <1>1 DEF FsIdle, FsState
    <2>2. call' \in [Proc -> Calls]
      BY <1>1, <1>3, <1>4
    <2> QED  BY <1>1, <2>1, <2>2 DEF TInv, FsSound, Answering
  <1>6. ReadersKnown'
    <2>1. \A q \in Proc : TtyHas(q)' <=> TtyHas(q)
      BY <1>1, ReadingKept DEF TtyHas
    <2>2. \A q \in Proc : call'[q].st = "waiting" => call'[q] = call[q] /\ ~FsHas(q)
      BY <1>1, <1>3, <1>4 DEF FsHas
    <2> QED  BY <1>1, <2>1, <2>2 DEF TInv, ReadersKnown
  <1> QED  BY <1>2, <1>5, <1>6 DEF TInv

-----------------------------------------------------------------------------
(***************************************************************************)
(* TTY receiving, reading the keyboard and serving readers                 *)
(***************************************************************************)

(* The places where TTY neither puts a character out nor ends a read. *)
PlainPcs == {"scan", "recv", "clear", "reply", "drain"} \cup KeyPcs \cup LedPcs

LEMMA FreshTask ==
    ASSUME NEW pc, NEW k, tk' = TtyAt(pc, k)
    PROVE  TaskRecord' /\ tk'.pc = pc /\ tk'.k = k /\ tk'.then = "none" /\ tk'.ret = "none"
  BY DEF TtyAt, TaskRecord

(* TTY arrives at a plain place. *)
LEMMA PlainTask ==
    ASSUME TaskRecord', tk'.pc \in PlainPcs, tk'.k \in 0..NR_CONSOLES, tk'.then = "none",
           tk'.pc \in {"drain"} \cup KeyPcs \cup LedPcs => tk'.k \in Consoles
    PROVE  TaskSound' /\ OutSound' /\ ~KeyScroll'
  <1>1. ~Putting' /\ ~KeyScroll' /\ tk'.pc # "write" /\ tk'.pc \in TaskPcs /\ tk'.pc \notin ScrollPcs
    BY DEF Putting, KeyScroll, PlainPcs, OutPcs, ScrollPcs, TaskPcs, KeyPcs, LedPcs
  <1>2. AtTerminal' => tk'.k \in Consoles
    BY <1>1 DEF AtTerminal, PlainPcs, EndPcs, KeyPcs, LedPcs
  <1>3. OutSound'
    BY DEF OutSound, PlainPcs, KeyPcs, LedPcs
  <1> QED  BY <1>1, <1>2, <1>3 DEF TaskSound

(* A step of TTY between plain places keeps the terminals and FS's side. *)
LEMMA PlainStep ==
    ASSUME TInv, tk.pc \in (PlainPcs \ {"drain"}) \cup {"write"}, tk'.pc \in PlainPcs,
           tk'.then = "none", ~KeyScroll',
           tk.pc # "reply", tk.pc = "write" <=> tk'.pc = "reply",
           UNCHANGED <<tty, fs, call, calls, lost, fsq>>
    PROVE  TerminalsSound' /\ FsSound' /\ ReadersKnown'
  <1>1. tk.then = "none" /\ ~KeyScroll /\ tk.pc \notin EndPcs \cup {"drain", "resumed"}
    BY DEF TInv, TaskSound, Putting, KeyScroll, PlainPcs, KeyPcs, LedPcs, EndPcs, OutPcs, ScrollPcs
  <1>2. tk'.pc \notin EndPcs \cup {"store", "resumed"}
    BY DEF PlainPcs, KeyPcs, LedPcs, EndPcs
  <1>3. \A t \in Consoles : tty[t].inbuf = <<>>
    BY <1>1 DEF TInv, TerminalsSound
  <1>4. TerminalsSound'
    <2>1. ~Ending(tk.k)'
      BY <1>2 DEF Ending, EndPcs
    <2> QED  BY <1>2, <1>3, <2>1 DEF TInv, TerminalsSound
  <1>5. FsSound'
    <2>1. Answering' <=> Answering
      BY <1>1 DEF Answering, PlainPcs, KeyPcs, LedPcs
    <2> QED  BY <1>1, <2>1, FsSideKept DEF TInv, EndPcs
  <1>6. ReadersKnown'
    <2>1. \A t \in Consoles : Reading(t) => Reading(t)'
      BY <1>1, <1>2 DEF Reading, Ending, EndPcs
    <2> QED  BY <2>1, ReadersKept DEF TInv
  <1> QED  BY <1>4, <1>5, <1>6

LEMMA TtyDevReadInv == ASSUME TInv, tty_dev_read PROVE TInv'
  <1>1. /\ tk.pc = "scan" /\ tk' = TtyAt("recv", 0)
        /\ UNCHANGED <<tty, fs, call, calls, lost, fsq, cursor, start, vmem, prints, kb_in, mods,
                       key_pressed, dropped, has_int_msg, halted, nr_current_console>>
    BY DEF tty_dev_read, TtyQuiet, kbVars, conVars
  <1>2. TaskRecord' /\ tk'.pc = "recv" /\ tk'.k = 0 /\ tk'.then = "none"
    BY <1>1, FreshTask
  <1>3. TaskSound' /\ OutSound' /\ ~KeyScroll'
    BY <1>2, PlainTask, Sizes DEF PlainPcs, KeyPcs, LedPcs
  <1>4. TerminalsSound' /\ FsSound' /\ ReadersKnown'
    BY <1>1, <1>2, <1>3, PlainStep DEF PlainPcs
  <1> QED  BY <1>1, <1>3, <1>4, PlacesKept, KeyboardKept DEF TInv

LEMMA ReceiveInterruptInv == ASSUME TInv, ReceiveInterrupt \/ ClearKeyPressed PROVE TInv'
  <1>1. /\ tk.pc \in {"recv", "clear"} /\ (tk' = TtyAt("clear", 0) \/ tk' = TtyAt("scan", 0))
        /\ UNCHANGED <<tty, fs, call, calls, lost, fsq, cursor, start, vmem, prints, kb_in, mods,
                       dropped, halted, nr_current_console>>
    BY DEF ReceiveInterrupt, ClearKeyPressed, TtyQuiet, kbVars, conVars, ioVars
  <1>2. TaskRecord' /\ tk'.pc \in {"clear", "scan"} /\ tk'.k = 0 /\ tk'.then = "none"
    BY <1>1, FreshTask
  <1>3. TaskSound' /\ OutSound' /\ ~KeyScroll'
    BY <1>2, PlainTask, Sizes DEF PlainPcs, KeyPcs, LedPcs
  <1>4. TerminalsSound' /\ FsSound' /\ ReadersKnown'
    BY <1>1, <1>2, <1>3, PlainStep DEF PlainPcs
  <1>5. KeyboardSound'
    <2>1. has_int_msg' \in BOOLEAN /\ key_pressed' \in BOOLEAN
      BY DEF ReceiveInterrupt, ClearKeyPressed, TtyQuiet, kbVars, TInv, KeyboardSound
    <2> QED  BY <1>1, <2>1 DEF TInv, KeyboardSound
  <1> QED  BY <1>1, <1>3, <1>4, <1>5, PlacesKept DEF TInv

(* out_char() is called: the place in the video memory is where the cursor is. *)
LEMMA OutCharTask ==
    ASSUME TInv, TaskRecord', NEW c \in Consoles, tk'.pc = "check", tk'.c = c, tk'.k = tk.k,
           tk'.vm = cursor[c], tk'.then \in {"store", "resume", "write"}, cursor' = cursor,
           tk'.then # "write" => tk.k \in Consoles
    PROVE  TaskSound' /\ OutSound' /\ ~KeyScroll' /\ Putting'
  <1>1. Putting' /\ ~KeyScroll' /\ tk'.pc \in TaskPcs /\ tk'.pc \notin ScrollPcs
    BY DEF Putting, KeyScroll, OutPcs, ScrollPcs, TaskPcs
  <1>2. AtTerminal' => tk'.k \in Consoles
    BY <1>1 DEF AtTerminal, KeyPcs, LedPcs, EndPcs
  <1>3. TaskSound'
    BY <1>1, <1>2 DEF TInv, TaskSound
  <1>4. OutSound'
    BY DEF TInv, PlacesSound, InConsole, OutSound
  <1> QED  BY <1>1, <1>3, <1>4

LEMMA TtyDoWriteInv == ASSUME TInv, tty_do_write PROVE TInv'
  <1>1. /\ tk.pc = "write" /\ tk.c \in Consoles /\ TaskRecord /\ ~KeyScroll
        /\ tk.then = "none"
        /\ UNCHANGED <<tty, fs, call, calls, lost, fsq, cursor, start, vmem, prints, kb_in, mods,
                       key_pressed, dropped, has_int_msg, halted, nr_current_console>>
    BY DEF tty_do_write, TtyQuiet, kbVars, conVars, TInv, TaskSound, Putting, KeyScroll, OutPcs, ScrollPcs
  <1>2. PlacesSound' /\ KeyboardSound'
    BY <1>1, PlacesKept, KeyboardKept DEF TInv
  <1>3. CASE tk.out = <<>>
    <2>1. TaskRecord' /\ tk'.pc = "reply" /\ tk'.k = 0 /\ tk'.then = "none"
      BY <1>3, FreshTask DEF tty_do_write
    <2>2. TaskSound' /\ OutSound' /\ ~KeyScroll'
      BY <2>1, PlainTask, Sizes DEF PlainPcs, KeyPcs, LedPcs
    <2>3. TerminalsSound' /\ FsSound' /\ ReadersKnown'
      BY <1>1, <2>1, <2>2, PlainStep DEF PlainPcs
    <2> QED  BY <1>2, <2>2, <2>3 DEF TInv
  <1>4. CASE tk.out # <<>>
    <2>1. tk' = [[tk EXCEPT !.pc = "check", !.c = tk.c, !.ch = Head(tk.out), !.vm = cursor[tk.c],
                            !.then = "write"] EXCEPT !.out = Tail(@)]
      BY <1>4 DEF tty_do_write, OutChar
    <2>2. /\ TaskRecord' /\ tk'.pc = "check" /\ tk'.c = tk.c /\ tk'.k = tk.k
          /\ tk'.vm = cursor[tk.c] /\ tk'.then = "write"
      BY <1>1, <2>1 DEF TaskRecord
    <2>3. TaskSound' /\ OutSound' /\ ~KeyScroll' /\ Putting'
      BY <1>1, <2>2, OutCharTask
    <2>4. TerminalsSound'
      BY <1>1, <2>2, <2>3 DEF TInv, TerminalsSound, Ending
    <2>5. FsSound'
      BY <1>1, <2>2, FsSideKept DEF TInv, Answering
    <2>6. ReadersKnown'
      <3>1. \A t \in Consoles : Reading(t) => Reading(t)'
        BY <1>1, <2>2 DEF Reading, Ending
      <3> QED  BY <1>1, <3>1, ReadersKept DEF TInv
    <2> QED  BY <1>2, <2>3, <2>4, <2>5, <2>6 DEF TInv
  <1> QED  BY <1>3, <1>4

LEMMA TtyReplyInv == ASSUME TInv, TtyReply PROVE TInv'
  <1>1. /\ tk.pc = "reply" /\ tk' = TtyAt("scan", 0) /\ fs' = [fs EXCEPT !.pc = "got"]
        /\ UNCHANGED <<tty, call, calls, lost, fsq, cursor, start, vmem, prints, kb_in, mods,
                       key_pressed, dropped, has_int_msg, halted, nr_current_console>>
    BY DEF TtyReply, ioVars, kbVars, conVars
  <1>2. TaskRecord' /\ tk'.pc = "scan" /\ tk'.k = 0 /\ tk'.then = "none"
    BY <1>1, FreshTask
  <1>3. TaskSound' /\ OutSound' /\ ~KeyScroll'
    BY <1>2, PlainTask, Sizes DEF PlainPcs, KeyPcs, LedPcs
  <1>4. fs.pc = "wait" /\ tk.then = "none" /\ ~KeyScroll
    BY <1>1 DEF TInv, TaskSound, FsSound, Answering, Putting, KeyScroll, OutPcs, ScrollPcs
  <1>5. TerminalsSound'
    BY <1>1, <1>2, <1>3, <1>4 DEF TInv, TerminalsSound, Ending
  <1>6. fs' \in FsState /\ fs'.pc = "got" /\ fs'.p = fs.p /\ fs'.reply = fs.reply
    BY <1>1 DEF TInv, FsSound, FsState
  <1>7. FsSound'
    <2>1. \A i \in 1..Len(fsq) : fsq[i] # "TTY"
      BY <1>1 DEF TInv, FsSound
    <2> QED  BY <1>1, <1>2, <1>4, <1>6, <2>1 DEF TInv, FsSound, Answering
  <1>8. ReadersKnown'
    <2>1. \A t \in Consoles : Reading(t) => Reading(t)'
      BY <1>1, <1>2, <1>4 DEF Reading, Ending
    <2>2. \A p \in Proc : (FsHas(p) => FsHas(p)') /\ (TtyHas(p) => TtyHas(p)')
      BY <1>1, <1>4, <1>6, <2>1 DEF FsHas, TtyHas
    <2> QED  BY <1>1, <2>2 DEF TInv, ReadersKnown
  <1> QED  BY <1>1, <1>3, <1>5, <1>7, <1>8, PlacesKept, KeyboardKept DEF TInv

LEMMA ReceiveRequestInv == ASSUME TInv, ReceiveRequest PROVE TInv'
  <1> DEFINE req == call[fs.p]
  <1>1. /\ tk.pc = "recv" /\ fs.pc = "send"
        /\ UNCHANGED <<call, calls, fsq, cursor, start, vmem, prints, kb_in, mods, key_pressed,
                       dropped, has_int_msg, halted, nr_current_console>>
    BY DEF ReceiveRequest, kbVars, conVars
  <1>2. fs.p \in Proc /\ req \in Calls /\ tk.then = "none" /\ ~KeyScroll
    BY <1>1 DEF TInv, TaskSound, FsSound, Putting, KeyScroll, OutPcs, ScrollPcs
  <1>3. req.t \in Consoles /\ req.n \in Nat
    BY <1>2 DEF Calls
  <1>4. /\ fs' = [fs EXCEPT !.pc = "wait", !.cnt = req.n,
                    !.reply = IF req.type = "READ" THEN "SUSPEND_PROC" ELSE "SYSCALL_RET"]
        /\ IF req.type = "READ" THEN tty_do_read(req.t, fs.p, req.n) ELSE UNCHANGED <<tty, chars, lost>>
        /\ tk' = IF req.type = "WRITE" THEN [TtyAt("write", 0) EXCEPT !.c = req.t, !.out = req.bytes]
                 ELSE TtyAt("reply", 0)
    BY DEF ReceiveRequest
  <1> HIDE DEF req
  <1>5. /\ fs' \in FsState /\ fs'.pc = "wait" /\ fs'.p = fs.p
        /\ fs'.reply = "SUSPEND_PROC" => req.type = "READ"
    BY <1>3, <1>4 DEF TInv, FsSound, FsState
  <1>6. /\ TaskRecord' /\ tk'.k = 0 /\ tk'.then = "none" /\ tk'.ret = "none"
        /\ tk'.pc \in {"write", "reply"} /\ (tk'.pc = "write" => tk'.c = req.t)
    BY <1>4 DEF TtyAt, TaskRecord
  <1>7. TaskSound' /\ OutSound'
    BY <1>3, <1>6, Sizes DEF TaskSound, OutSound, TaskPcs, Putting, KeyScroll, AtTerminal, OutPcs,
           ScrollPcs, KeyPcs, LedPcs, EndPcs
  <1>8. /\ tty' \in [Consoles -> Terminal]
        /\ \A t \in Consoles : tty'[t].inbuf = tty[t].inbuf
        /\ \A t \in Consoles : (req.type = "READ" /\ t = req.t) \/ tty'[t] = tty[t]
        /\ req.type = "READ" => tty'[req.t].procnr = fs.p /\ tty'[req.t].left = req.n
    <2>1. CASE req.type = "READ"
      <3>1. tty' = [tty EXCEPT ![req.t] = [@ EXCEPT !.procnr = fs.p, !.left = req.n, !.trans = 0]]
        BY <1>4, <2>1 DEF tty_do_read
      <3>2. tty \in [Consoles -> Terminal] /\ tty[req.t] \in Terminal
        BY <1>3 DEF TInv, TerminalsSound
      <3>3. PICK q \in Terminal, p \in Proc \cup {"none"}, n \in Nat :
                q = tty[req.t] /\ p = fs.p /\ n = req.n
        BY <1>2, <1>3, <3>2
      <3>4. PICK new : new = [q EXCEPT !.procnr = p, !.left = n, !.trans = 0]
        OBVIOUS
      <3>5. tty' = [tty EXCEPT ![req.t] = new]
        BY <3>1, <3>3, <3>4
      <3>6. new \in Terminal /\ new.inbuf = q.inbuf /\ new.procnr = p /\ new.left = n
        BY <3>4 DEF Terminal
      <3> QED  BY <1>3, <2>1, <3>2, <3>3, <3>5, <3>6
    <2>2. CASE req.type # "READ"
      BY <1>4, <2>2 DEF TInv, TerminalsSound
    <2> QED  BY <2>1, <2>2
  <1>9. TerminalsSound'
    <2>1. \A t \in Consoles : tty'[t].inbuf = <<>>
      BY <1>1, <1>2, <1>8 DEF TInv, TerminalsSound
    <2>2. \A t \in Consoles : tty'[t].left > 0 => tty'[t].procnr \in Proc
      BY <1>2, <1>8 DEF TInv, TerminalsSound
    <2>3. ~Ending(tk.k)' /\ tk'.pc # "store"
      BY <1>6 DEF Ending
    <2> QED  BY <1>6, <1>8, <2>1, <2>2, <2>3 DEF TerminalsSound
  <1>10. /\ lost \subseteq lost' /\ lost' \subseteq Proc
         /\ req.type = "READ" /\ tty[req.t].left > 0 => tty[req.t].procnr \in lost'
    <2>1. CASE req.type = "READ"
      <3>1. lost' = IF tty[req.t].left > 0 THEN lost \cup {tty[req.t].procnr} ELSE lost
        BY <1>4, <2>1 DEF tty_do_read
      <3>2. lost \subseteq Proc /\ (tty[req.t].left > 0 => tty[req.t].procnr \in Proc)
        BY <1>3 DEF TInv, FsSound, TerminalsSound
      <3> QED  BY <2>1, <3>1, <3>2
    <2>2. CASE req.type # "READ"
      BY <1>4, <2>2 DEF TInv, FsSound
    <2> QED  BY <2>1, <2>2
  <1>11. FsSound'
    <2>1. \A i \in 1..Len(fsq) : fsq[i] # "TTY"
      BY <1>1 DEF TInv, FsSound
    <2> QED  BY <1>1, <1>2, <1>5, <1>6, <1>10, <2>1 DEF TInv, FsSound, Answering
  <1>12. ReadersKnown'
    <2>1. SUFFICES ASSUME NEW p \in Proc, call[p].st = "waiting", call[p].type = "READ",
                          p \notin lost', call[p].n # 0
                   PROVE  FsHas(p)' \/ TtyHas(p)'
      BY <1>1 DEF ReadersKnown
    <2>2. \A t \in Consoles : Reading(t)' <=> tty'[t].left > 0
      BY <1>6 DEF Reading, Ending
    <2>3. \A t \in Consoles : Reading(t) <=> tty[t].left > 0
      BY <1>1, <1>2 DEF Reading, Ending
    <2>4. CASE fs.p = p
      <3>1. req = call[p] /\ req.n > 0
        BY <2>1, <2>4, <1>3 DEF req
      <3>2. PICK t \in Consoles : t = req.t
        BY <1>3
      <3>3. tty'[t].procnr = p /\ tty'[t].left > 0
        BY <1>8, <2>1, <2>4, <3>1, <3>2
      <3> QED  BY <2>2, <3>3 DEF TtyHas
    <2>5. CASE fs.p # p
      <3>1. PICK t \in Consoles : tty[t].procnr = p /\ tty[t].left > 0
        BY <2>1, <2>3, <2>5, <1>10 DEF TInv, ReadersKnown, FsHas, TtyHas
      <3>2. tty'[t] = tty[t]
        BY <1>8, <1>10, <2>1, <3>1
      <3> QED  BY <2>2, <3>1, <3>2 DEF TtyHas
    <2> QED  BY <2>4, <2>5
  <1> QED  BY <1>1, <1>7, <1>9, <1>11, <1>12, PlacesKept, KeyboardKept DEF TInv

(* A character taken from the terminal read last is echoed or thrown away. *)
LEMMA TtyDevWriteInv == ASSUME TInv, tty_dev_write PROVE TInv'
  <1> DEFINE t == tk.k
             ch == Head(tty[t].inbuf)
  <1>1. /\ tk.pc = "drain" /\ TaskRecord /\ t \in Consoles /\ tk.then = "none" /\ ~KeyScroll /\ ~Answering
        /\ UNCHANGED <<fs, call, calls, lost, fsq, cursor, start, vmem, prints, kb_in, mods,
                       key_pressed, dropped, has_int_msg, halted, nr_current_console>>
    BY DEF tty_dev_write, TtyQuiet, kbVars, conVars, TInv, TaskSound, AtTerminal, Answering, Putting,
           KeyScroll, OutPcs, ScrollPcs
  <1>2. PlacesSound' /\ KeyboardSound'
    BY <1>1, PlacesKept, KeyboardKept DEF TInv
  <1>3. /\ tty \in [Consoles -> Terminal] /\ tty[t] \in Terminal
        /\ \A u \in Consoles : u # t => tty[u].inbuf = <<>>
        /\ Len(tty[t].inbuf) <= 1 /\ tty[t].inbuf \in Seq(Bytes)
    BY <1>1 DEF TInv, TerminalsSound, Terminal
  <1>4. CASE tty[t].inbuf = <<>>
    <2>1. tk' = TtyAt("scan", t + 1) /\ tty' = tty
      BY <1>4 DEF tty_dev_write
    <2>2. TaskRecord' /\ tk'.pc = "scan" /\ tk'.k = t + 1 /\ tk'.then = "none"
      BY <2>1, FreshTask
    <2>3. TaskSound' /\ OutSound' /\ ~KeyScroll'
      BY <1>1, <2>2, PlainTask, ConsolesInt DEF PlainPcs, KeyPcs, LedPcs
    <2>4. TerminalsSound'
      BY <1>3, <1>4, <2>1, <2>2 DEF TInv, TerminalsSound, Ending
    <2>5. FsSound'
      BY <1>1, <2>2, FsSideKept DEF TInv, Answering
    <2>6. ReadersKnown'
      <3>1. \A u \in Consoles : Reading(u) => Reading(u)'
        BY <1>1, <2>1, <2>2 DEF Reading, Ending
      <3> QED  BY <1>1, <2>1, <3>1, ReadersKept DEF TInv
    <2> QED  BY <1>2, <2>3, <2>4, <2>5, <2>6 DEF TInv
  <1>5. CASE tty[t].inbuf # <<>>
    <2>1. /\ tty' = [tty EXCEPT ![t].inbuf = Tail(@)]
          /\ \/ /\ tty[t].left > 0 /\ (ch = "BS" => tty[t].trans > 0)
                /\ tk' = OutChar(t, ch, "store")
             \/ tty[t].left > 0 /\ tk' = OutChar(t, "LF", "resume")
             \/ tk' = tk
      <3>1. /\ tty' = [tty EXCEPT ![t].inbuf = Tail(@)]
            /\ tk' = CASE tty[t].left > 0 /\ (ch \in Printable \/ (ch = "BS" /\ tty[t].trans > 0))
                               -> OutChar(t, ch, "store")
                       [] tty[t].left > 0 /\ ch = "LF" -> OutChar(t, "LF", "resume")
                       [] OTHER -> tk
        BY <1>5 DEF tty_dev_write
      <3>2. "BS" \notin Printable
        BY TtyAssumption
      <3> HIDE DEF t, ch
      <3> QED  BY <3>1, <3>2
    <2>2. Tail(tty[t].inbuf) \in Seq(Bytes) /\ Tail(tty[t].inbuf) = <<>>
      BY <1>3, <1>5
    <2>3. /\ tty' \in [Consoles -> Terminal]
          /\ \A u \in Consoles : /\ tty'[u].inbuf = <<>>
                                 /\ tty'[u].procnr = tty[u].procnr
                                 /\ tty'[u].left = tty[u].left /\ tty'[u].trans = tty[u].trans
      BY <1>1, <1>3, <2>1, <2>2 DEF Terminal
    <2>4. \/ /\ TaskRecord' /\ tk'.pc = "check" /\ tk'.c = t /\ tk'.k = t /\ tk'.vm = cursor[t]
             /\ \/ tk'.then = "store" /\ tty[t].left > 0 /\ (tk'.ch = "BS" => tty[t].trans > 0)
                \/ tk'.then = "resume" /\ tty[t].left > 0
          \/ tk' = tk
      BY <1>1, <2>1 DEF OutChar, TaskRecord
    <2>5. TaskSound' /\ OutSound'
      <3>1. CASE tk' = tk
        BY <3>1, <1>1 DEF TInv, TaskSound, TaskRecord, OutSound, Putting, KeyScroll, AtTerminal,
               StillRoom, StillScrolls, StartIn, InConsole
      <3>2. CASE tk' # tk
        BY <3>2, <2>4, <1>1, OutCharTask
      <3> QED  BY <3>1, <3>2
    <2>6. TerminalsSound'
      <3>1. tk'.pc = "store" \/ tk'.then = "store" =>
               tty'[tk'.k].left > 0 /\ (tk'.ch = "BS" => tty'[tk'.k].trans > 0)
        BY <1>1, <2>3, <2>4
      <3>2. Ending(tk.k)' => tty'[tk'.k].procnr \in Proc
        BY <1>1, <2>3, <2>4 DEF TInv, TerminalsSound, Ending
      <3>3. \A u \in Consoles : tty'[u].left > 0 => tty'[u].procnr \in Proc
        BY <2>3 DEF TInv, TerminalsSound
      <3> QED  BY <2>3, <3>1, <3>2, <3>3 DEF TerminalsSound
    <2>7. FsSound'
      <3>1. ~Answering'
        BY <1>1, <2>4 DEF Answering
      <3> QED  BY <1>1, <3>1, FsSideKept DEF TInv
    <2>8. ReadersKnown'
      <3>1. \A u \in Consoles : Reading(u) => Reading(u)'
        BY <1>1, <2>3, <2>4 DEF Reading, Ending
      <3> QED  BY <1>1, <2>3, <3>1, ReadersKept DEF TInv
    <2> QED  BY <1>2, <2>5, <2>6, <2>7, <2>8 DEF TInv
  <1> QED  BY <1>4, <1>5

(* The character is stored, or taken back; the last one ends the read. *)
LEMMA TtyStoreInv == ASSUME TInv, tty_store PROVE TInv'
  <1> DEFINE t == tk.k
             n == Advance(tk.ch)
  <1>1. /\ tk.pc = "store" /\ TaskRecord /\ t \in Consoles /\ tk.then = "none" /\ ~KeyScroll /\ ~Answering
        /\ UNCHANGED <<fs, call, calls, lost, fsq, cursor, start, vmem, prints, kb_in, mods,
                       key_pressed, dropped, has_int_msg, halted, nr_current_console>>
    BY DEF tty_store, kbVars, conVars, TInv, TaskSound, AtTerminal, Answering, Putting,
           KeyScroll, OutPcs, ScrollPcs
  <1>2. PlacesSound' /\ KeyboardSound'
    BY <1>1, PlacesKept, KeyboardKept DEF TInv
  <1>3. /\ tty \in [Consoles -> Terminal] /\ tty[t] \in Terminal /\ tty[t].procnr \in Proc
        /\ tty[t].left \in Nat /\ tty[t].trans \in Nat
        /\ tty[t].left > 0 /\ (tk.ch = "BS" => tty[t].trans > 0)
        /\ \A u \in Consoles : tty[u].inbuf = <<>>
    BY <1>1 DEF TInv, TerminalsSound, Terminal
  <1>4. n \in Int /\ tty[t].left - n \in Nat /\ tty[t].trans + n \in Nat
    BY <1>3 DEF Advance
  <1>5. /\ tty' = [tty EXCEPT ![t] = [tty[t] EXCEPT !.trans = @ + n, !.left = @ - n]]
        /\ tk' = IF tty[t].left - n = 0 THEN OutChar(t, "LF", "resume") ELSE TtyAt("drain", t)
    BY DEF tty_store
  <1> HIDE DEF n
  <1>6. PICK q \in Terminal : q = tty[t]
    BY <1>3
  <1>7. PICK new : new = [q EXCEPT !.trans = @ + n, !.left = @ - n]
    OBVIOUS
  <1>8. tty' = [tty EXCEPT ![t] = new]
    BY <1>5, <1>6, <1>7
  <1>9. q.trans + n \in Nat /\ q.left - n \in Nat
    BY <1>4, <1>6
  <1>10. /\ new \in Terminal /\ new.inbuf = q.inbuf /\ new.procnr = q.procnr
         /\ new.left = q.left - n /\ new.trans = q.trans + n
    BY <1>7, <1>9 DEF Terminal
  <1>11. /\ tty' \in [Consoles -> Terminal] /\ tty'[t] = new
         /\ \A u \in Consoles : u # t => tty'[u] = tty[u]
         /\ \A u \in Consoles : tty'[u].inbuf = <<>> /\ tty'[u].procnr = tty[u].procnr
    BY <1>1, <1>3, <1>6, <1>8, <1>10
  <1>12. \/ /\ TaskRecord' /\ tk'.pc = "check" /\ tk'.c = t /\ tk'.k = t /\ tk'.vm = cursor[t]
            /\ tk'.then = "resume" /\ new.left = 0
         \/ /\ TaskRecord' /\ tk'.pc = "drain" /\ tk'.k = t /\ tk'.then = "none" /\ new.left > 0
    <2>1. CASE tty[t].left - n = 0
      BY <1>1, <1>5, <1>6, <1>10, <2>1 DEF OutChar, TaskRecord
    <2>2. CASE tty[t].left - n # 0
      <3>1. new.left > 0
        BY <1>6, <1>9, <1>10, <2>2
      <3>2. tk' = TtyAt("drain", t)
        BY <1>5, <2>2
      <3> QED  BY <3>1, <3>2, FreshTask
    <2> QED  BY <2>1, <2>2
  <1>13. TaskSound' /\ OutSound'
    <2>1. CASE tk'.pc = "check"
      BY <1>1, <1>12, <2>1, OutCharTask
    <2>2. CASE tk'.pc = "drain"
      BY <1>1, <1>12, <2>2, PlainTask, ConsolesInt, Sizes DEF PlainPcs, Consoles
    <2> QED  BY <1>12, <2>1, <2>2
  <1>14. TerminalsSound'
    <2>1. tk'.pc # "store" /\ tk'.then # "store" /\ (Ending(tk.k)' => tty'[tk'.k].procnr \in Proc)
      BY <1>1, <1>3, <1>11, <1>12 DEF Ending
    <2>2. \A u \in Consoles : tty'[u].left > 0 => tty'[u].procnr \in Proc
      BY <1>3, <1>6, <1>10, <1>11 DEF TInv, TerminalsSound
    <2> QED  BY <1>11, <2>1, <2>2 DEF TerminalsSound
  <1>15. FsSound'
    <2>1. ~Answering'
      BY <1>12 DEF Answering
    <2> QED  BY <1>1, <2>1, FsSideKept DEF TInv
  <1>16. ReadersKnown'
    <2>1. \A u \in Consoles : Reading(u) => Reading(u)'
      BY <1>1, <1>11, <1>12 DEF Reading, Ending
    <2> QED  BY <1>1, <1>11, <2>1, ReadersKept DEF TInv
  <1> QED  BY <1>2, <1>13, <1>14, <1>15, <1>16 DEF TInv

LEMMA TtyResumeInv == ASSUME TInv, tty_resume PROVE TInv'
  <1>1. /\ tk.pc = "resume" /\ tk.k \in Consoles /\ tk.then = "none" /\ ~KeyScroll /\ ~Answering
        /\ UNCHANGED <<tty, fs, call, calls, lost, cursor, start, vmem, prints, kb_in, mods,
                       key_pressed, dropped, has_int_msg, nr_current_console>>
        /\ halted' = halted \/ halted' = TRUE
        /\ \/ tk' = tk /\ fsq' = fsq
           \/ tk' = TtyAt("sending", tk.k) /\ fsq' = Append(fsq, "TTY")
    BY DEF tty_resume, kbVars, conVars, TInv, TaskSound, AtTerminal, EndPcs, Answering, Putting, KeyScroll,
           OutPcs, ScrollPcs
  <1>2. PlacesSound' /\ KeyboardSound'
    BY <1>1, PlacesKept DEF TInv, KeyboardSound
  <1>3. CASE tk' = tk /\ fsq' = fsq
    <2>1. TaskSound' /\ TerminalsSound' /\ OutSound'
      BY <1>1, <1>3, TaskKept, OutKept
    <2>2. FsSound'
      BY <1>1, <1>3 DEF TInv, FsSound, Answering
    <2>3. ReadersKnown'
      BY <1>1, <1>3, ReadersKept, ReadingKept DEF TInv
    <2> QED  BY <1>2, <2>1, <2>2, <2>3 DEF TInv
  <1>4. CASE tk' = TtyAt("sending", tk.k) /\ fsq' = Append(fsq, "TTY")
    <2>1. TaskRecord' /\ tk'.pc = "sending" /\ tk'.k = tk.k /\ tk'.then = "none"
      BY <1>4, FreshTask
    <2>2. TaskSound' /\ OutSound'
      BY <1>1, <2>1, ConsolesInt, Sizes DEF TaskSound, OutSound, Consoles, TaskPcs, Putting, KeyScroll,
             EndPcs, OutPcs, ScrollPcs
    <2>3. TerminalsSound'
      <3>1. tty[tk.k].procnr \in Proc /\ \A t \in Consoles : tty[t].inbuf = <<>>
        BY <1>1 DEF TInv, TerminalsSound, Ending
      <3> QED  BY <1>1, <2>1, <3>1 DEF TInv, TerminalsSound
    <2>4. FsSound'
      <3>1. fsq \in Seq(Proc \cup {"TTY"}) /\ \A i \in 1..Len(fsq) : fsq[i] # "TTY"
        BY <1>1 DEF TInv, FsSound
      <3>2. /\ fsq' \in Seq(Proc \cup {"TTY"})
            /\ \A i \in 1..Len(fsq') : fsq'[i] = "TTY" => i = Len(fsq) + 1
        BY <3>1, <1>4
      <3> QED  BY <1>1, <2>1, <3>2 DEF TInv, FsSound, Answering
    <2>5. ReadersKnown'
      <3>1. \A t \in Consoles : Reading(t) => Reading(t)'
        BY <1>1, <2>1 DEF Reading, Ending
      <3> QED  BY <1>1, <3>1, ReadersKept DEF TInv
    <2> QED  BY <1>2, <2>2, <2>3, <2>4, <2>5 DEF TInv
  <1> QED  BY <1>1, <1>3, <1>4

LEMMA TtyResumedInv == ASSUME TInv, tty_resumed PROVE TInv'
  <1>1. /\ tk.pc = "resumed" /\ tk.k \in Consoles /\ tk.then = "none" /\ ~KeyScroll /\ ~Answering
        /\ tk' = TtyAt("drain", tk.k) /\ tty' = [tty EXCEPT ![tk.k].left = 0]
        /\ UNCHANGED <<fs, fsq, call, calls, lost, cursor, start, vmem, prints, kb_in, mods,
                       key_pressed, dropped, has_int_msg, halted, nr_current_console>>
    BY DEF tty_resumed, TtyQuiet, kbVars, conVars, TInv, TaskSound, AtTerminal, Answering, Putting,
           KeyScroll, OutPcs, ScrollPcs
  <1>2. TaskRecord' /\ tk'.pc = "drain" /\ tk'.k = tk.k /\ tk'.then = "none"
    BY <1>1, FreshTask
  <1>3. TaskSound' /\ OutSound'
    BY <1>1, <1>2, PlainTask, Sizes DEF PlainPcs, Consoles
  <1>4. /\ tty' \in [Consoles -> Terminal] /\ tty'[tk.k].left = 0
        /\ \A t \in Consoles : t # tk.k => tty'[t].left = tty[t].left
        /\ \A t \in Consoles : tty'[t].inbuf = tty[t].inbuf /\ tty'[t].procnr = tty[t].procnr
    BY <1>1 DEF TInv, TerminalsSound, Terminal
  <1>5. TerminalsSound'
    <2>1. \A t \in Consoles : tty'[t].inbuf = <<>> /\ (tty'[t].left > 0 => tty'[t].procnr \in Proc)
      BY <1>1, <1>4 DEF TInv, TerminalsSound
    <2> QED  BY <1>2, <1>4, <2>1 DEF TerminalsSound, Ending
  <1>6. FsSound'
    BY <1>1, <1>2, FsSideKept DEF TInv, Answering
  <1>7. ReadersKnown'
    <2>1. \A t \in Consoles : Reading(t) => Reading(t)'
      BY <1>1, <1>2, <1>4 DEF Reading, Ending
    <2> QED  BY <1>1, <1>4, <2>1, ReadersKept DEF TInv
  <1> QED  BY <1>1, <1>3, <1>5, <1>6, <1>7, PlacesKept, KeyboardKept DEF TInv

-----------------------------------------------------------------------------
(***************************************************************************)
(* Keys                                                                    *)
(***************************************************************************)

(* A byte is taken from the ring, and the modifiers stay well typed. *)
LEMMA TakeByteSound ==
    ASSUME TInv, TakeByte, ReadQuiet,
           mods' \in [Modifiers \cup Locks -> BOOLEAN], nr_current_console' \in Consoles
    PROVE  KeyboardSound'
  <1>1. kb_in.count > 0 /\ kb_in' = [kb_in EXCEPT !.tail = Wrap(@), !.count = @ - 1]
    BY DEF TakeByte, get_byte_from_kbuf
  <1>2. UNCHANGED <<key_pressed, dropped, has_int_msg, halted>>
    BY DEF TakeByte, ReadQuiet, TtyQuiet
  <1>3. Wrap(kb_in.tail) \in 0..(KB_IN_BYTES - 1)
    BY KeyboardAssumption DEF TInv, KeyboardSound, Wrap
  <1>4. kb_in' = [buf |-> kb_in.buf, head |-> kb_in.head, tail |-> Wrap(kb_in.tail),
                  count |-> kb_in.count - 1]
    BY <1>1 DEF TInv, KeyboardSound
  <1>5. /\ kb_in' = [buf |-> kb_in'.buf, head |-> kb_in'.head, tail |-> kb_in'.tail,
                     count |-> kb_in'.count]
        /\ kb_in'.head \in 0..(KB_IN_BYTES - 1) /\ kb_in'.tail \in 0..(KB_IN_BYTES - 1)
        /\ kb_in'.count \in 0..KB_IN_BYTES
    <2>1. kb_in.head \in 0..(KB_IN_BYTES - 1) /\ kb_in.count \in 0..KB_IN_BYTES
      BY DEF TInv, KeyboardSound
    <2>2. kb_in.count - 1 \in 0..KB_IN_BYTES
      BY <1>1, <2>1, KeyboardAssumption
    <2> QED  BY <1>3, <1>4, <2>1, <2>2
  <1> QED  BY <1>2, <1>5 DEF TInv, KeyboardSound

LEMMA ModsTyped ==
    ASSUME TInv, NEW scan, NEW with_E0
    PROVE  ModsAfter(scan, with_E0) \in [Modifiers \cup Locks -> BOOLEAN]
  <1>1. mods \in [Modifiers \cup Locks -> BOOLEAN]
    BY DEF TInv, KeyboardSound
  <1>2. Make(scan) \in BOOLEAN
    BY DEF Make
  <1> DEFINE key == IF Key(scan, with_E0) = "ALT_R" THEN "ALT_L" ELSE Key(scan, with_E0)
             after(m) == CASE m \in Modifiers /\ key = m -> Make(scan)
                           [] m \in Locks /\ key = m /\ Make(scan) -> ~mods[m]
                           [] OTHER -> mods[m]
  <1>3. ModsAfter(scan, with_E0) = [m \in DOMAIN mods |-> after(m)]
    BY DEF ModsAfter
  <1>4. DOMAIN mods = Modifiers \cup Locks
    BY <1>1
  <1> HIDE DEF key
  <1>5. ASSUME NEW m \in Modifiers \cup Locks PROVE after(m) \in BOOLEAN
    <2>1. mods[m] \in BOOLEAN
      BY <1>1, <1>5
    <2>2. CASE m \in Modifiers /\ key = m
      <3>1. m \notin Locks
        BY <2>2 DEF Modifiers, Locks
      <3>2. after(m) = Make(scan)
        BY <2>2, <3>1
      <3> QED  BY <3>2, <1>2
    <2>3. CASE ~(m \in Modifiers /\ key = m)
      <3>1. after(m) = ~mods[m] \/ after(m) = mods[m]
        BY <2>3, Zenon
      <3>2. (~mods[m]) \in BOOLEAN
        BY Zenon
      <3> QED  BY <2>1, <3>1, <3>2, Zenon
    <2> QED  BY <2>2, <2>3
  <1> HIDE DEF after
  <1> QED  BY <1>3, <1>4, <1>5, Zenon

(* What a decoded key does to the terminal on the screen. *)
LEMMA KeyPut ==
    ASSUME TInv, NEW t \in Consoles, tty[t].inbuf = <<>>, NEW ch \in Bytes,
           tty' = tty \/ tty' = put_key(t, ch)
    PROVE  /\ tty' \in [Consoles -> Terminal]
           /\ Len(tty'[t].inbuf) <= 1
           /\ \A u \in Consoles : /\ u # t => tty'[u].inbuf = tty[u].inbuf
                                  /\ tty'[u].procnr = tty[u].procnr
                                  /\ tty'[u].left = tty[u].left /\ tty'[u].trans = tty[u].trans
  <1>1. tty \in [Consoles -> Terminal] /\ tty[t].inbuf \in Seq(Bytes) /\ Len(tty[t].inbuf) = 0
    BY DEF TInv, TerminalsSound, Terminal
  <1>2. CASE tty' = tty
    BY <1>1, <1>2
  <1>3. CASE tty' = [tty EXCEPT ![t].inbuf = Append(@, ch)]
    <2>1. Append(tty[t].inbuf, ch) \in Seq(Bytes) /\ Len(Append(tty[t].inbuf, ch)) = 1
      BY <1>1
    <2>2. PICK q \in Terminal : q = tty[t]
      BY <1>1
    <2>3. PICK new : new = [q EXCEPT !.inbuf = Append(q.inbuf, ch)]
      OBVIOUS
    <2>4. /\ new \in Terminal /\ new.inbuf = Append(q.inbuf, ch) /\ new.procnr = q.procnr
          /\ new.left = q.left /\ new.trans = q.trans
      BY <2>1, <2>2, <2>3 DEF Terminal
    <2>5. tty' = [tty EXCEPT ![t] = new]
      BY <1>3, <2>2, <2>3
    <2> QED  BY <1>1, <2>1, <2>2, <2>4, <2>5
  <1> QED  BY <1>2, <1>3 DEF put_key

(* What a decoded key does to the terminals and to TTY, if it is no lock key. *)
LEMMA DecodeStep ==
    ASSUME TInv, NEW t \in Consoles, tk.pc \in {"scan"} \cup KeyPcs, NEW scan, NEW with_E0,
           Decode(t, scan, with_E0), tk' # TtyAt("code", t)
    PROVE  /\ tty' \in [Consoles -> Terminal]
           /\ Len(tty'[t].inbuf) <= 1
           /\ \A u \in Consoles : /\ u # t => tty'[u].inbuf = <<>>
                                  /\ tty'[u].procnr = tty[u].procnr
                                  /\ tty'[u].left = tty[u].left /\ tty'[u].trans = tty[u].trans
           /\ TaskRecord' /\ tk'.k = t /\ tk'.then = "none"
           /\ tk'.pc = "drain" \/ (tk'.pc = "scrl" /\ tk'.ret = "drain" /\ tk'.c = t)
  <1> DEFINE m == ModsAfter(scan, with_E0)
             key == PadKey(Key(scan, with_E0), m["NUM_LOCK"])
  <1>1. \A u \in Consoles : tty[u].inbuf = <<>>
    BY DEF TInv, TaskSound, TerminalsSound, Putting, KeyScroll, KeyPcs, OutPcs, ScrollPcs
  <1>2. \/ Make(scan) /\ in_process(t, key, m)
        \/ tk' = TtyAt("drain", t) /\ UNCHANGED <<tty, nr_current_console>>
    BY DEF Decode
  <1> HIDE DEF m, key
  <1>3. \E ch \in Bytes : tty' = tty \/ tty' = put_key(t, ch)
    <2>1. {"LF", "BS"} \subseteq Bytes /\ Chars \subseteq Bytes
      BY DEF Bytes
    <2>2. CASE in_process(t, key, m)
      <3>1. tty' = CASE key \in Chars       -> put_key(t, key)
                     [] key = "ENTER"       -> put_key(t, "LF")
                     [] key = "BACKSPACE"   -> put_key(t, "BS")
                     [] OTHER               -> tty
        BY <2>2 DEF in_process
      <3>2. (key \in Chars /\ tty' = put_key(t, key)) \/ tty' = put_key(t, "LF")
               \/ tty' = put_key(t, "BS") \/ tty' = tty
        BY <3>1
      <3> QED  BY <2>1, <3>2
    <2> QED  BY <1>2, <2>1, <2>2
  <1>4. /\ tty' \in [Consoles -> Terminal]
        /\ Len(tty'[t].inbuf) <= 1
        /\ \A u \in Consoles : /\ u # t => tty'[u].inbuf = <<>>
                               /\ tty'[u].procnr = tty[u].procnr
                               /\ tty'[u].left = tty[u].left /\ tty'[u].trans = tty[u].trans
    BY <1>1, <1>3, KeyPut
  <1>5. /\ TaskRecord' /\ tk'.k = t /\ tk'.then = "none"
        /\ tk'.pc = "drain" \/ (tk'.pc = "scrl" /\ tk'.ret = "drain" /\ tk'.c = t)
    <2>1. \/ tk' = TtyAt("drain", t)
          \/ tk' = Scrolling(TtyAt("drain", t), t, "SCR_DN", "drain")
          \/ tk' = Scrolling(TtyAt("drain", t), t, "SCR_UP", "drain")
      <3>1. CASE in_process(t, key, m)
        <4>1. \E up, down \in BOOLEAN :
                tk' = CASE up   -> Scrolling(TtyAt("drain", t), t, "SCR_DN", "drain")
                        [] down -> Scrolling(TtyAt("drain", t), t, "SCR_UP", "drain")
                        [] OTHER -> TtyAt("drain", t)
          <5> DEFINE shift == m["SHIFT_L"] \/ m["SHIFT_R"]
          <5>1. tk' = CASE key = "UP" /\ shift   -> Scrolling(TtyAt("drain", t), t, "SCR_DN", "drain")
                        [] key = "DOWN" /\ shift -> Scrolling(TtyAt("drain", t), t, "SCR_UP", "drain")
                        [] OTHER                 -> TtyAt("drain", t)
            BY <3>1 DEF in_process
          <5>2. (key = "UP" /\ shift) \in BOOLEAN /\ (key = "DOWN" /\ shift) \in BOOLEAN
            BY Zenon
          <5> HIDE DEF shift
          <5> QED  BY <5>1, <5>2, Zenon
        <4> QED  BY <4>1, Zenon
      <3> QED  BY <1>2, <3>1
    <2>2. CASE tk' = TtyAt("drain", t)
      BY <2>2, FreshTask
    <2>3. ASSUME NEW dir, tk' = Scrolling(TtyAt("drain", t), t, dir, "drain")
          PROVE  TaskRecord' /\ tk'.k = t /\ tk'.then = "none" /\ tk'.pc = "scrl" /\ tk'.ret = "drain" /\ tk'.c = t
      <3>1. PICK at : at = TtyAt("drain", t)
        OBVIOUS
      <3>2. tk' = [at EXCEPT !.pc = "scrl", !.c = t, !.dir = dir, !.ret = "drain"]
        BY <2>3, <3>1 DEF Scrolling
      <3> QED  BY <3>1, <3>2 DEF TtyAt, TaskRecord
    <2> QED  BY <2>1, <2>2, <2>3
  <1> QED  BY <1>4, <1>5

LEMMA DecodeInv ==
    ASSUME TInv, NEW t \in Consoles, tk.pc \in {"scan"} \cup KeyPcs, NEW scan, NEW with_E0,
           Decode(t, scan, with_E0), tk' # TtyAt("code", t), TakeByte, ReadQuiet
    PROVE  TInv'
  <1> DEFINE m == ModsAfter(scan, with_E0)
             key == PadKey(Key(scan, with_E0), m["NUM_LOCK"])
  <1>1. /\ tk.then = "none" /\ ~KeyScroll /\ ~Answering /\ tk.pc \notin EndPcs \cup {"resumed", "drain"}
        /\ UNCHANGED <<fs, call, calls, lost, fsq, cursor, start, vmem, prints>>
    BY DEF ReadQuiet, TtyQuiet, TInv, TaskSound, Answering, Putting, KeyScroll, KeyPcs, OutPcs, ScrollPcs,
           EndPcs
  <1>2. mods' \in [Modifiers \cup Locks -> BOOLEAN]
    BY ModsTyped DEF Decode
  <1>3. \/ Make(scan) /\ in_process(t, key, m)
        \/ tk' = TtyAt("drain", t) /\ UNCHANGED <<tty, nr_current_console>>
    BY DEF Decode
  <1> HIDE DEF m, key
  <1>4. nr_current_console' \in Consoles
    <2>1. nr_current_console \in Consoles
      BY DEF TInv, KeyboardSound
    <2> QED  BY <1>3, <2>1 DEF in_process, Selected
  <1>5. /\ tty' \in [Consoles -> Terminal]
        /\ Len(tty'[t].inbuf) <= 1
        /\ \A u \in Consoles : /\ u # t => tty'[u].inbuf = <<>>
                               /\ tty'[u].procnr = tty[u].procnr
                               /\ tty'[u].left = tty[u].left
        /\ TaskRecord' /\ tk'.k = t /\ tk'.then = "none"
        /\ tk'.pc = "drain" \/ (tk'.pc = "scrl" /\ tk'.ret = "drain" /\ tk'.c = t)
    BY DecodeStep
  <1>6. TaskSound' /\ OutSound' /\ (tk'.pc = "drain" \/ KeyScroll') /\ tk'.pc \notin EndPcs
    BY <1>5, ConsolesInt, Sizes DEF TaskSound, OutSound, Consoles, TaskPcs, Putting, KeyScroll, AtTerminal,
           KeyPcs, EndPcs, OutPcs, ScrollPcs
  <1>7. TerminalsSound'
    <2>1. ~Ending(tk.k)' /\ tk'.pc # "store"
      BY <1>5 DEF Ending
    <2>2. \A u \in Consoles : /\ Len(tty'[u].inbuf) <= 1
                              /\ tty'[u].inbuf # <<>> => u = t
                              /\ tty'[u].left > 0 => tty'[u].procnr \in Proc
      BY <1>5 DEF TInv, TerminalsSound
    <2> QED  BY <1>5, <1>6, <2>1, <2>2 DEF TerminalsSound
  <1>8. FsSound'
    <2>1. ~Answering'
      BY <1>5 DEF Answering
    <2> QED  BY <1>1, <2>1, FsSideKept DEF TInv, EndPcs
  <1>9. ReadersKnown'
    <2>1. \A u \in Consoles : Reading(u) => Reading(u)'
      BY <1>1, <1>5 DEF Reading, Ending, EndPcs
    <2> QED  BY <1>1, <1>5, <2>1, ReadersKept DEF TInv
  <1>10. KeyboardSound'
    BY <1>2, <1>4, TakeByteSound
  <1> QED  BY <1>1, <1>6, <1>7, <1>8, <1>9, <1>10, PlacesKept DEF TInv

LEMMA ReadOnInv ==
    ASSUME TInv, NEW t \in Consoles, tk.pc \in {"scan"} \cup KeyPcs, NEW pc \in {"drain"} \cup KeyPcs,
           NEW scan, NEW want, ReadOn(t, pc, scan, want), TakeByte, ReadQuiet
    PROVE  TInv'
  <1>1. /\ tk' = [TtyAt(pc, t) EXCEPT !.scan = scan, !.want = want]
        /\ UNCHANGED <<tty, fs, call, calls, lost, fsq, cursor, start, vmem, prints, mods,
                       nr_current_console>>
    BY DEF ReadOn, ReadQuiet, TtyQuiet
  <1>2. TaskRecord' /\ tk'.pc = pc /\ tk'.k = t /\ tk'.then = "none"
    BY <1>1 DEF TtyAt, TaskRecord
  <1>3. TaskSound' /\ OutSound' /\ ~KeyScroll'
    BY <1>2, PlainTask, Sizes DEF PlainPcs, Consoles
  <1>4. TerminalsSound' /\ FsSound' /\ ReadersKnown'
    BY <1>1, <1>2, <1>3, PlainStep DEF PlainPcs, KeyPcs
  <1>5. KeyboardSound'
    BY <1>1, TakeByteSound DEF TInv, KeyboardSound
  <1> QED  BY <1>1, <1>3, <1>4, <1>5, PlacesKept DEF TInv

(* A code that is read completes a key of a terminal or begins a longer one. *)
LEMMA KeyStep ==
    ASSUME TInv, keyboard_read \/ ReadE0 \/ ReadRest
    PROVE  /\ TakeByte /\ ReadQuiet /\ tk.pc \in {"scan"} \cup KeyPcs
           /\ \E t \in Consoles :
                \/ \E scan, want : \E pc \in {"drain"} \cup KeyPcs : ReadOn(t, pc, scan, want)
                \/ \E scan, e0 : Decode(t, scan, e0)
  <1>1. TakeByte /\ ReadQuiet
    BY DEF keyboard_read, ReadE0, ReadRest
  <1>2. CASE keyboard_read
    <2>1. tk.pc = "scan" /\ nr_current_console \in Consoles
      BY <1>2 DEF keyboard_read, TInv, KeyboardSound
    <2>2. \/ ReadOn(nr_current_console, "pause", E1, Tail(Pause))
          \/ ReadOn(nr_current_console, "e0", E0, <<>>)
          \/ Decode(nr_current_console, Byte, FALSE)
      BY <1>2 DEF keyboard_read
    <2> QED  BY <1>1, <2>1, <2>2 DEF KeyPcs
  <1>3. CASE ReadE0 \/ ReadRest
    <2>1. tk.pc \in KeyPcs /\ tk.k \in Consoles
      BY <1>3 DEF ReadE0, ReadRest, KeyPcs, TInv, TaskSound, AtTerminal
    <2>2. \/ \E scan, want : \E pc \in {"drain"} \cup KeyPcs : ReadOn(tk.k, pc, scan, want)
          \/ \E scan, e0 : Decode(tk.k, scan, e0)
      <3>1. CASE ReadE0
        BY <3>1 DEF ReadE0, KeyPcs
      <3>2. CASE ReadRest
        <4>1. (IF Len(tk.want) = 1 THEN "drain" ELSE tk.pc) \in {"drain"} \cup KeyPcs
          BY <2>1
        <4> QED  BY <3>2, <4>1 DEF ReadRest
      <3> QED  BY <1>3, <3>1, <3>2
    <2> QED  BY <1>1, <2>1, <2>2
  <1> QED  BY <1>2, <1>3

(* A lock key: the lights are next. *)
LEMMA LockStep ==
    ASSUME NEW t, NEW scan, NEW with_E0, Decode(t, scan, with_E0), tk' = TtyAt("code", t)
    PROVE  UNCHANGED <<tty, nr_current_console>> /\ mods' = ModsAfter(scan, with_E0)
  <1> DEFINE m == ModsAfter(scan, with_E0)
             key == PadKey(Key(scan, with_E0), m["NUM_LOCK"])
  <1>1. mods' = m /\ (in_process(t, key, m) \/ UNCHANGED <<tty, nr_current_console>>)
    BY DEF Decode
  <1> HIDE DEF m, key
  <1>2. ~in_process(t, key, m)
    <2>1. ASSUME in_process(t, key, m) PROVE tk'.pc \in {"drain", "scrl"}
      <3> DEFINE shift == m["SHIFT_L"] \/ m["SHIFT_R"]
                 next == TtyAt("drain", t)
      <3>1. tk' = CASE key = "UP" /\ shift   -> Scrolling(next, t, "SCR_DN", "drain")
                    [] key = "DOWN" /\ shift -> Scrolling(next, t, "SCR_UP", "drain")
                    [] OTHER                 -> next
        BY <2>1 DEF in_process
      <3>2. next.pc = "drain"
        BY DEF TtyAt
      <3>3. \A dir : Scrolling(next, t, dir, "drain").pc = "scrl"
        BY DEF Scrolling, TtyAt
      <3> HIDE DEF shift, next
      <3> QED  BY <3>1, <3>2, <3>3, Zenon
    <2> QED  BY <2>1, FreshTask
  <1> QED  BY <1>1, <1>2 DEF m

LEMMA LockInv ==
    ASSUME TInv, NEW t \in Consoles, tk.pc \in {"scan"} \cup KeyPcs, NEW scan, NEW with_E0,
           Decode(t, scan, with_E0), tk' = TtyAt("code", t), TakeByte, ReadQuiet
    PROVE  TInv'
  <1>1. UNCHANGED <<tty, fs, call, calls, lost, fsq, cursor, start, vmem, prints, nr_current_console>>
    BY LockStep DEF ReadQuiet, TtyQuiet
  <1>2. TaskRecord' /\ tk'.pc = "code" /\ tk'.k = t /\ tk'.then = "none"
    BY FreshTask
  <1>3. TaskSound' /\ OutSound' /\ ~KeyScroll'
    BY <1>2, PlainTask, Sizes DEF PlainPcs, LedPcs, Consoles
  <1>4. TerminalsSound' /\ FsSound' /\ ReadersKnown'
    BY <1>1, <1>2, <1>3, PlainStep DEF PlainPcs, KeyPcs, LedPcs
  <1>5. KeyboardSound'
    BY <1>1, LockStep, ModsTyped, TakeByteSound DEF TInv, KeyboardSound
  <1> QED  BY <1>1, <1>3, <1>4, <1>5, PlacesKept DEF TInv

LEMMA KeyboardReadInv == ASSUME TInv, keyboard_read \/ ReadE0 \/ ReadRest PROVE TInv'
  BY KeyStep, ReadOnInv, DecodeInv, LockInv

(* The lights: TTY goes from one plain place to another. *)
LEMMA LedsInv == ASSUME TInv, set_leds \/ kb_ack PROVE TInv'
  <1>1. /\ tk.pc \in LedPcs /\ \E pc \in LedPcs \cup {"drain"} : tk' = TtyAt(pc, tk.k)
        /\ UNCHANGED <<tty, fs, call, calls, lost, fsq, cursor, start, vmem, prints, kb_in, mods,
                       key_pressed, dropped, has_int_msg, halted, nr_current_console>>
    BY DEF set_leds, kb_ack, TtyQuiet, LedPcs, kbVars, conVars
  <1>2. PICK pc \in LedPcs \cup {"drain"} : tk' = TtyAt(pc, tk.k)
    BY <1>1
  <1>3. TaskRecord' /\ tk'.pc = pc /\ tk'.k = tk.k /\ tk'.then = "none"
    BY <1>2, FreshTask
  <1>4. tk.k \in Consoles
    BY <1>1 DEF TInv, TaskSound, AtTerminal
  <1>5. TaskSound' /\ OutSound' /\ ~KeyScroll'
    BY <1>3, <1>4, PlainTask, Sizes DEF PlainPcs, Consoles
  <1>6. TerminalsSound' /\ FsSound' /\ ReadersKnown'
    BY <1>1, <1>3, <1>5, PlainStep DEF PlainPcs, LedPcs
  <1> QED  BY <1>1, <1>5, <1>6, PlacesKept, KeyboardKept DEF TInv

-----------------------------------------------------------------------------
(***************************************************************************)
(* The theorems                                                            *)
(***************************************************************************)

LEMMA InitInv == Init => TInv
  <1> SUFFICES ASSUME Init PROVE TInv
    OBVIOUS
  <1>1. PICK s \in Scenarios : init_keyboard(s.keys) /\ calls = s.calls /\ prints = s.prints
    BY DEF Init
  <1>2. s.calls \in [Proc -> Seq(Requests)] /\ s.prints \in Seq(Prints) /\ Used \in 0..(V_MEM_LIMIT - 1)
    BY TtyAssumption DEF Prints
  <1>3. /\ tk = TtyAt("scan", 0) /\ fs = FsIdle /\ fsq = <<>> /\ call = [p \in Proc |-> NoCall]
        /\ tty = [t \in Consoles |-> [inbuf |-> <<>>, procnr |-> "none", left |-> 0, trans |-> 0]]
        /\ has_int_msg = FALSE /\ halted = FALSE /\ lost = {} /\ init_screen(Used)
    BY DEF Init
  <1>4. TaskRecord /\ tk.pc = "scan" /\ tk.k = 0 /\ tk.then = "none"
    BY <1>3 DEF TtyAt, TaskRecord
  <1>5. TaskSound /\ OutSound /\ ~Answering
    BY <1>4, Sizes DEF TaskSound, OutSound, Answering, TaskPcs, Putting, KeyScroll, AtTerminal, OutPcs,
           ScrollPcs, KeyPcs, LedPcs, EndPcs
  <1>6. TerminalsSound
    <2>1. tty \in [Consoles -> Terminal]
      BY <1>3 DEF Terminal
    <2> QED  BY <1>3, <1>4, <2>1 DEF TerminalsSound, Ending
  <1>7. FsSound
    <2>1. NoCall \in Calls
      BY ConsolesInt DEF NoCall, Calls
    <2>2. fs \in FsState /\ fs.pc = "recv"
      BY <1>3 DEF FsIdle, FsState
    <2>3. fsq \in Seq(Proc \cup {"TTY"}) /\ Len(fsq) = 0
      BY <1>3
    <2> QED  BY <1>1, <1>2, <1>3, <1>5, <2>1, <2>2, <2>3 DEF FsSound
  <1>8. ReadersKnown
    BY <1>3 DEF ReadersKnown, NoCall
  <1>9. KeyboardSound
    <2>1. /\ kb_in = [buf |-> kb_in.buf, head |-> kb_in.head, tail |-> kb_in.tail, count |-> kb_in.count]
          /\ kb_in.head = 0 /\ kb_in.tail = 0 /\ kb_in.count = 0
      BY <1>1 DEF init_keyboard
    <2>2. mods \in [Modifiers \cup Locks -> BOOLEAN]
      BY <1>1 DEF init_keyboard
    <2>3. key_pressed = FALSE /\ dropped = FALSE /\ nr_current_console = 0
      BY <1>1, <1>3 DEF init_keyboard, init_screen
    <2>4. 0 \in 0..(KB_IN_BYTES - 1) /\ 0 \in 0..KB_IN_BYTES /\ 0 \in Consoles
      BY KeyboardAssumption, ConsolesInt
    <2> QED  BY <1>3, <2>1, <2>2, <2>3, <2>4 DEF KeyboardSound
  <1>10. PlacesSound
    <2>1. /\ cursor = [c \in Consoles |-> IF c = 0 THEN Used ELSE Orig(c) + SCR_WIDTH]
          /\ start = [c \in Consoles |-> Orig(c)]
          /\ vmem = [cell \in Cells |-> Owner(cell)]
      BY <1>3 DEF init_screen
    <2>2. \A c \in Consoles : InConsole(c, cursor[c])
      <3>1. SUFFICES ASSUME NEW c \in Consoles PROVE InConsole(c, cursor[c])
        OBVIOUS
      <3>2. Orig(c) \in Int /\ Orig(0) = 0
        BY ConsolesInt, Sizes DEF Orig
      <3>3. cursor[c] = IF c = 0 THEN Used ELSE Orig(c) + SCR_WIDTH
        BY <2>1
      <3> QED  BY <1>2, <3>2, <3>3, Sizes DEF InConsole
    <2>3. \A c \in Consoles : StartIn(c, start[c])
      <3>1. SUFFICES ASSUME NEW c \in Consoles PROVE StartIn(c, start[c])
        OBVIOUS
      <3>2. Orig(c) \in Int /\ start[c] = Orig(c) /\ Orig(c) - Orig(c) = 0
        BY ConsolesInt, OrigInt, <2>1
      <3>3. 0 % SCR_WIDTH = 0
        BY Sizes
      <3> QED  BY <3>2, <3>3, Sizes DEF StartIn
    <2>4. \A cell \in Cells : CellOf(cell, vmem[cell])
      <3>1. SUFFICES ASSUME NEW cell \in Cells PROVE CellOf(cell, Owner(cell))
        BY <2>1
      <3>2. cell \in Int
        BY Sizes DEF Cells
      <3>3. /\ Owner(cell) \in Int /\ Owner(cell) * V_MEM_LIMIT <= cell
            /\ cell < Owner(cell) * V_MEM_LIMIT + V_MEM_LIMIT
        BY <3>2, Sizes DEF Owner
      <3>4. Owner(cell) * V_MEM_LIMIT \in Int
        BY <3>3, Sizes
      <3> QED  BY <3>2, <3>3, <3>4, Sizes DEF CellOf, Orig
    <2> QED  BY <1>1, <1>2, <2>1, <2>2, <2>3, <2>4 DEF PlacesSound
  <1> QED  BY <1>5, <1>6, <1>7, <1>8, <1>9, <1>10 DEF TInv

LEMMA NextInv == TInv /\ [Next]_vars => TInv'
  <1> SUFFICES ASSUME TInv, [Next]_vars PROVE TInv'
    OBVIOUS
  <1>1. ASSUME NEW p \in Proc, Call(p) PROVE TInv'
    BY <1>1, CallInv
  <1>2. CASE task_fs
    BY <1>2, FsReceiveInv, DoRdwtInv, FsAnswerInv DEF task_fs
  <1>3. CASE out_char
    BY <1>3, OutCheckInv, OutReadInv, OutMoveInv, OutLoopInv, ScrollCheckInv, ScrollReadInv,
       ScrollWriteInv DEF out_char
  <1>4. CASE task_tty
    BY <1>4, <1>3, TtyDevReadInv, KeyboardReadInv, LedsInv, TtyDevWriteInv, TtyStoreInv, TtyResumeInv,
       TtyResumedInv, ReceiveInterruptInv, ReceiveRequestInv, TtyDoWriteInv, TtyReplyInv DEF task_tty
  <1>5. CASE ClockTick \/ KeyInterrupt
    BY <1>5, InterruptInv
  <1>6. CASE Printx
    BY <1>6, PrintxInv
  <1>7. CASE UNCHANGED vars
    <2>1. UNCHANGED <<tty, tk, has_int_msg, fs, fsq, call, lost, calls, prints, halted, cursor, start, vmem,
                      nr_current_console, kb_in, mods, key_pressed, dropped>>
      BY <1>7 DEF vars, kbVars, conVars, taskVars, ioVars
    <2>2. FsSound'
      BY <2>1 DEF TInv, FsSound, Answering
    <2> QED  BY <2>1, <2>2, TaskKept, OutKept, PlacesKept, KeyboardKept, ReadersKept, ReadingKept DEF TInv
  <1> QED  BY <1>1, <1>2, <1>4, <1>5, <1>6, <1>7 DEF Next

(* Every reachable state of the terminals satisfies the inductive invariant. *)
THEOREM TtyInvariant == Spec => []TInv
  BY InitInv, NextInv, PTL DEF Spec

(* TypeOK: the ring's indexes, the modifiers and the places of TTY and FS stay  *)
(* in range, a terminal's buffer never holds more than one character, and FS    *)
(* waits only while TTY is on its way to answer (tty.c, keyboard.c).            *)
THEOREM TtyTypeCorrect == Spec => []TypeOK
  <1>1. TInv => TypeOK
    <2> SUFFICES ASSUME TInv PROVE TypeOK
      OBVIOUS
    <2>1. /\ tk.pc \in TaskPcs /\ tk.k \in 0..NR_CONSOLES
      BY DEF TInv, TaskSound
    <2>2. \A t \in Consoles : /\ tty[t].procnr \in Proc \cup {"none"}
                              /\ tty[t].left \in Nat /\ tty[t].trans \in Nat
                              /\ Len(tty[t].inbuf) <= 1
      BY DEF TInv, TerminalsSound, Terminal
    <2>3. /\ fs.pc \in {"recv", "call", "send", "wait", "got"} /\ lost \subseteq Proc
          /\ fs.pc = "wait" => tk.pc = "reply" \/ tk.pc = "write" \/ tk.then = "write"
      BY DEF TInv, FsSound, FsState, Answering
    <2>4. \A p \in Proc : call[p].st \in {"ready", "sending", "waiting"}
      BY DEF TInv, FsSound, Calls
    <2>5. tk.pc \in {"scan", "e0", "pause", "print", "code", "ack1", "leds", "ack2", "drain", "check", "read", "move", "loop",
                  "scrl", "scrr", "scrw", "store", "resume", "sending", "resumed", "recv", "clear", "write",
                  "reply"}
      BY <2>1 DEF TaskPcs, OutPcs, ScrollPcs, KeyPcs, LedPcs, EndPcs
    <2> QED  BY <2>1, <2>2, <2>3, <2>4, <2>5 DEF TInv, KeyboardSound, TypeOK
  <1> QED  BY <1>1, TtyInvariant, PTL

(* SuspendedReaderKnown: a process that FS has suspended in a read is known to *)
(* FS or to TTY, unless another read of its terminal has overwritten the       *)
(* request or it asked for nothing (tty.c:354-366, 164-200, fs/main.c:51-76).  *)
THEOREM ReadersAreKnown == Spec => []SuspendedReaderKnown
  <1>1. TInv => SuspendedReaderKnown
    BY DEF TInv, ReadersKnown, SuspendedReaderKnown, FsHas, TtyHas
  <1> QED  BY <1>1, TtyInvariant, PTL

(* ConsoleSound: whatever printx() does between two accesses of out_char() or  *)
(* scroll_screen(), the cursor leaves its console by less than a line, the     *)
(* screen starts on a line of it, and no other cells are written than its own, *)
(* the one before them and those of one line behind (console.c:57-175).        *)
THEOREM ConsolesAreSound == Spec => []ConsoleSound
  <1>1. TInv => ConsoleSound
    <2> SUFFICES ASSUME TInv PROVE ConsoleSound
      OBVIOUS
    <2>1. ASSUME NEW c \in Consoles
          PROVE  /\ cursor[c] \in Orig(c) .. Orig(c) + V_MEM_LIMIT + SCR_WIDTH - 1
                 /\ start[c] \in Orig(c) .. Orig(c) + V_MEM_LIMIT - 1
                 /\ (start[c] - Orig(c)) % SCR_WIDTH = 0
      <3>1. InConsole(c, cursor[c]) /\ StartIn(c, start[c]) /\ Orig(c) \in Int
        BY ConsolesInt, OrigInt DEF TInv, PlacesSound
      <3> QED  BY <3>1, Sizes DEF InConsole, StartIn
    <2>2. ASSUME NEW cell \in Cells
          PROVE  cell \in Orig(vmem[cell]) - 1 .. Orig(vmem[cell]) + V_MEM_LIMIT + SCR_WIDTH - 2
      <3>1. CellOf(cell, vmem[cell]) /\ cell \in Int
        BY Sizes DEF TInv, PlacesSound, Cells
      <3>2. Orig(vmem[cell]) \in Int
        BY <3>1, OrigInt DEF CellOf
      <3> QED  BY <3>1, <3>2, Sizes DEF CellOf
    <2> QED  BY <2>1, <2>2 DEF ConsoleSound
  <1> QED  BY <1>1, TtyInvariant, PTL
-----------------------------------------------------------------------------
(***************************************************************************)
(* The line a reader gets                                                  *)
(***************************************************************************)

\* TTY has taken a character of terminal t, and has still to store it.
Storing(t) == tk.k = t /\ (tk.pc = "store" \/ tk.then = "store")

\* What the reader of terminal t has got, and the characters before the last.
Text(t) == SubSeq(ubuf[tty[t].procnr], 1, tty[t].trans)
Before(s) == SubSeq(s, 1, Len(s) - 1)
HasFeed(s) == \E i \in 1..Len(s) : s[i] = "LF"

\* A process is in FS's queue once, while it is sending; it is waiting when FS
\* has its call, and FS answers a read only with what TTY tells it.
QueueSound ==
    /\ \A i \in 1..Len(fsq) : fsq[i] # "TTY" => call[fsq[i]].st = "sending"
    /\ \A i, j \in 1..Len(fsq) : fsq[i] = fsq[j] => i = j
    /\ fs.pc # "recv" => call[fs.p].st = "waiting"
    /\ fs.pc \in {"wait", "got"} /\ fs.reply = "SYSCALL_RET" => call[fs.p].type # "READ"
    /\ fs.pc = "wait" => fs.reply # "RESUME_PROC"

\* FS is not dealing with the call of p other than to leave it suspended.
FsLeaves(p) ==
    fs.pc # "recv" /\ fs.p = p => fs.pc \in {"wait", "got"} /\ fs.reply = "SUSPEND_PROC"

\* The terminal that is read and its reader's call belong together.
ReadSound(t) ==
    LET p == tty[t].procnr
    IN  /\ call[p].st = "waiting" /\ call[p].type = "READ" /\ call[p].t = t
        /\ FsLeaves(p)
        /\ tty[t].trans + tty[t].left = call[p].n
        /\ tty[t].trans <= Len(ubuf[p])

\* The text is the edited line, but for the character that is being put out.
LineSound(t) ==
    IF Storing(t)
    THEN /\ chars[t] = Append(Before(chars[t]), tk.ch) /\ chars[t] # <<>>
         /\ tk.ch \in Printable \cup {"BS"}
         /\ Text(t) = Edited(Before(chars[t])) /\ ~HasFeed(Before(chars[t]))
    ELSE /\ Text(t) = Edited(chars[t])
         /\ HasFeed(chars[t]) => Ending(t)

\* FS is about to resume a reader: TTY has given it its line and let go of it.
ResumeSound ==
    fs.pc = "got" /\ fs.reply = "RESUME_PROC" =>
      LET t == call[fs.p].t
      IN  /\ t \in Consoles /\ ~Reading(t)
          /\ SubSeq(ubuf[fs.p], 1, fs.cnt) = Edited(chars[t])

LInv ==
    /\ ubuf \in [Proc -> Seq(Bytes)] /\ chars \in [Consoles -> Seq(Bytes)]
    /\ QueueSound
    /\ \A t \in Consoles : Reading(t) => ReadSound(t) /\ LineSound(t)
    /\ ResumeSound

(* What the next character does to a line. *)
Typed(line, ch) ==
    IF ch \in Printable THEN Append(line, ch)
    ELSE IF ch = "BS" /\ line # <<>> THEN SubSeq(line, 1, Len(line) - 1)
    ELSE line

\* f gives the lines after 0, 1, .. Len(s) characters of s.
IsLine(f, s) ==
    f = [i \in 0..Len(s) |->
          IF i = 0 THEN <<>>
          ELSE IF s[i] \in Printable THEN Append(f[i - 1], s[i])
          ELSE IF s[i] = "BS" /\ f[i - 1] # <<>>
               THEN SubSeq(f[i - 1], 1, Len(f[i - 1]) - 1)
          ELSE f[i - 1]]

LEMMA IsLinePlaces ==
    ASSUME NEW f, NEW s, Len(s) \in Nat
    PROVE  IsLine(f, s) <=> /\ f = [i \in 0..Len(s) |-> f[i]] /\ f[0] = <<>>
                            /\ \A i \in 1..Len(s) : f[i] = Typed(f[i - 1], s[i])
  <1> DEFINE e(i) == IF i = 0 THEN <<>>
                     ELSE IF s[i] \in Printable THEN Append(f[i - 1], s[i])
                     ELSE IF s[i] = "BS" /\ f[i - 1] # <<>>
                          THEN SubSeq(f[i - 1], 1, Len(f[i - 1]) - 1)
                     ELSE f[i - 1]
  <1>1. IsLine(f, s) <=> f = [i \in 0..Len(s) |-> e(i)]
    BY DEF IsLine
  <1>2. e(0) = <<>> /\ \A i \in 1..Len(s) : e(i) = Typed(f[i - 1], s[i])
    BY DEF Typed
  <1> HIDE DEF e
  <1>3. 0 \in 0..Len(s) /\ 1..Len(s) \subseteq 0..Len(s)
        /\ \A i \in 0..Len(s) : i = 0 \/ i \in 1..Len(s)
    OBVIOUS
  <1>4. ASSUME f = [i \in 0..Len(s) |-> e(i)]
        PROVE  /\ f = [i \in 0..Len(s) |-> f[i]] /\ f[0] = <<>>
               /\ \A i \in 1..Len(s) : f[i] = Typed(f[i - 1], s[i])
    <2>1. \A i \in 0..Len(s) : f[i] = e(i)
      BY <1>4
    <2>2. f = [i \in 0..Len(s) |-> f[i]]
      BY <1>4, <2>1
    <2> QED  BY <1>2, <1>3, <2>1, <2>2
  <1>5. ASSUME f = [i \in 0..Len(s) |-> f[i]], f[0] = <<>>,
               \A i \in 1..Len(s) : f[i] = Typed(f[i - 1], s[i])
        PROVE  f = [i \in 0..Len(s) |-> e(i)]
    <2>1. \A i \in 0..Len(s) : f[i] = e(i)
      BY <1>2, <1>3, <1>5
    <2> QED  BY <1>5, <2>1
  <1> QED  BY <1>1, <1>4, <1>5

(* The lines of a sequence and of its beginnings exist, *)
LEMMA LineExists ==
    ASSUME NEW s \in Seq(Bytes), NEW f, IsLine(f, s), NEW ch \in Bytes
    PROVE  \E g : IsLine(g, Append(s, ch))
  <1>1. PICK n \in Nat : n = Len(s)
    OBVIOUS
  <1>2. PICK r : r = Append(s, ch)
    OBVIOUS
  <1>3. Len(r) = n + 1 /\ r[n + 1] = ch /\ \A i \in 1..n : r[i] = s[i]
    BY <1>1, <1>2
  <1>4. f[0] = <<>> /\ \A i \in 1..n : f[i] = Typed(f[i - 1], s[i])
    BY <1>1, IsLinePlaces
  <1>5. PICK last : last = Typed(f[n], ch)
    OBVIOUS
  <1>6. PICK g : g = [i \in 0..n + 1 |-> IF i <= n THEN f[i] ELSE last]
    OBVIOUS
  <1>7. /\ g = [i \in 0..n + 1 |-> g[i]] /\ (\A i \in 0..n : g[i] = f[i])
        /\ g[n + 1] = last /\ g[0] = <<>>
    BY <1>1, <1>4, <1>6
  <1>8. ASSUME NEW i \in 1..n + 1 PROVE g[i] = Typed(g[i - 1], r[i])
    <2>1. i - 1 \in 0..n
      BY <1>1
    <2>2. CASE i = n + 1
      <3>1. i - 1 = n /\ n \in 0..n
        BY <1>1, <2>2
      <3> QED  BY <1>3, <1>5, <1>7, <2>2, <3>1
    <2>3. CASE i # n + 1
      <3>1. i \in 1..n /\ i \in 0..n
        BY <1>1, <2>3
      <3> QED  BY <1>3, <1>4, <1>7, <2>1, <3>1
    <2> QED  BY <2>2, <2>3
  <1>9. IsLine(g, r)
    <2>1. /\ Len(r) \in Nat /\ g = [i \in 0..Len(r) |-> g[i]]
          /\ \A i \in 1..Len(r) : g[i] = Typed(g[i - 1], r[i])
      <3>1. Len(r) = n + 1 /\ n + 1 \in Nat
        BY <1>1, <1>3
      <3> QED  BY Zenon, <1>7, <1>8, <3>1
    <2> QED  BY Zenon, <1>7, <2>1, IsLinePlaces
  <1> QED  BY <1>2, <1>9

Begins(s, r) == Len(s) <= Len(r) /\ \A i \in 1..Len(s) : r[i] = s[i]

(* and there is only one such function; *)
LEMMA LineUnique ==
    ASSUME NEW s \in Seq(Bytes), NEW r \in Seq(Bytes), Begins(s, r),
           NEW f, IsLine(f, s), NEW g, IsLine(g, r)
    PROVE  f[Len(s)] = g[Len(s)]
  <1>1. PICK n \in Nat : n = Len(s)
    OBVIOUS
  <1>2. PICK m \in Nat : m = Len(r)
    OBVIOUS
  <1>3. f[0] = <<>> /\ \A i \in 1..n : f[i] = Typed(f[i - 1], s[i])
    BY <1>1, IsLinePlaces
  <1>4. g[0] = <<>> /\ \A i \in 1..m : g[i] = Typed(g[i - 1], r[i])
    BY <1>2, IsLinePlaces
  <1> DEFINE T == {i \in 0..n : f[i] # g[i]}
  <1>5. ASSUME T # {} PROVE FALSE
    <2>1. T \in SUBSET Nat
      BY <1>1
    <2>2. PICK i \in T : \A j \in T : i <= j
      BY <1>5, <2>1, LeastNat
    <2>3. i # 0
      BY <1>3, <1>4, <2>2
    <2>4. i \in 1..n /\ i \in 1..m /\ i - 1 \in 0..n /\ ~(i <= i - 1)
      BY <1>1, <1>2, <2>2, <2>3 DEF Begins
    <2>5. f[i - 1] = g[i - 1] /\ r[i] = s[i]
      BY <1>1, <2>2, <2>4 DEF Begins
    <2> QED  BY <1>3, <1>4, <2>2, <2>4, <2>5
  <1> QED  BY <1>1, <1>5

LEMMA LineOfSequence ==
    ASSUME NEW s \in Seq(Bytes)
    PROVE  \E f : IsLine(f, s)
  <1> DEFINE T == {n \in Nat : \E r \in Seq(Bytes) : Len(r) = n /\ ~\E f : IsLine(f, r)}
  <1>1. ASSUME T # {} PROVE FALSE
    <2>1. PICK n \in T : \A m \in T : n <= m
      BY <1>1, LeastNat
    <2>2. PICK r \in Seq(Bytes) : Len(r) = n /\ ~\E f : IsLine(f, r)
      BY <2>1
    <2>3. n # 0
      <3>1. SUFFICES ASSUME n = 0 PROVE FALSE
        OBVIOUS
      <3>2. PICK f : f = [i \in 0..0 |-> <<>>]
        OBVIOUS
      <3>3. IsLine(f, r)
        <4>1. f = [i \in 0..0 |-> f[i]] /\ f[0] = <<>>
          BY <3>2
        <4>2. Len(r) \in Nat /\ f = [i \in 0..Len(r) |-> f[i]] /\ \A i \in 1..Len(r) : FALSE
          BY <2>2, <3>1, <4>1
        <4> QED  BY Zenon, <4>1, <4>2, IsLinePlaces
      <3> QED  BY <2>2, <3>3
    <2>4. n \in Nat /\ n - 1 \in Nat /\ ~(n <= n - 1)
      BY <2>1, <2>3
    <2>5. PICK q \in Seq(Bytes), ch \in Bytes : r = Append(q, ch) /\ Len(q) = n - 1
      <3>1. PICK q : q = SubSeq(r, 1, n - 1)
        OBVIOUS
      <3>2. q \in Seq(Bytes) /\ Len(q) = n - 1 /\ r[n] \in Bytes
        BY <2>2, <2>3, <2>4, <3>1
      <3>3. r = Append(q, r[n])
        BY <2>2, <2>3, <2>4, <3>1, <3>2
      <3> QED  BY <3>2, <3>3
    <2>6. PICK f : IsLine(f, q)
      BY <2>1, <2>4, <2>5
    <2> QED  BY <2>2, <2>5, <2>6, LineExists
  <1>2. Len(s) \in Nat
    OBVIOUS
  <1> QED  BY <1>1, <1>2

(* so the edited line follows the characters, one after the other. *)
LEMMA EditedLine ==
    ASSUME NEW s \in Seq(Bytes)
    PROVE  \E f : IsLine(f, s) /\ Edited(s) = f[Len(s)]
  <1>1. \E f : IsLine(f, s)
    BY LineOfSequence
  <1>2. PICK f : f = CHOOSE g : IsLine(g, s)
    OBVIOUS
  <1>3. IsLine(f, s)
    BY Zenon, <1>1, <1>2
  <1>4. Edited(s) = (CHOOSE g : IsLine(g, s))[Len(s)]
    BY DEF Edited, IsLine
  <1> QED  BY <1>2, <1>3, <1>4

LEMMA EditedNone == Edited(<<>>) = <<>>
  <1>1. <<>> \in Seq(Bytes) /\ Len(<<>>) = 0
    OBVIOUS
  <1>2. PICK f : IsLine(f, <<>>) /\ Edited(<<>>) = f[Len(<<>>)]
    BY <1>1, EditedLine
  <1> QED  BY <1>1, <1>2, IsLinePlaces

LEMMA EditedAppend ==
    ASSUME NEW s \in Seq(Bytes), NEW ch \in Bytes
    PROVE  Edited(Append(s, ch)) = Typed(Edited(s), ch)
  <1>1. PICK n \in Nat : n = Len(s)
    OBVIOUS
  <1>2. PICK r : r = Append(s, ch) /\ r \in Seq(Bytes)
    <2>1. Append(s, ch) \in Seq(Bytes)
      OBVIOUS
    <2> QED  BY <2>1
  <1>3. Len(r) = n + 1 /\ r[n + 1] = ch /\ \A i \in 1..n : r[i] = s[i]
    BY <1>1, <1>2
  <1>4. PICK f : IsLine(f, s) /\ Edited(s) = f[n]
    BY <1>1, EditedLine
  <1>5. PICK g : IsLine(g, r) /\ Edited(r) = g[n + 1]
    BY <1>2, <1>3, EditedLine
  <1>6. f[n] = g[n]
    <2>1. Begins(s, r)
      BY <1>1, <1>3 DEF Begins
    <2>2. r \in Seq(Bytes) /\ IsLine(f, s) /\ IsLine(g, r)
      BY Zenon, <1>2, <1>4, <1>5
    <2>3. f[Len(s)] = g[Len(s)]
      BY <2>1, <2>2, LineUnique
    <2> QED  BY <1>1, <2>3
  <1>7. g[n + 1] = Typed(g[n], ch)
    <2>1. n + 1 \in 1..Len(r) /\ (n + 1) - 1 = n
      BY <1>1, <1>3
    <2> QED  BY <1>3, <1>5, <2>1, IsLinePlaces
  <1> QED  BY <1>2, <1>4, <1>5, <1>6, <1>7

(* A terminal is read as before when nothing changes for it and its reader. *)
LEMMA ReadKept ==
    ASSUME NEW t \in Consoles, NEW p, p = tty[t].procnr, ReadSound(t), LineSound(t),
           tty'[t].procnr = p, tty'[t].left = tty[t].left, tty'[t].trans = tty[t].trans,
           ubuf'[p] = ubuf[p], chars'[t] = chars[t], call'[p] = call[p], FsLeaves(p)',
           Storing(t)' <=> Storing(t), Storing(t) => tk'.ch = tk.ch, Ending(t) => Ending(t)'
    PROVE  ReadSound(t)' /\ LineSound(t)'
  <1>1. ReadSound(t)'
    BY DEF ReadSound
  <1>2. Text(t)' = Text(t)
    BY DEF Text
  <1>3. Edited(chars'[t]) = Edited(chars[t]) /\ Edited(Before(chars'[t])) = Edited(Before(chars[t]))
    BY Zenon
  <1>4. LineSound(t)'
    BY <1>2, <1>3 DEF LineSound, HasFeed, Before
  <1> QED  BY <1>1, <1>4

(* A reading terminal has a reader, and no two have the same. *)
LEMMA ReaderOf ==
    ASSUME TInv, LInv, NEW t \in Consoles, Reading(t)
    PROVE  /\ tty[t].procnr \in Proc
           /\ \A u \in Consoles : Reading(u) /\ tty[u].procnr = tty[t].procnr => u = t
  <1>1. tty[t].procnr \in Proc
    BY DEF TInv, TerminalsSound, Reading, Ending
  <1> QED  BY <1>1 DEF LInv, ReadSound

(* A step that only moves TTY on, as far as readers can tell. *)
LEMMA LinesKept ==
    ASSUME TInv, LInv, UNCHANGED <<ubuf, chars, call, fs, fsq>>,
           \A t \in Consoles :
             /\ tty'[t].procnr = tty[t].procnr
             /\ tty'[t].left = tty[t].left /\ tty'[t].trans = tty[t].trans
             /\ Reading(t)' => Reading(t)
             /\ Storing(t)' <=> Storing(t)
             /\ Storing(t) => tk'.ch = tk.ch
             /\ Ending(t) => Ending(t)'
    PROVE  LInv'
  <1>1. QueueSound'
    BY DEF LInv, QueueSound
  <1>2. ASSUME NEW t \in Consoles, Reading(t)' PROVE ReadSound(t)' /\ LineSound(t)'
    <2>1. ReadSound(t) /\ LineSound(t)
      BY <1>2 DEF LInv
    <2>2. FsLeaves(tty[t].procnr)'
      BY <2>1 DEF ReadSound, FsLeaves
    <2> QED  BY <2>1, <2>2, ReadKept
  <1>3. ResumeSound'
    BY DEF LInv, ResumeSound
  <1> QED  BY <1>1, <1>2, <1>3 DEF LInv

(* TTY neither takes a character for a reader nor ends a read. *)
LEMMA PlainLines ==
    ASSUME TInv, LInv, UNCHANGED <<ubuf, chars, call, fs, fsq>>,
           \A t \in Consoles : /\ tty'[t].procnr = tty[t].procnr
                               /\ tty'[t].left = tty[t].left /\ tty'[t].trans = tty[t].trans,
           tk.pc \notin {"store", "resumed"} \cup EndPcs, tk.then \notin {"store", "resume"},
           tk'.pc \notin {"store", "resumed"} \cup EndPcs, tk'.then \notin {"store", "resume"}
    PROVE  LInv'
  <1>1. \A t \in Consoles : ~Storing(t) /\ ~Storing(t)' /\ ~Ending(t) /\ ~Ending(t)'
    BY DEF Storing, Ending, EndPcs
  <1>2. \A t \in Consoles : Reading(t)' => Reading(t)
    BY <1>1 DEF Reading
  <1> QED  BY <1>1, <1>2, LinesKept

(* out_char() and scroll_screen(). *)
LEMMA OutLines == ASSUME TInv, TInv', LInv, out_char PROVE LInv'
  <1>1. /\ tk'.k = tk.k /\ tk'.ch = tk.ch
        /\ tk.pc \in OutPcs \cup ScrollPcs
        /\ \/ tk'.then = tk.then /\ tk'.pc \in OutPcs \cup ScrollPcs \cup {"drain"}
           \/ tk'.pc = tk.then /\ tk'.then = "none" /\ Putting
    <2>1. TaskRecord /\ (tk.pc \in ScrollPcs => tk.ret \in {"loop", "drain"})
      BY DEF TInv, TaskSound
    <2>2. CASE OutCheck
      BY <2>1, <2>2 DEF OutCheck, TaskRecord, OutPcs
    <2>3. CASE OutRead
      BY <2>1, <2>3 DEF OutRead, TaskRecord, OutPcs
    <2>4. CASE OutMove
      BY <2>1, <2>4 DEF OutMove, TaskRecord, OutPcs
    <2>5. CASE OutLoop
      <3>1. \/ tk' = Scrolling(tk, tk.c, "SCR_DN", "loop")
            \/ tk' = [tk EXCEPT !.pc = tk.then, !.vm = 0, !.then = "none", !.ret = "none"]
        BY <2>5 DEF OutLoop
      <3>2. tk.pc = "loop"
        BY <2>5 DEF OutLoop
      <3> QED  BY <2>1, <3>1, <3>2 DEF Scrolling, TaskRecord, OutPcs, ScrollPcs, Putting
    <2>6. CASE ScrollCheck
      BY <2>1, <2>6 DEF ScrollCheck, TaskRecord, ScrollPcs, OutPcs
    <2>7. CASE ScrollRead
      BY <2>1, <2>7 DEF ScrollRead, TaskRecord, ScrollPcs
    <2>8. CASE ScrollWrite
      BY <2>1, <2>8 DEF ScrollWrite, TaskRecord, ScrollPcs, OutPcs
    <2> QED  BY <2>2, <2>3, <2>4, <2>5, <2>6, <2>7, <2>8 DEF out_char
  <1>2. UNCHANGED <<tty, ubuf, chars, call, fs, fsq>>
    BY DEF out_char, OutCheck, OutRead, OutMove, OutLoop, ScrollCheck, ScrollRead, ScrollWrite,
           OutQuiet, TtyQuiet
  <1>3. tk.pc \notin EndPcs \cup {"resumed", "store"} /\ tk'.pc # "resumed"
    BY <1>1 DEF TInv, TaskSound, EndPcs, OutPcs, ScrollPcs
  <1>4. \A t \in Consoles : (Storing(t)' <=> Storing(t)) /\ (Ending(t)' <=> Ending(t))
    BY <1>1, <1>3 DEF TInv, TaskSound, Storing, Ending, EndPcs, OutPcs, ScrollPcs
  <1>5. \A t \in Consoles : Reading(t)' => Reading(t)
    BY <1>2, <1>3, <1>4 DEF Reading
  <1> QED  BY <1>1, <1>2, <1>4, <1>5, LinesKept

LEMMA KeyLines == ASSUME TInv, LInv, keyboard_read \/ ReadE0 \/ ReadRest PROVE LInv'
  <1>1. ReadQuiet /\ tk.pc \in {"scan"} \cup KeyPcs
    BY KeyStep
  <1>2. PICK t \in Consoles : \/ \E scan, want : \E pc \in {"drain"} \cup KeyPcs : ReadOn(t, pc, scan, want)
                              \/ \E scan, e0 : Decode(t, scan, e0)
    BY KeyStep
  <1>3. /\ tk.then = "none" /\ tk.pc \notin {"store", "resumed"} \cup EndPcs
        /\ UNCHANGED <<ubuf, chars, call, fs, fsq>>
    BY <1>1 DEF TInv, TaskSound, Putting, KeyPcs, OutPcs, ScrollPcs, EndPcs, ReadQuiet, TtyQuiet
  <1>4. CASE \E scan, want : \E pc \in {"drain"} \cup KeyPcs : ReadOn(t, pc, scan, want)
    <2>1. PICK scan, want : \E pc \in {"drain"} \cup KeyPcs : ReadOn(t, pc, scan, want)
      BY <1>4
    <2>2. PICK pc \in {"drain"} \cup KeyPcs : ReadOn(t, pc, scan, want)
      BY <2>1
    <2>3. tty' = tty /\ tk' = [TtyAt(pc, t) EXCEPT !.scan = scan, !.want = want]
      BY <2>2 DEF ReadOn
    <2>4. tk'.pc = pc /\ tk'.then = "none"
      BY <2>3 DEF TtyAt
    <2> QED  BY <1>3, <2>3, <2>4, PlainLines DEF KeyPcs, EndPcs
  <1>5. CASE \E scan, e0 : Decode(t, scan, e0)
    <2>1. PICK scan, e0 : Decode(t, scan, e0)
      BY <1>5
    <2>2. /\ \A u \in Consoles : /\ tty'[u].procnr = tty[u].procnr
                                 /\ tty'[u].left = tty[u].left /\ tty'[u].trans = tty[u].trans
          /\ tk'.then = "none" /\ tk'.pc \in {"drain", "scrl", "code"}
      <3>1. CASE tk' = TtyAt("code", t)
        BY <2>1, <3>1, LockStep, FreshTask
      <3>2. CASE tk' # TtyAt("code", t)
        BY <1>1, <2>1, <3>2, DecodeStep
      <3> QED  BY <3>1, <3>2
    <2> QED  BY <1>3, <2>2, PlainLines DEF EndPcs
  <1> QED  BY <1>2, <1>4, <1>5

(* TTY at the loop over the terminals, at the lights, receiving, and writing for *)
(* a process.                                                                   *)
LEMMA PlaceLines ==
    ASSUME TInv, LInv,
           tty_dev_read \/ set_leds \/ kb_ack \/ ReceiveInterrupt \/ ClearKeyPressed \/ tty_do_write
    PROVE  LInv'
  <1>1. /\ tk.pc \in {"scan", "recv", "clear", "write"} \cup LedPcs
        /\ UNCHANGED <<tty, ubuf, chars, call, fs, fsq>>
    BY DEF tty_dev_read, set_leds, kb_ack, LedPcs, ReceiveInterrupt, ClearKeyPressed, tty_do_write, TtyQuiet,
           ioVars
  <1>2. tk.then = "none" /\ TaskRecord
    BY <1>1 DEF TInv, TaskSound, Putting, OutPcs, ScrollPcs, LedPcs
  <1>3. /\ tk'.pc \in {"recv", "clear", "scan", "reply", "check", "drain"} \cup LedPcs
        /\ tk'.then \in {"none", "write"}
    <2>1. CASE tty_dev_read \/ set_leds \/ kb_ack \/ ReceiveInterrupt \/ ClearKeyPressed
      BY <2>1 DEF tty_dev_read, set_leds, kb_ack, LedPcs, ReceiveInterrupt, ClearKeyPressed, TtyAt
    <2>2. CASE tty_do_write
      <3>1. CASE tk.out = <<>>
        BY <2>2, <3>1 DEF tty_do_write, TtyAt
      <3>2. CASE tk.out # <<>>
        <4>1. tk' = [OutChar(tk.c, Head(tk.out), "write") EXCEPT !.out = Tail(@)]
          BY <2>2, <3>2 DEF tty_do_write
        <4> QED  BY <1>2, <4>1 DEF OutChar, TaskRecord
      <3> QED  BY <3>1, <3>2
    <2> QED  BY <2>1, <2>2
  <1> QED  BY <1>1, <1>2, <1>3, PlainLines DEF EndPcs, LedPcs

(* Steps of others than TTY, FS and their callers. *)
LEMMA AsideLines ==
    ASSUME TInv, LInv, UNCHANGED <<tty, tk, ubuf, chars, call, fs, fsq>>
    PROVE  LInv'
  <1>1. \A t \in Consoles : /\ Storing(t)' <=> Storing(t)
                            /\ Ending(t)' <=> Ending(t)
                            /\ Reading(t)' <=> Reading(t)
    BY DEF Storing, Ending, Reading
  <1> QED  BY <1>1, LinesKept

(* A process calls: it was ready, so neither FS nor a terminal knows it. *)
LEMMA CallLines == ASSUME TInv, LInv, NEW p \in Proc, Call(p) PROVE LInv'
  <1>1. /\ UNCHANGED <<tty, tk, fs, ubuf, chars>>
        /\ call' = [call EXCEPT ![p] = Head(calls[p])]
        /\ fsq' = Append(fsq, p) /\ calls[p] # <<>> /\ call[p].st = "ready"
    BY DEF Call
  <1>2. /\ calls[p] \in Seq(Requests) /\ fsq \in Seq(Proc \cup {"TTY"})
        /\ call \in [Proc -> Calls] /\ (fs.pc # "recv" => fs.p \in Proc)
    BY DEF TInv, FsSound
  <1>3. Head(calls[p]).st = "sending"
    <2>1. Head(calls[p]) \in Requests
      BY <1>1, <1>2
    <2> QED  BY <2>1 DEF Requests
  <1>4. call'[p].st = "sending" /\ \A q \in Proc : q # p => call'[q] = call[q]
    BY <1>1, <1>2, <1>3
  <1>5. QueueSound'
    <2>1. \A i \in 1..Len(fsq) : fsq[i] # p
      BY <1>1, TtyAssumption DEF LInv, QueueSound
    <2>2. PICK n \in Nat : n = Len(fsq)
      BY <1>2
    <2>3. Len(fsq') = n + 1 /\ fsq'[n + 1] = p /\ \A i \in 1..n : fsq'[i] = fsq[i]
      BY <1>1, <1>2, <2>2
    <2>4. \A i \in 1..n + 1 : i \in 1..n \/ i = n + 1
      BY <2>2
    <2>5. \A i \in 1..n : fsq[i] # "TTY" => call'[fsq[i]].st = "sending"
      <3> SUFFICES ASSUME NEW i \in 1..n, fsq[i] # "TTY" PROVE call'[fsq[i]].st = "sending"
        OBVIOUS
      <3>1. fsq[i] \in Proc /\ fsq[i] # p
        BY <1>2, <2>1, <2>2
      <3> QED  BY <1>4, <2>2, <3>1 DEF LInv, QueueSound
    <2>6. \A i \in 1..Len(fsq') : fsq'[i] # "TTY" => call'[fsq'[i]].st = "sending"
      BY <1>4, <2>3, <2>4, <2>5
    <2>7. \A i, j \in 1..Len(fsq') : fsq'[i] = fsq'[j] => i = j
      BY <2>1, <2>2, <2>3, <2>4 DEF LInv, QueueSound
    <2>8. fs.pc # "recv" => call'[fs.p] = call[fs.p]
      BY <1>1, <1>2, <1>4 DEF LInv, QueueSound
    <2> QED  BY <1>1, <2>6, <2>7, <2>8 DEF LInv, QueueSound
  <1>6. ASSUME NEW t \in Consoles, Reading(t)' PROVE ReadSound(t)' /\ LineSound(t)'
    <2>1. Reading(t) /\ (Storing(t)' <=> Storing(t)) /\ (Ending(t)' <=> Ending(t))
      BY <1>1, <1>6 DEF Reading, Storing, Ending
    <2>2. ReadSound(t) /\ LineSound(t) /\ tty[t].procnr \in Proc
      BY <2>1, ReaderOf DEF LInv
    <2>3. call'[tty[t].procnr] = call[tty[t].procnr]
      BY <1>1, <1>4, <2>2 DEF ReadSound
    <2>4. FsLeaves(tty[t].procnr)'
      BY <1>1, <2>2 DEF ReadSound, FsLeaves
    <2> QED  BY <1>1, <2>1, <2>2, <2>3, <2>4, ReadKept
  <1>7. ResumeSound'
    <2>1. fs.pc # "recv" => call'[fs.p] = call[fs.p]
      BY <1>1, <1>2, <1>4 DEF LInv, QueueSound
    <2>2. \A t \in Consoles : Reading(t)' <=> Reading(t)
      BY <1>1, ReadingKept
    <2> QED  BY <1>1, <2>1, <2>2 DEF LInv, ResumeSound
  <1> QED  BY <1>1, <1>5, <1>6, <1>7 DEF LInv

(* FS takes a call, or is told by TTY that a line is complete. *)
LEMMA FsReceiveLines == ASSUME TInv, LInv, FsReceive PROVE LInv'
  <1>1. /\ fs.pc = "recv" /\ fsq # <<>> /\ fsq' = Tail(fsq)
        /\ UNCHANGED <<tty, ubuf, chars>>
    BY DEF FsReceive, ioVars
  <1>2. /\ Head(fsq) \in Proc \cup {"TTY"} /\ Head(fsq) = fsq[1] /\ 1 \in 1..Len(fsq)
        /\ \A i \in 1..Len(fsq') : i + 1 \in 1..Len(fsq) /\ fsq'[i] = fsq[i + 1] /\ i + 1 # 1
        /\ \A i \in 1..Len(fsq) : fsq[i] \in Proc \cup {"TTY"}
        /\ call \in [Proc -> Calls]
    <2>1. fsq \in Seq(Proc \cup {"TTY"}) /\ call \in [Proc -> Calls]
      BY DEF TInv, FsSound
    <2> QED  BY <1>1, <2>1
  <1>3. \A i, j \in 1..Len(fsq') : fsq'[i] = fsq'[j] => i = j
    <2> SUFFICES ASSUME NEW i \in 1..Len(fsq'), NEW j \in 1..Len(fsq'), fsq'[i] = fsq'[j]
                 PROVE  i = j
      OBVIOUS
    <2>1. i + 1 = j + 1
      BY <1>2 DEF LInv, QueueSound
    <2> QED  BY <2>1
  <1>4. CASE Head(fsq) = "TTY"
    <2>1. /\ fs' = [pc |-> "got", p |-> tty[tk.k].procnr, reply |-> "RESUME_PROC",
                    cnt |-> tty[tk.k].trans]
          /\ tk' = [tk EXCEPT !.pc = "resumed"] /\ call' = call
      BY <1>4 DEF FsReceive
    <2>2. tk.pc = "sending" /\ TaskRecord
      BY <1>2, <1>4 DEF TInv, FsSound, TaskSound
    <2>3. tk.then = "none" /\ tk.k \in Consoles
      BY <2>2 DEF TInv, TaskSound, AtTerminal, EndPcs, Putting, OutPcs, ScrollPcs
    <2>4. tk'.pc = "resumed" /\ tk'.k = tk.k /\ tk'.then = "none"
      BY <2>1, <2>2, <2>3 DEF TaskRecord
    <2>5. PICK t \in Consoles : t = tk.k
      BY <2>3
    <2>6. Reading(t) /\ ~Storing(t) /\ ~Reading(t)'
      BY <2>2, <2>3, <2>4, <2>5 DEF Reading, Ending, Storing
    <2>7. PICK p \in Proc : p = tty[t].procnr
      BY <2>6, ReaderOf
    <2>8. ReadSound(t) /\ LineSound(t)
      BY <2>6 DEF LInv
    <2>9. fs'.pc = "got" /\ fs'.p = p /\ fs'.reply = "RESUME_PROC" /\ fs'.cnt = tty[t].trans
      BY <2>1, <2>5, <2>7
    <2>10. call[p].t = t /\ call[p].st = "waiting"
      BY <2>7, <2>8 DEF ReadSound
    <2>11. QueueSound'
      <3>1. \A i \in 1..Len(fsq') : fsq'[i] # "TTY" => call'[fsq'[i]].st = "sending"
        BY <1>2, <2>1 DEF LInv, QueueSound
      <3> QED  BY <1>3, <2>1, <2>9, <2>10, <3>1 DEF QueueSound
    <2>12. ResumeSound'
      <3>1. SubSeq(ubuf[p], 1, tty[t].trans) = Edited(chars[t])
        BY <2>6, <2>7, <2>8 DEF LineSound, Text
      <3>2. ubuf' = ubuf /\ chars' = chars /\ call' = call
        BY <1>1, <2>1
      <3> QED  BY <2>6, <2>9, <2>10, <3>1, <3>2 DEF ResumeSound
    <2>13. ASSUME NEW u \in Consoles, Reading(u)' PROVE ReadSound(u)' /\ LineSound(u)'
      <3>1. u # t
        BY <2>6, <2>13
      <3>2. ~Ending(u) /\ ~Ending(u)' /\ ~Storing(u) /\ ~Storing(u)'
        BY <2>3, <2>4, <2>5, <3>1 DEF Ending, Storing
      <3>3. Reading(u)
        BY <1>1, <2>2, <2>13, <3>2 DEF Reading
      <3>4. tty[u].procnr # p
        BY <2>6, <2>7, <3>1, <3>3, ReaderOf
      <3>5. ReadSound(u) /\ LineSound(u)
        BY <3>3 DEF LInv
      <3>6. FsLeaves(tty[u].procnr)'
        BY <1>1, <2>9, <3>4 DEF FsLeaves
      <3> QED  BY <1>1, <2>1, <3>2, <3>5, <3>6, ReadKept
    <2> QED  BY <1>1, <2>11, <2>12, <2>13 DEF LInv
  <1>5. CASE Head(fsq) # "TTY"
    <2>1. PICK p \in Proc : p = Head(fsq)
      BY <1>2, <1>5
    <2>2. /\ fs' = [fs EXCEPT !.pc = "call", !.p = p] /\ tk' = tk
          /\ call' = [call EXCEPT ![p].st = "waiting"]
      BY <2>1, <1>5 DEF FsReceive
    <2>3. fs'.pc = "call" /\ fs'.p = p
      BY <2>2 DEF TInv, FsSound, FsState
    <2>4. call'[p].st = "waiting" /\ \A q \in Proc : q # p => call'[q] = call[q]
      BY <1>2, <2>2 DEF Calls
    <2>5. call[p].st = "sending"
      BY <1>2, <1>5, <2>1 DEF LInv, QueueSound
    <2>6. QueueSound'
      <3>1. ASSUME NEW i \in 1..Len(fsq'), fsq'[i] # "TTY" PROVE call'[fsq'[i]].st = "sending"
        <4>1. i + 1 \in 1..Len(fsq) /\ fsq'[i] = fsq[i + 1] /\ fsq[i + 1] # fsq[1]
          BY <1>2 DEF LInv, QueueSound
        <4>2. fsq'[i] \in Proc /\ fsq'[i] # p
          BY <1>2, <2>1, <3>1, <4>1
        <4> QED  BY <2>4, <3>1, <4>1, <4>2 DEF LInv, QueueSound
      <3> QED  BY <1>3, <2>3, <2>4, <3>1 DEF QueueSound
    <2>7. ASSUME NEW t \in Consoles, Reading(t)' PROVE ReadSound(t)' /\ LineSound(t)'
      <3>1. Reading(t) /\ (Storing(t)' <=> Storing(t)) /\ (Ending(t)' <=> Ending(t))
        BY <1>1, <2>2, <2>7 DEF Reading, Storing, Ending
      <3>2. ReadSound(t) /\ LineSound(t) /\ tty[t].procnr \in Proc
        BY <3>1, ReaderOf DEF LInv
      <3>3. tty[t].procnr # p
        BY <2>5, <3>2 DEF ReadSound
      <3>4. FsLeaves(tty[t].procnr)' /\ call'[tty[t].procnr] = call[tty[t].procnr]
        BY <1>1, <2>3, <2>4, <3>2, <3>3 DEF FsLeaves
      <3> QED  BY <1>1, <2>2, <3>1, <3>2, <3>4, ReadKept
    <2>8. ResumeSound'
      BY <2>3 DEF ResumeSound
    <2> QED  BY <1>1, <2>6, <2>7, <2>8 DEF LInv
  <1> QED  BY <1>4, <1>5

(* FS passes the call on, and hears from TTY what became of it. *)
LEMMA FsMovesLines ==
    ASSUME TInv, LInv, UNCHANGED <<call, fsq, ubuf, chars, tty>>, fs'.p = fs.p, fs.pc # "recv",
           \/ fs.pc = "call" /\ fs'.pc \in {"call", "send"} /\ tk' = tk
           \/ fs.pc = "wait" /\ fs'.pc = "got" /\ fs'.reply = fs.reply /\ tk.pc = "reply"
              /\ tk' = TtyAt("scan", 0)
    PROVE  LInv'
  <1>1. QueueSound'
    BY DEF LInv, QueueSound
  <1>2. \A t \in Consoles : /\ Storing(t)' <=> Storing(t)
                            /\ Ending(t)' <=> Ending(t)
                            /\ Reading(t)' <=> Reading(t)
    <2>1. CASE tk' = tk
      BY <2>1 DEF Storing, Ending, Reading
    <2>2. CASE tk.pc = "reply" /\ tk' = TtyAt("scan", 0)
      <3>1. tk'.pc = "scan" /\ tk'.then = "none" /\ tk.then = "none"
        BY <2>2 DEF TtyAt, TInv, TaskSound, Putting, OutPcs, ScrollPcs
      <3> QED  BY <2>2, <3>1 DEF Storing, Ending, Reading
    <2> QED  BY <2>1, <2>2
  <1>3. ASSUME NEW t \in Consoles, Reading(t)' PROVE ReadSound(t)' /\ LineSound(t)'
    <2>1. ReadSound(t) /\ LineSound(t)
      BY <1>2, <1>3 DEF LInv
    <2>2. FsLeaves(tty[t].procnr)'
      BY <2>1 DEF ReadSound, FsLeaves
    <2>3. Storing(t) => tk'.ch = tk.ch
      BY DEF Storing, TInv, TaskSound, Putting, OutPcs, ScrollPcs
    <2> QED  BY <1>2, <2>1, <2>2, <2>3, ReadKept
  <1>4. ResumeSound'
    BY DEF LInv, QueueSound, ResumeSound
  <1> QED  BY <1>1, <1>3, <1>4 DEF LInv

LEMMA DoRdwtLines == ASSUME TInv, LInv, do_rdwt \/ TtyReply PROVE LInv'
  <1>1. UNCHANGED <<call, fsq, ubuf, chars, tty>>
    BY DEF do_rdwt, TtyReply, ioVars
  <1>2. CASE do_rdwt
    <2>1. /\ fs.pc = "call" /\ tk' = tk
          /\ fs' = fs \/ fs' = [fs EXCEPT !.pc = "send"]
      BY <1>2 DEF do_rdwt
    <2>2. fs'.p = fs.p /\ fs'.pc \in {"call", "send"}
      BY <2>1 DEF TInv, FsSound, FsState
    <2> QED  BY <1>1, <2>1, <2>2, FsMovesLines
  <1>3. CASE TtyReply
    <2>1. tk.pc = "reply" /\ fs' = [fs EXCEPT !.pc = "got"] /\ tk' = TtyAt("scan", 0)
      BY <1>3 DEF TtyReply
    <2>2. fs.pc = "wait"
      BY <2>1 DEF TInv, FsSound, Answering
    <2>3. fs'.p = fs.p /\ fs'.pc = "got" /\ fs'.reply = fs.reply
      BY <2>1 DEF TInv, FsSound, FsState
    <2> QED  BY <1>1, <2>1, <2>2, <2>3, FsMovesLines
  <1> QED  BY <1>2, <1>3

(* FS answers a call that no terminal has, or leaves a reader suspended. *)
LEMMA FsAnswerLines == ASSUME TInv, LInv, FsAnswer PROVE LInv'
  <1>1. fs.pc = "got" /\ fs' = FsIdle /\ UNCHANGED <<tty, tk, fsq>>
    BY DEF FsAnswer
  <1>2. fs'.pc = "recv"
    BY <1>1 DEF FsIdle
  <1>3. /\ fs.p \in Proc /\ call \in [Proc -> Calls] /\ fsq \in Seq(Proc \cup {"TTY"})
        /\ call[fs.p].st = "waiting" /\ call[fs.p].t \in Consoles
        /\ ubuf \in [Proc -> Seq(Bytes)] /\ chars \in [Consoles -> Seq(Bytes)]
        /\ fs.reply \in {"none", "RESUME_PROC", "SUSPEND_PROC", "SYSCALL_RET"}
    BY <1>1 DEF TInv, FsSound, FsState, Calls, LInv, QueueSound
  <1>4. PICK p \in Proc : p = fs.p
    BY <1>3
  <1>5. PICK c \in Consoles : c = call[p].t
    BY <1>3, <1>4
  <1>6. /\ \A q \in Proc : (q = p => fs.reply = "SUSPEND_PROC") => call'[q] = call[q] /\ ubuf'[q] = ubuf[q]
        /\ \A t \in Consoles : (t = c => fs.reply # "RESUME_PROC") => chars'[t] = chars[t]
        /\ ubuf' \in [Proc -> Seq(Bytes)] /\ chars' \in [Consoles -> Seq(Bytes)]
    <2>1. CASE fs.reply = "SUSPEND_PROC"
      BY <1>3, <2>1 DEF FsAnswer
    <2>2. CASE fs.reply # "SUSPEND_PROC"
      <3>1. /\ call' = [call EXCEPT ![p] = NoCall] /\ ubuf' = [ubuf EXCEPT ![p] = <<>>]
            /\ chars' = IF fs.reply = "RESUME_PROC" THEN [chars EXCEPT ![c] = <<>>] ELSE chars
        BY <1>4, <1>5, <2>2 DEF FsAnswer
      <3>2. <<>> \in Seq(Bytes)
        OBVIOUS
      <3> QED  BY <1>3, <2>2, <3>1, <3>2
    <2> QED  BY <2>1, <2>2
  <1>7. QueueSound'
    <2>1. \A i \in 1..Len(fsq) : fsq[i] # "TTY" => fsq[i] \in Proc /\ fsq[i] # p
      BY <1>3, <1>4 DEF LInv, QueueSound
    <2>2. \A i \in 1..Len(fsq) : fsq[i] # "TTY" => call'[fsq[i]] = call[fsq[i]]
      BY <1>6, <2>1
    <2>3. \A i \in 1..Len(fsq) : fsq[i] # "TTY" => call'[fsq[i]].st = "sending"
      BY <2>2 DEF LInv, QueueSound
    <2>4. \A i, j \in 1..Len(fsq) : fsq[i] = fsq[j] => i = j
      BY DEF LInv, QueueSound
    <2> QED  BY <1>1, <1>2, <2>3, <2>4 DEF QueueSound
  <1>8. ASSUME NEW t \in Consoles, Reading(t)' PROVE ReadSound(t)' /\ LineSound(t)'
    <2>1. Reading(t) /\ (Storing(t)' <=> Storing(t)) /\ (Ending(t)' <=> Ending(t))
      BY <1>1, <1>8 DEF Reading, Storing, Ending
    <2>2. ReadSound(t) /\ LineSound(t) /\ tty[t].procnr \in Proc
      BY <2>1, ReaderOf DEF LInv
    <2>3. tty[t].procnr = p => fs.reply = "SUSPEND_PROC"
      BY <1>1, <1>4, <2>2 DEF ReadSound, FsLeaves
    <2>4. t = c => fs.reply # "RESUME_PROC"
      BY <1>1, <1>4, <1>5, <2>1 DEF LInv, ResumeSound
    <2>5. FsLeaves(tty[t].procnr)'
      BY <1>2 DEF FsLeaves
    <2> QED  BY <1>1, <1>6, <2>1, <2>2, <2>3, <2>4, <2>5, ReadKept
  <1>9. ResumeSound'
    BY <1>2 DEF ResumeSound
  <1> QED  BY <1>6, <1>7, <1>8, <1>9 DEF LInv

(* TTY takes a request; a read begins with an empty line. *)
LEMMA ReceiveRequestLines == ASSUME TInv, TInv', LInv, ReceiveRequest PROVE LInv'
  <1> DEFINE req == call[fs.p]
  <1>1. tk.pc = "recv" /\ fs.pc = "send" /\ UNCHANGED <<call, fsq, ubuf>>
    BY DEF ReceiveRequest
  <1>2. /\ fs.p \in Proc /\ req \in Calls /\ tk.then = "none" /\ req.t \in Consoles /\ req.n \in Nat
        /\ req.st = "waiting"
    BY <1>1 DEF TInv, TaskSound, FsSound, Putting, OutPcs, ScrollPcs, Calls, LInv, QueueSound
  <1>3. /\ fs' = [fs EXCEPT !.pc = "wait", !.cnt = req.n,
                    !.reply = IF req.type = "READ" THEN "SUSPEND_PROC" ELSE "SYSCALL_RET"]
        /\ IF req.type = "READ" THEN tty_do_read(req.t, fs.p, req.n) ELSE UNCHANGED <<tty, chars, lost>>
        /\ tk' = IF req.type = "WRITE" THEN [TtyAt("write", 0) EXCEPT !.c = req.t, !.out = req.bytes]
                 ELSE TtyAt("reply", 0)
    BY DEF ReceiveRequest
  <1>4. PICK p \in Proc : p = fs.p
    BY <1>2
  <1>5. PICK c \in Consoles : c = req.t
    BY <1>2
  <1>6. call[p] = req /\ call[p].t = c
    BY <1>4, <1>5
  <1> HIDE DEF req
  <1>7. /\ fs'.pc = "wait" /\ fs'.p = p
        /\ fs'.reply = IF req.type = "READ" THEN "SUSPEND_PROC" ELSE "SYSCALL_RET"
    BY <1>3, <1>4 DEF TInv, FsSound, FsState
  <1>8. tk'.then = "none" /\ tk'.pc \in {"write", "reply"}
    BY <1>3 DEF TtyAt
  <1>9. \A t \in Consoles : /\ ~Storing(t) /\ ~Ending(t) /\ ~Storing(t)' /\ ~Ending(t)'
                            /\ Reading(t) <=> tty[t].left > 0
                            /\ Reading(t)' <=> tty'[t].left > 0
    BY <1>1, <1>2, <1>8 DEF Storing, Ending, Reading
  <1>10. QueueSound'
    BY <1>1, <1>2, <1>4, <1>6, <1>7 DEF LInv, QueueSound
  <1>11. ResumeSound'
    BY <1>7 DEF ResumeSound
  <1>12. ASSUME NEW t \in Consoles, Reading(t)', tty'[t] = tty[t], chars'[t] = chars[t]
         PROVE  ReadSound(t)' /\ LineSound(t)'
    <2>1. Reading(t)
      BY <1>9, <1>12
    <2>2. ReadSound(t) /\ LineSound(t) /\ tty[t].procnr \in Proc
      BY <2>1, ReaderOf DEF LInv
    <2>3. FsLeaves(tty[t].procnr)'
      <3>1. tty[t].procnr # p
        BY <1>1, <1>4, <2>2 DEF ReadSound, FsLeaves
      <3>2. tty'[t].procnr = tty[t].procnr
        BY <1>12
      <3> QED  BY <1>7, <3>1, <3>2 DEF FsLeaves
    <2> QED  BY <1>1, <1>9, <1>12, <2>2, <2>3, ReadKept
  <1>13. CASE req.type # "READ"
    BY <1>1, <1>3, <1>10, <1>11, <1>12, <1>13 DEF LInv
  <1>14. CASE req.type = "READ"
    <2>1. /\ tty' = [tty EXCEPT ![c] = [@ EXCEPT !.procnr = p, !.left = req.n, !.trans = 0]]
          /\ chars' = [chars EXCEPT ![c] = <<>>]
      BY <1>3, <1>4, <1>5, <1>14 DEF tty_do_read
    <2>2. tty \in [Consoles -> Terminal] /\ chars \in [Consoles -> Seq(Bytes)]
          /\ ubuf \in [Proc -> Seq(Bytes)]
      BY DEF TInv, TerminalsSound, LInv
    <2>3. /\ chars' \in [Consoles -> Seq(Bytes)] /\ chars'[c] = <<>>
          /\ \A t \in Consoles : t # c => tty'[t] = tty[t] /\ chars'[t] = chars[t]
      BY <2>1, <2>2
    <2>4. tty'[c].procnr = p /\ tty'[c].left = req.n /\ tty'[c].trans = 0
      BY <2>1, <2>2 DEF Terminal
    <2>5. ReadSound(c)'
      <3>1. ubuf'[p] = ubuf[p] /\ 0 <= Len(ubuf[p]) /\ call'[p] = req
        BY <1>1, <1>6, <2>2
      <3>2. FsLeaves(p)'
        BY <1>7, <1>14 DEF FsLeaves
      <3> QED  BY <1>2, <1>5, <1>14, <2>4, <3>1, <3>2 DEF ReadSound
    <2>6. LineSound(c)'
      <3>1. Text(c)' = <<>>
        <4>1. ubuf'[p] \in Seq(Bytes)
          BY <1>1, <2>2
        <4>2. SubSeq(ubuf'[p], 1, 0) = <<>>
          BY <4>1
        <4> QED  BY <2>4, <4>2 DEF Text
      <3>2. Edited(chars'[c]) = <<>> /\ ~HasFeed(chars'[c])
        BY <2>3, EditedNone DEF HasFeed
      <3> QED  BY <1>9, <3>1, <3>2 DEF LineSound
    <2>7. \A t \in Consoles : Reading(t)' => ReadSound(t)' /\ LineSound(t)'
      BY <1>12, <2>3, <2>5, <2>6
    <2> QED  BY <1>1, <1>10, <1>11, <2>2, <2>3, <2>7 DEF LInv
  <1> QED  BY <1>13, <1>14

(* The last character of a sequence, and of a text in a buffer. *)
LEMMA LastTaken ==
    ASSUME NEW s \in Seq(Bytes), NEW ch \in Bytes, NEW r, r = Append(s, ch)
    PROVE  /\ r \in Seq(Bytes) /\ r # <<>> /\ Before(r) = s
           /\ HasFeed(r) <=> HasFeed(s) \/ ch = "LF"
  <1>1. PICK n \in Nat : n = Len(s)
    OBVIOUS
  <1>2. r \in Seq(Bytes) /\ Len(r) = n + 1 /\ r[n + 1] = ch /\ \A i \in 1..n : r[i] = s[i]
    BY <1>1
  <1>3. \A i \in 1..n + 1 : i \in 1..n \/ i = n + 1
    BY <1>1
  <1>4. 1..n \subseteq 1..n + 1 /\ n + 1 \in 1..n + 1
    BY <1>1
  <1>5. HasFeed(r) <=> HasFeed(s) \/ ch = "LF"
    BY <1>1, <1>2, <1>3, <1>4 DEF HasFeed
  <1>6. Before(r) = s
    <2>1. Before(r) = SubSeq(r, 1, n)
      BY <1>1, <1>2 DEF Before
    <2>2. SubSeq(r, 1, n) = s
      BY <1>1, <1>2
    <2> QED  BY <2>1, <2>2
  <1>7. r # <<>>
    BY <1>1, <1>2
  <1> QED  BY <1>2, <1>5, <1>6, <1>7

LEMMA TextStored ==
    ASSUME NEW b \in Seq(Bytes), NEW n \in Nat, n <= Len(b), NEW ch \in Bytes,
           NEW r, r = Append(SubSeq(b, 1, n), ch)
    PROVE  r \in Seq(Bytes) /\ Len(r) = n + 1 /\ SubSeq(r, 1, n + 1) = r
  <1>1. PICK s : s = SubSeq(b, 1, n)
    OBVIOUS
  <1>2. s \in Seq(Bytes) /\ Len(s) = n
    BY <1>1
  <1>3. r \in Seq(Bytes) /\ Len(r) = n + 1
    BY <1>1, <1>2
  <1>4. SubSeq(r, 1, n + 1) = r
    BY <1>3
  <1> QED  BY <1>3, <1>4

LEMMA TextTakenBack ==
    ASSUME NEW b \in Seq(Bytes), NEW n \in Nat, n <= Len(b), n > 0, NEW s, s = SubSeq(b, 1, n)
    PROVE  s # <<>> /\ SubSeq(s, 1, Len(s) - 1) = SubSeq(b, 1, n - 1)
  <1>1. s \in Seq(Bytes) /\ Len(s) = n /\ \A i \in 1..n : s[i] = b[i]
    OBVIOUS
  <1>2. SubSeq(s, 1, n - 1) = SubSeq(b, 1, n - 1)
    BY <1>1
  <1>3. s # <<>>
    BY <1>1
  <1> QED  BY <1>1, <1>2, <1>3

(* Readers of other terminals than the one TTY serves do not notice. *)
LEMMA OthersKept ==
    ASSUME TInv, LInv, NEW t \in Consoles, tk.k = t, tk'.k = t, NEW u \in Consoles, u # t,
           tty'[u] = tty[u], chars'[u] = chars[u], Reading(u) => ubuf'[tty[u].procnr] = ubuf[tty[u].procnr],
           UNCHANGED <<call, fs>>
    PROVE  /\ Reading(u)' <=> Reading(u)
           /\ Reading(u)' => ReadSound(u)' /\ LineSound(u)'
  <1>1. ~Storing(u) /\ ~Storing(u)' /\ ~Ending(u) /\ ~Ending(u)'
    BY DEF Storing, Ending
  <1>2. Reading(u)' <=> Reading(u)
    BY <1>1 DEF Reading
  <1>3. ASSUME Reading(u) PROVE ReadSound(u)' /\ LineSound(u)'
    <2>1. ReadSound(u) /\ LineSound(u)
      BY <1>3 DEF LInv
    <2>2. FsLeaves(tty[u].procnr)'
      BY <2>1 DEF ReadSound, FsLeaves
    <2> QED  BY <1>1, <1>3, <2>1, <2>2, ReadKept
  <1> QED  BY <1>2, <1>3

LEMMA TtyResumeLines == ASSUME TInv, LInv, tty_resume PROVE LInv'
  <1>1. /\ tk.pc = "resume" /\ tk.k \in Consoles /\ tk.then = "none"
        /\ UNCHANGED <<tty, fs, call, ubuf, chars>>
        /\ \/ tk' = tk /\ fsq' = fsq
           \/ tk' = TtyAt("sending", tk.k) /\ fsq' = Append(fsq, "TTY")
    BY DEF tty_resume, TInv, TaskSound, AtTerminal, EndPcs, Putting, OutPcs, ScrollPcs
  <1>2. CASE tk' = tk /\ fsq' = fsq
    BY <1>1, <1>2, AsideLines
  <1>3. CASE tk' = TtyAt("sending", tk.k) /\ fsq' = Append(fsq, "TTY")
    <2>1. tk'.pc = "sending" /\ tk'.k = tk.k /\ tk'.then = "none"
      BY <1>3, FreshTask
    <2>2. \A t \in Consoles : /\ ~Storing(t) /\ ~Storing(t)'
                              /\ Ending(t)' <=> Ending(t)
                              /\ Reading(t)' <=> Reading(t)
      BY <1>1, <2>1 DEF Storing, Ending, Reading
    <2>3. QueueSound'
      <3>1. fsq \in Seq(Proc \cup {"TTY"}) /\ \A i \in 1..Len(fsq) : fsq[i] # "TTY"
        BY <1>1 DEF TInv, FsSound
      <3>2. PICK n \in Nat : n = Len(fsq)
        BY <3>1
      <3>3. Len(fsq') = n + 1 /\ fsq'[n + 1] = "TTY" /\ \A i \in 1..n : fsq'[i] = fsq[i]
        BY <1>3, <3>1, <3>2
      <3>4. \A i \in 1..n + 1 : i \in 1..n \/ i = n + 1
        BY <3>2
      <3>5. \A i, j \in 1..n + 1 : fsq'[i] = fsq'[j] => i = j
        <4>1. \A i, j \in 1..n : fsq[i] = fsq[j] => i = j
          BY <3>2 DEF LInv, QueueSound
        <4>2. \A i \in 1..n : fsq'[i] = fsq[i] /\ fsq[i] # "TTY"
          BY <3>1, <3>2, <3>3
        <4> QED  BY <3>3, <3>4, <4>1, <4>2
      <3>6. \A i \in 1..n + 1 : fsq'[i] # "TTY" => call[fsq'[i]].st = "sending"
        BY <3>2, <3>3, <3>4 DEF LInv, QueueSound
      <3> QED  BY <1>1, <3>3, <3>5, <3>6 DEF LInv, QueueSound
    <2>4. ASSUME NEW t \in Consoles, Reading(t)' PROVE ReadSound(t)' /\ LineSound(t)'
      <3>1. ReadSound(t) /\ LineSound(t)
        BY <2>2, <2>4 DEF LInv
      <3>2. FsLeaves(tty[t].procnr)'
        BY <1>1, <3>1 DEF ReadSound, FsLeaves
      <3> QED  BY <1>1, <2>2, <3>1, <3>2, ReadKept
    <2>5. ResumeSound'
      BY <1>1, <2>2 DEF LInv, ResumeSound
    <2> QED  BY <1>1, <2>3, <2>4, <2>5 DEF LInv
  <1> QED  BY <1>1, <1>2, <1>3

LEMMA TtyResumedLines == ASSUME TInv, LInv, tty_resumed PROVE LInv'
  <1>1. /\ tk.pc = "resumed" /\ tk.k \in Consoles /\ tk.then = "none"
        /\ tk' = TtyAt("drain", tk.k) /\ tty' = [tty EXCEPT ![tk.k].left = 0]
        /\ UNCHANGED <<fs, fsq, call, ubuf, chars>>
    BY DEF tty_resumed, TtyQuiet, TInv, TaskSound, AtTerminal, Putting, OutPcs, ScrollPcs
  <1>2. PICK t \in Consoles : t = tk.k
    BY <1>1
  <1>3. tk'.pc = "drain" /\ tk'.k = t /\ tk'.then = "none"
    BY <1>1, <1>2, FreshTask
  <1>4. tty'[t].left = 0 /\ \A u \in Consoles : u # t => tty'[u] = tty[u]
    BY <1>1, <1>2 DEF TInv, TerminalsSound, Terminal
  <1>5. ~Reading(t) /\ ~Reading(t)'
    BY <1>1, <1>2, <1>3, <1>4 DEF Reading, Ending
  <1>6. \A u \in Consoles : /\ Reading(u)' <=> Reading(u)
                            /\ Reading(u)' => ReadSound(u)' /\ LineSound(u)'
    BY <1>1, <1>2, <1>3, <1>4, <1>5, OthersKept
  <1>7. QueueSound' /\ ResumeSound'
    BY <1>1, <1>6 DEF LInv, QueueSound, ResumeSound
  <1> QED  BY <1>1, <1>6, <1>7 DEF LInv

(* TTY takes a character: the line is the one before until it is stored. *)
LEMMA TtyDevWriteLines == ASSUME TInv, LInv, tty_dev_write PROVE LInv'
  <1>1. /\ tk.pc = "drain" /\ TaskRecord /\ tk.k \in Consoles /\ tk.then = "none"
        /\ UNCHANGED <<fs, fsq, call, ubuf>>
    BY DEF tty_dev_write, TtyQuiet, TInv, TaskSound, AtTerminal, Putting, OutPcs, ScrollPcs
  <1>2. PICK t \in Consoles : t = tk.k
    BY <1>1
  <1>3. PICK q \in Terminal : q = tty[t]
    BY DEF TInv, TerminalsSound
  <1>4. CASE q.inbuf = <<>>
    <2>1. tk' = TtyAt("scan", t + 1) /\ tty' = tty /\ chars' = chars
      BY <1>2, <1>3, <1>4 DEF tty_dev_write
    <2>2. tk'.pc = "scan" /\ tk'.then = "none"
      BY <2>1, FreshTask
    <2> QED  BY <1>1, <2>1, <2>2, PlainLines DEF EndPcs
  <1>5. CASE q.inbuf # <<>>
    <2> DEFINE ch == Head(q.inbuf)
    <2>1. /\ tty' = [tty EXCEPT ![t].inbuf = Tail(@)]
          /\ chars' = IF q.left > 0 THEN [chars EXCEPT ![t] = Append(@, ch)] ELSE chars
          /\ tk' = CASE q.left > 0 /\ (ch \in Printable \/ (ch = "BS" /\ q.trans > 0))
                            -> OutChar(t, ch, "store")
                     [] q.left > 0 /\ ch = "LF" -> OutChar(t, "LF", "resume")
                     [] OTHER -> tk
      BY <1>2, <1>3, <1>5 DEF tty_dev_write
    <2>2. ch \in Bytes
      BY <1>3, <1>5 DEF Terminal
    <2>3. \A u \in Consoles : /\ tty'[u].procnr = tty[u].procnr
                              /\ tty'[u].left = tty[u].left /\ tty'[u].trans = tty[u].trans
                              /\ u # t => tty'[u] = tty[u]
      BY <2>1 DEF TInv, TerminalsSound, Terminal
    <2>4. "LF" \notin Printable /\ "BS" \notin Printable
      BY TtyAssumption
    <2> HIDE DEF ch
    <2>5. \/ /\ q.left > 0 /\ ch \in Printable \cup {"BS"} /\ (ch = "BS" => q.trans > 0)
             /\ tk' = OutChar(t, ch, "store")
          \/ q.left > 0 /\ ch = "LF" /\ tk' = OutChar(t, "LF", "resume")
          \/ q.left > 0 /\ ch \notin Printable \cup {"LF"} /\ (ch = "BS" => ~(q.trans > 0)) /\ tk' = tk
          \/ ~(q.left > 0) /\ tk' = tk
      BY <2>1, <2>4
    <2>6. CASE ~(q.left > 0)
      <3>1. tk' = tk /\ chars' = chars
        BY <2>1, <2>5, <2>6
      <3> QED  BY <1>1, <2>3, <3>1, PlainLines DEF EndPcs
    <2>7. CASE q.left > 0
      <3>1. \/ /\ tk'.pc = "check" /\ tk'.then = "store" /\ tk'.ch = ch
               /\ ch \in Printable \cup {"BS"}
            \/ ch = "LF" /\ tk'.pc = "check" /\ tk'.then = "resume"
            \/ ch \notin Printable \cup {"LF"} /\ (ch = "BS" => ~(q.trans > 0)) /\ tk' = tk
        BY <1>1, <2>5, <2>7 DEF OutChar, TaskRecord
      <3>2. tk'.k = t
        BY <1>1, <1>2, <2>5, <2>7 DEF OutChar, TaskRecord
      <3>3. chars \in [Consoles -> Seq(Bytes)] /\ ubuf \in [Proc -> Seq(Bytes)]
        BY DEF LInv
      <3>4. PICK s \in Seq(Bytes) : s = chars[t]
        BY <3>3
      <3>5. PICK r : r = Append(s, ch)
        OBVIOUS
      <3>6. /\ r \in Seq(Bytes) /\ r # <<>> /\ Before(r) = s
            /\ HasFeed(r) <=> HasFeed(s) \/ ch = "LF"
        BY <2>2, <3>5, LastTaken
      <3>7. chars' = [chars EXCEPT ![t] = r]
        BY <2>1, <2>7, <3>4, <3>5
      <3>8. /\ chars' \in [Consoles -> Seq(Bytes)] /\ chars'[t] = r
            /\ \A u \in Consoles : u # t => chars'[u] = chars[u]
        BY <3>3, <3>6, <3>7
      <3>9. Reading(t) /\ ~Storing(t) /\ ~Ending(t)
        BY <1>1, <1>2, <1>3, <2>7 DEF Reading, Storing, Ending
      <3>10. PICK p \in Proc : p = tty[t].procnr
        BY <3>9, ReaderOf
      <3>11. ReadSound(t) /\ LineSound(t)
        BY <3>9 DEF LInv
      <3>12. Text(t) = Edited(s) /\ ~HasFeed(s)
        BY <3>4, <3>9, <3>11 DEF LineSound
      <3>13. Text(t)' = Text(t)
        BY <1>1, <2>3 DEF Text
      <3>14. ReadSound(t)'
        BY <1>1, <2>3, <3>11 DEF ReadSound, FsLeaves
      <3>15. Edited(r) = Typed(Edited(s), ch)
        BY <2>2, <3>5, EditedAppend
      <3>16. LineSound(t)'
        <4>1. CASE tk'.then = "store" /\ tk'.ch = ch /\ ch \in Printable \cup {"BS"}
          <5>1. Storing(t)'
            BY <3>2, <4>1 DEF Storing
          <5>2. chars'[t] = Append(Before(chars'[t]), tk'.ch) /\ chars'[t] # <<>>
            BY <3>5, <3>6, <3>8, <4>1
          <5>3. Edited(Before(chars'[t])) = Edited(s) /\ ~HasFeed(Before(chars'[t]))
            BY <3>6, <3>8, <3>12
          <5> QED  BY <3>12, <3>13, <4>1, <5>1, <5>2, <5>3 DEF LineSound
        <4>2. CASE ch = "LF" /\ tk'.pc = "check" /\ tk'.then = "resume"
          <5>1. ~Storing(t)' /\ Ending(t)'
            BY <3>2, <4>2 DEF Storing, Ending
          <5>2. Edited(chars'[t]) = Edited(s)
            BY <2>4, <3>8, <3>15, <4>2 DEF Typed
          <5> QED  BY <3>12, <3>13, <5>1, <5>2 DEF LineSound
        <4>3. CASE ch \notin Printable \cup {"LF"} /\ (ch = "BS" => ~(q.trans > 0)) /\ tk' = tk
          <5>1. ~Storing(t)'
            BY <1>1, <4>3 DEF Storing
          <5>2. ch = "BS" => Edited(s) = <<>>
            <6>1. SUFFICES ASSUME ch = "BS" PROVE Edited(s) = <<>>
              OBVIOUS
            <6>2. tty[t].trans = 0
              BY <1>3, <4>3, <6>1 DEF Terminal
            <6>3. ubuf[p] \in Seq(Bytes)
              BY <3>3
            <6>4. SubSeq(ubuf[p], 1, 0) = <<>>
              BY <6>3
            <6> QED  BY <3>10, <3>12, <6>2, <6>4 DEF Text
          <5>3. Edited(chars'[t]) = Edited(s)
            BY <3>8, <3>15, <4>3, <5>2 DEF Typed
          <5>4. ~HasFeed(chars'[t])
            BY <3>6, <3>8, <3>12, <4>3
          <5> QED  BY <3>12, <3>13, <5>1, <5>3, <5>4 DEF LineSound
        <4> QED  BY <3>1, <4>1, <4>2, <4>3
      <3>17. ASSUME NEW u \in Consoles, u # t
             PROVE  (Reading(u)' <=> Reading(u)) /\ (Reading(u)' => ReadSound(u)' /\ LineSound(u)')
        <4>1. ubuf'[tty[u].procnr] = ubuf[tty[u].procnr]
          BY <1>1
        <4> QED  BY <1>1, <1>2, <2>3, <3>2, <3>8, <3>17, <4>1, OthersKept
      <3>18. QueueSound'
        BY <1>1 DEF LInv, QueueSound
      <3>19. ResumeSound'
        BY <1>1, <3>8, <3>9, <3>17 DEF LInv, ResumeSound
      <3> QED  BY <1>1, <3>3, <3>8, <3>14, <3>16, <3>17, <3>18, <3>19 DEF LInv
    <2> QED  BY <2>6, <2>7
  <1> QED  BY <1>4, <1>5

(* The character is stored in the reader's buffer, or the last one taken back. *)
LEMMA TtyStoreLines == ASSUME TInv, LInv, tty_store PROVE LInv'
  <1>1. /\ tk.pc = "store" /\ TaskRecord /\ tk.k \in Consoles /\ tk.then = "none"
        /\ UNCHANGED <<fs, fsq, call, chars>>
    BY DEF tty_store, TInv, TaskSound, AtTerminal, Putting, OutPcs, ScrollPcs
  <1>2. PICK t \in Consoles : t = tk.k
    BY <1>1
  <1>3. PICK q \in Terminal : q = tty[t]
    BY DEF TInv, TerminalsSound
  <1>4. q.left > 0 /\ q.left \in Nat /\ q.trans \in Nat /\ (tk.ch = "BS" => q.trans > 0)
    BY <1>1, <1>2, <1>3 DEF TInv, TerminalsSound, Terminal
  <1>5. Reading(t) /\ Storing(t)
    BY <1>1, <1>2, <1>3, <1>4 DEF Reading, Storing
  <1>6. ReadSound(t) /\ LineSound(t)
    BY <1>5 DEF LInv
  <1>7. PICK p \in Proc : p = q.procnr
    BY <1>3, <1>5, ReaderOf
  <1>8. PICK n \in Int : n = Advance(tk.ch)
    BY DEF Advance
  <1>9. IF tk.ch = "BS" THEN n = -1 ELSE n = 1
    BY <1>8 DEF Advance
  <1>10. /\ tty' = [tty EXCEPT ![t] = [q EXCEPT !.trans = @ + n, !.left = @ - n]]
         /\ ubuf' = IF tk.ch = "BS" THEN ubuf
                    ELSE [ubuf EXCEPT ![p] = Append(SubSeq(@, 1, q.trans), tk.ch)]
         /\ tk' = IF q.left - n = 0 THEN OutChar(t, "LF", "resume") ELSE TtyAt("drain", t)
    BY <1>2, <1>3, <1>7, <1>8 DEF tty_store
  <1>11. /\ tty'[t].procnr = p /\ tty'[t].left = q.left - n /\ tty'[t].trans = q.trans + n
         /\ \A u \in Consoles : u # t => tty'[u] = tty[u]
    <2>1. PICK new : new = [q EXCEPT !.trans = @ + n, !.left = @ - n]
      OBVIOUS
    <2>2. new.procnr = p /\ new.left = q.left - n /\ new.trans = q.trans + n
      BY <1>7, <2>1 DEF Terminal
    <2>3. tty' = [tty EXCEPT ![t] = new] /\ tty \in [Consoles -> Terminal]
      BY <1>10, <2>1 DEF TInv, TerminalsSound
    <2> QED  BY <2>2, <2>3
  <1>12. tk'.k = t /\ tk'.pc \in {"check", "drain"} /\ tk'.then \in {"resume", "none"}
    <2>1. CASE tk' = OutChar(t, "LF", "resume")
      BY <1>1, <1>2, <2>1 DEF OutChar, TaskRecord
    <2>2. CASE tk' = TtyAt("drain", t)
      BY <2>2, FreshTask
    <2> QED  BY <1>10, <2>1, <2>2
  <1>13. ubuf \in [Proc -> Seq(Bytes)] /\ chars \in [Consoles -> Seq(Bytes)]
    BY DEF LInv
  <1>14. PICK b \in Seq(Bytes) : b = ubuf[p]
    BY <1>13
  <1>15. PICK s : s = Before(chars[t])
    OBVIOUS
  <1>16. /\ chars[t] = Append(s, tk.ch) /\ tk.ch \in Printable \cup {"BS"} /\ ~HasFeed(s)
         /\ SubSeq(b, 1, q.trans) = Edited(s)
    BY <1>3, <1>5, <1>6, <1>7, <1>14, <1>15 DEF LineSound, Text
  <1>17. tk.ch \in Bytes /\ tk.ch # "LF"
    BY <1>16, TtyAssumption DEF Bytes
  <1>18. s \in Seq(Bytes)
    BY <1>13, <1>15 DEF Before
  <1>19. Edited(chars[t]) = Typed(Edited(s), tk.ch) /\ ~HasFeed(chars[t])
    BY <1>16, <1>17, <1>18, EditedAppend, LastTaken
  <1>20. /\ q.trans + q.left = call[p].n /\ q.trans <= Len(b)
         /\ call[p].st = "waiting" /\ call[p].type = "READ" /\ call[p].t = t /\ FsLeaves(p)
    BY <1>3, <1>6, <1>7, <1>14 DEF ReadSound
  <1>21. /\ ubuf' \in [Proc -> Seq(Bytes)]
         /\ \A o \in Proc : o # p => ubuf'[o] = ubuf[o]
         /\ q.trans + n <= Len(ubuf'[p])
         /\ SubSeq(ubuf'[p], 1, q.trans + n) = Edited(chars[t])
    <2>1. CASE tk.ch = "BS"
      <3>1. ubuf' = ubuf /\ n = -1 /\ q.trans + n = q.trans - 1 /\ q.trans - 1 <= Len(b)
        BY <1>4, <1>9, <1>10, <1>20, <2>1
      <3>2. PICK e : e = SubSeq(b, 1, q.trans)
        OBVIOUS
      <3>3. e # <<>> /\ SubSeq(e, 1, Len(e) - 1) = SubSeq(b, 1, q.trans - 1)
        BY <1>4, <1>20, <2>1, <3>2, TextTakenBack
      <3>4. "BS" \notin Printable
        BY TtyAssumption
      <3>5. Edited(chars[t]) = SubSeq(e, 1, Len(e) - 1)
        BY <1>16, <1>19, <2>1, <3>2, <3>3, <3>4 DEF Typed
      <3> QED  BY <1>13, <1>14, <3>1, <3>3, <3>5
    <2>2. CASE tk.ch # "BS"
      <3>1. PICK r : r = Append(SubSeq(b, 1, q.trans), tk.ch)
        OBVIOUS
      <3>2. ubuf' = [ubuf EXCEPT ![p] = r] /\ n = 1
        BY <1>9, <1>10, <1>14, <2>2, <3>1
      <3>3. r \in Seq(Bytes) /\ Len(r) = q.trans + 1 /\ SubSeq(r, 1, q.trans + 1) = r
        <4>1. PICK k \in Nat : k = q.trans /\ k <= Len(b)
          BY <1>4, <1>20
        <4>2. r \in Seq(Bytes) /\ Len(r) = k + 1 /\ SubSeq(r, 1, k + 1) = r
          BY <1>14, <1>17, <3>1, <4>1, TextStored, SMTT(20)
        <4> QED  BY <4>1, <4>2
      <3>4. Edited(chars[t]) = r
        BY <1>16, <1>19, <2>2, <3>1 DEF Typed
      <3>5. ubuf'[p] = r /\ q.trans + n = q.trans + 1 /\ q.trans + 1 <= Len(r)
        BY <1>4, <1>13, <3>2, <3>3
      <3>6. ubuf' \in [Proc -> Seq(Bytes)] /\ \A o \in Proc : o # p => ubuf'[o] = ubuf[o]
        BY <1>13, <3>2, <3>3
      <3> QED  BY <3>3, <3>4, <3>5, <3>6
    <2> QED  BY <2>1, <2>2
  <1>22. ReadSound(t)'
    <2>1. (q.trans + n) + (q.left - n) = q.trans + q.left
      BY <1>4, <1>8
    <2>2. FsLeaves(p)'
      BY <1>1, <1>20 DEF FsLeaves
    <2> QED  BY <1>1, <1>11, <1>20, <1>21, <2>1, <2>2 DEF ReadSound
  <1>23. LineSound(t)'
    <2>1. ~Storing(t)'
      BY <1>12 DEF Storing
    <2>2. Text(t)' = Edited(chars'[t]) /\ ~HasFeed(chars'[t])
      BY <1>1, <1>11, <1>19, <1>21 DEF Text
    <2> QED  BY <2>1, <2>2 DEF LineSound
  <1>24. ASSUME NEW u \in Consoles, u # t
         PROVE  (Reading(u)' <=> Reading(u)) /\ (Reading(u)' => ReadSound(u)' /\ LineSound(u)')
    <2>1. Reading(u) => tty[u].procnr \in Proc /\ tty[u].procnr # p
      BY <1>3, <1>5, <1>7, <1>24, ReaderOf
    <2>2. Reading(u) => ubuf'[tty[u].procnr] = ubuf[tty[u].procnr]
      BY <1>21, <2>1
    <2> QED  BY <1>1, <1>2, <1>11, <1>12, <1>24, <2>2, OthersKept
  <1>25. QueueSound'
    BY <1>1 DEF LInv, QueueSound
  <1>26. ResumeSound'
    <2>1. fs.pc = "got" /\ fs.reply = "RESUME_PROC" => fs.p \in Proc /\ fs.p # p
      BY <1>20 DEF FsLeaves, TInv, FsSound
    <2> QED  BY <1>1, <1>5, <1>21, <1>24, <2>1 DEF LInv, ResumeSound
  <1> QED  BY <1>1, <1>13, <1>21, <1>22, <1>23, <1>24, <1>25, <1>26 DEF LInv

LEMMA InitLines == ASSUME Init PROVE LInv
  <1>1. /\ tty = [t \in Consoles |-> [inbuf |-> <<>>, procnr |-> "none", left |-> 0, trans |-> 0]]
        /\ tk = TtyAt("scan", 0) /\ fs = FsIdle /\ fsq = <<>>
        /\ ubuf = [p \in Proc |-> <<>>] /\ chars = [t \in Consoles |-> <<>>]
    BY DEF Init
  <1>2. fs.pc = "recv" /\ Len(fsq) = 0 /\ tk.pc = "scan" /\ tk.then = "none"
    BY <1>1 DEF FsIdle, TtyAt
  <1>3. QueueSound
    BY <1>1, <1>2 DEF QueueSound
  <1>4. ResumeSound
    BY <1>2 DEF ResumeSound
  <1>5. \A t \in Consoles : ~Reading(t)
    BY <1>1, <1>2 DEF Reading, Ending
  <1>6. ubuf \in [Proc -> Seq(Bytes)] /\ chars \in [Consoles -> Seq(Bytes)]
    <2>1. <<>> \in Seq(Bytes)
      OBVIOUS
    <2> QED  BY <1>1, <2>1
  <1> QED  BY <1>3, <1>4, <1>5, <1>6 DEF LInv

LEMMA NextLines == TInv /\ TInv' /\ LInv /\ [Next]_vars => LInv'
  <1> SUFFICES ASSUME TInv, TInv', LInv, [Next]_vars PROVE LInv'
    OBVIOUS
  <1>1. ASSUME NEW p \in Proc, Call(p) PROVE LInv'
    BY <1>1, CallLines
  <1>2. CASE task_fs
    BY <1>2, FsReceiveLines, DoRdwtLines, FsAnswerLines DEF task_fs
  <1>3. CASE task_tty
    BY <1>3, OutLines, KeyLines, PlaceLines, TtyDevWriteLines, TtyStoreLines, TtyResumeLines,
       TtyResumedLines, ReceiveRequestLines, DoRdwtLines DEF task_tty
  <1>4. CASE ClockTick \/ KeyInterrupt \/ Printx \/ UNCHANGED vars
    <2>1. UNCHANGED <<tty, tk, ubuf, chars, call, fs, fsq>>
      BY <1>4 DEF ClockTick, KeyInterrupt, Printx, vars, taskVars, ioVars
    <2> QED  BY <2>1, AsideLines
  <1> QED  BY <1>1, <1>2, <1>3, <1>4 DEF Next

(* LInv, the inductive invariant of the lines: every terminal that is read and *)
(* its reader's call and buffer belong together, whatever else FS and TTY do.  *)
THEOREM LinesInvariant == Spec => []LInv
  BY InitLines, NextLines, TtyInvariant, PTL DEF Spec

(* LineDelivered: the reader's buffer holds the line that was typed for it,    *)
(* with the corrections made; the counters add up to what it asked for, a line *)
(* feed ends the read, and FS answers with the length of the line              *)
(* (tty.c:164-200, fs/main.c:51-53).                                           *)
THEOREM LinesAreDelivered == Spec => []LineDelivered
  <1>1. TInv /\ LInv => LineDelivered
    <2> SUFFICES ASSUME TInv, LInv PROVE LineDelivered
      OBVIOUS
    <2>1. ASSUME NEW t \in Consoles, Reading(t)
          PROVE  /\ tty[t].trans + tty[t].left = call[tty[t].procnr].n
                 /\ tk.pc \in {"scan", "recv", "resume", "sending"} =>
                      /\ SubSeq(ubuf[tty[t].procnr], 1, tty[t].trans) = Edited(chars[t])
                      /\ (\E i \in DOMAIN chars[t] : chars[t][i] = "LF") => Ending(t)
      <3>1. ReadSound(t) /\ LineSound(t)
        BY <2>1 DEF LInv
      <3>2. ASSUME tk.pc \in {"scan", "recv", "resume", "sending"}
            PROVE  ~Storing(t)
        BY <3>2 DEF Storing, TInv, TaskSound, Putting, OutPcs, ScrollPcs
      <3>3. DOMAIN chars[t] = 1..Len(chars[t])
        BY DEF LInv
      <3> QED  BY <3>1, <3>2, <3>3 DEF ReadSound, LineSound, Text, HasFeed
    <2>2. fs.pc = "got" /\ fs.reply = "RESUME_PROC" =>
            SubSeq(ubuf[fs.p], 1, fs.cnt) = Edited(chars[call[fs.p].t])
      BY DEF LInv, ResumeSound
    <2> QED  BY <2>1, <2>2 DEF LineDelivered
  <1> QED  BY <1>1, TtyInvariant, LinesInvariant, PTL

-----------------------------------------------------------------------------
(***************************************************************************)
(* The modifier keys                                                       *)
(***************************************************************************)

\* A place in the codes of the script, and the place after it.
Place(p) ==
    /\ p = [event |-> p.event, byte |-> p.byte]
    /\ p.event \in 1..(Len(script) + 1) /\ p.byte \in Nat \ {0}
    /\ IF p.event <= Len(script) THEN p.byte <= Len(CodesOf(p.event)) ELSE p.byte = 1
Following(p) == IF p.byte < Len(CodesOf(p.event)) THEN [p EXCEPT !.byte = @ + 1]
                ELSE [event |-> p.event + 1, byte |-> 1]

Earlier(p, q) == p.event < q.event \/ (p.event = q.event /\ p.byte < q.byte)

\* The place in the ring of the code that is read after i others.
Slot(tail, i) == IF tail + i < KB_IN_BYTES THEN tail + i ELSE tail + i - KB_IN_BYTES

\* The ring holds the codes of the places at[0], at[1] ... up to what is typed.
RingHolds(at) ==
    /\ kb_in.head = Slot(kb_in.tail, kb_in.count)
    /\ \A i \in 0..kb_in.count : Place(at[i])
    /\ at[kb_in.count] = typed
    /\ \A i \in 0..(kb_in.count - 1) :
         /\ at[i].event <= Len(script) /\ Earlier(at[i], typed)
         /\ at[i + 1] = Following(at[i])
         /\ kb_in.buf[Slot(kb_in.tail, i)] = CodesOf(at[i].event)[at[i].byte]

\* A key is down after n events.
DownAfter(key, n) ==
    LET sent == {i \in 1..n : script[i].key = key}
    IN  sent # {} /\ script[CHOOSE i \in sent : \A j \in sent : j <= i].make

\* The modifiers as they should be after n events.
Uses(key) == \E i \in 1..Len(script) : script[i].key = key
ModsAfterEvents(n) ==
    /\ \A m \in {"SHIFT_L", "SHIFT_R", "CTRL_L", "CTRL_R"} : mods[m] = DownAfter(m, n)
    /\ Uses("ALT_R") \/ mods["ALT_L"] = DownAfter("ALT_L", n)
    /\ Uses("ALT_L") \/ mods["ALT_L"] = DownAfter("ALT_R", n)
    /\ ~mods["ALT_R"]

\* What is still expected is what follows from the n-th code on.
IsRest(want, codes, n) ==
    /\ want \in Seq(Nat) /\ Len(want) = Len(codes) + 1 - n
    /\ \A i \in 1..Len(want) : want[i] = codes[n - 1 + i]

\* TTY has decoded the events before place p, and where it is within this one.
DecodedTo(p) ==
    /\ ModsAfterEvents(p.event - 1)
    /\ tk.pc \in KeyPcs => p.event <= Len(script)
    /\ tk.pc = "e0" => p.byte = 2 /\ CodesOf(p.event)[1] = E0
    /\ tk.pc = "print" =>
         /\ p.byte \in {3, 4}
         /\ CodesOf(p.event) \in {<<E0, 42, E0, 55>>, <<E0, 183, E0, 170>>}
         /\ IsRest(tk.want, CodesOf(p.event), p.byte)
    /\ tk.pc = "pause" =>
         /\ p.byte \in 2..6 /\ CodesOf(p.event) = Pause
         /\ IsRest(tk.want, Pause, p.byte)
    /\ tk.pc \notin KeyPcs => p.byte = 1

ScriptSound ==
    /\ script \in Seq([key : DOMAIN ScanCodes, make : BOOLEAN])
    /\ \A e \in 1..Len(script) : script[e].make \/ ScanCodes[script[e].key].break # <<>>

KInv ==
    /\ ScriptSound /\ Place(typed)
    /\ kb_in.buf = [i \in 0..(KB_IN_BYTES - 1) |-> kb_in.buf[i]]
    /\ ~dropped => \E at : RingHolds(at) /\ DecodedTo(at[0])

-----------------------------------------------------------------------------
(* What the keyboard sends for an event. *)

\* What the code that decides an event is looked up as, and what it says.
Means(e, code, columns) ==
    /\ code \in Nat /\ (Make(code) <=> script[e].make)
    /\ \A c \in columns : SameModifier(KeyAt(Keyrow(code), c), script[e].key)

IsPlain(e) == \E code : /\ CodesOf(e) = <<code>> /\ code \notin {E0, E1}
                        /\ Means(e, code, {1, 2})
IsAfterE0(e) == \E code : /\ CodesOf(e) = <<E0, code>> /\ PrintScreen(code) = <<>>
                          /\ Means(e, code, {3})
IsPrint(e) == /\ script[e].key \notin Modifiers
              /\ CodesOf(e) \in {<<E0, 42, E0, 55>>, <<E0, 183, E0, 170>>}
IsPause(e) == script[e].key \notin Modifiers /\ CodesOf(e) = Pause

LEMMA TupleLens ==
    /\ \A a : Len(<<a>>) = 1
    /\ \A a, b : Len(<<a, b>>) = 2 /\ <<a, b>>[1] = a
    /\ \A a, b, c, d : Len(<<a, b, c, d>>) = 4 /\ <<a, b, c, d>>[1] = a
    /\ Len(Pause) = 6 /\ Pause[1] = E1
  <1>1. \A a : Len(<<a>>) = 1
    OBVIOUS
  <1>2. \A a, b : Len(<<a, b>>) = 2 /\ <<a, b>>[1] = a
    OBVIOUS
  <1>3. \A a, b, c, d : Len(<<a, b, c, d>>) = 4 /\ <<a, b, c, d>>[1] = a
    OBVIOUS
  <1>4. Len(Pause) = 6 /\ Pause[1] = E1
    BY DEF Pause
  <1> QED  BY <1>1, <1>2, <1>3, <1>4

LEMMA EventShapes ==
    ASSUME ScriptSound, NEW e \in 1..Len(script)
    PROVE  IsPlain(e) \/ IsAfterE0(e) \/ IsPrint(e) \/ IsPause(e)
  <1>1. PICK k, mk : k = script[e].key /\ mk = script[e].make
    OBVIOUS
  <1>2. k \in DOMAIN ScanCodes /\ mk \in BOOLEAN
    <2>1. PICK Event : Event = [key : DOMAIN ScanCodes, make : BOOLEAN]
      OBVIOUS
    <2>2. script \in Seq(Event)
      BY <2>1 DEF ScriptSound
    <2>3. script[e] \in Event
      BY <2>2
    <2> QED  BY <1>1, <2>1, <2>3
  <1>3. CodesOf(e) = IF mk THEN ScanCodes[k].make ELSE ScanCodes[k].break
    BY <1>1 DEF CodesOf
  <1>4. CASE ScanCodes[k] = [make |-> Pause, break |-> <<>>] /\ k \notin Modifiers
    <2>1. mk
      BY <1>1, <1>4 DEF ScriptSound
    <2> QED  BY <1>1, <1>3, <1>4, <2>1 DEF IsPause
  <1>5. CASE /\ k \notin Modifiers
             /\ ScanCodes[k] = [make |-> <<E0, 42, E0, 55>>, break |-> <<E0, 183, E0, 170>>]
    BY <1>1, <1>3, <1>5 DEF IsPrint
  <1>6. ASSUME NEW row \in 1..127
        PROVE  \E code : /\ code = (IF mk THEN row ELSE row + 128) /\ code \in Nat
                         /\ (Make(code) <=> mk) /\ Keyrow(code) = row
    <2>1. row % 128 = row /\ (row + 128) % 128 = row
      OBVIOUS
    <2> QED  BY <1>2, <2>1 DEF Make, Keyrow
  <1>7. ASSUME NEW row \in 1..127, ScanCodes[k] = Plain(row),
               {row, row + 128} \cap {E0, E1} = {},
               \A c \in {1, 2} : SameModifier(KeyAt(row, c), k)
        PROVE  IsPlain(e)
    <2>1. PICK code : /\ code = (IF mk THEN row ELSE row + 128) /\ code \in Nat
                      /\ (Make(code) <=> mk) /\ Keyrow(code) = row
      BY <1>6
    <2>2. CodesOf(e) = <<code>>
      BY <1>2, <1>3, <1>7, <2>1 DEF Plain
    <2>3. code \notin {E0, E1}
      <3>1. code \in {row, row + 128}
        BY <1>2, <2>1
      <3> QED  BY <1>7, <3>1, Zenon
    <2>4. Means(e, code, {1, 2})
      BY <1>1, <1>7, <2>1 DEF Means
    <2> QED  BY <2>2, <2>3, <2>4 DEF IsPlain
  <1>8. ASSUME NEW row \in 1..127, ScanCodes[k] = After_E0(row),
               PrintScreen(row) = <<>>, PrintScreen(row + 128) = <<>>,
               SameModifier(KeyAt(row, 3), k)
        PROVE  IsAfterE0(e)
    <2>1. PICK code : /\ code = (IF mk THEN row ELSE row + 128) /\ code \in Nat
                      /\ (Make(code) <=> mk) /\ Keyrow(code) = row
      BY <1>6
    <2>2. CodesOf(e) = <<E0, code>>
      BY <1>2, <1>3, <1>8, <2>1 DEF After_E0
    <2>3. PrintScreen(code) = <<>>
      BY <1>8, <2>1
    <2>4. Means(e, code, {3})
      BY <1>1, <1>8, <2>1 DEF Means
    <2> QED  BY <2>2, <2>3, <2>4 DEF IsAfterE0
  <1>9. CASE \E row \in 1..127 :
               \/ /\ ScanCodes[k] = Plain(row) /\ {row, row + 128} \cap {E0, E1} = {}
                  /\ \A c \in {1, 2} : SameModifier(KeyAt(row, c), k)
               \/ /\ ScanCodes[k] = After_E0(row)
                  /\ PrintScreen(row) = <<>> /\ PrintScreen(row + 128) = <<>>
                  /\ SameModifier(KeyAt(row, 3), k)
    BY <1>7, <1>8, <1>9, Zenon
  <1> QED  BY <1>2, <1>4, <1>5, <1>9, ScanAssumption, Zenon

LEMMA CodesNotEmpty ==
    ASSUME ScriptSound, NEW e \in 1..Len(script)
    PROVE  Len(CodesOf(e)) \in Nat \ {0}
  <1>1. Len(CodesOf(e)) \in {1, 2, 4, 6}
    BY EventShapes, TupleLens, Zenon DEF IsPlain, IsAfterE0, IsPrint, IsPause
  <1>2. \A n \in {1, 2, 4, 6} : n \in Nat \ {0}
    OBVIOUS
  <1> QED  BY <1>1, <1>2, Zenon

-----------------------------------------------------------------------------
(* The keys that are down. *)

LEMMA DownSame ==
    ASSUME ScriptSound, NEW e \in 1..Len(script), NEW key, script[e].key # key
    PROVE  DownAfter(key, e) = DownAfter(key, e - 1)
  <1>1. {i \in 1..e : script[i].key = key} = {i \in 1..(e - 1) : script[i].key = key}
    BY DEF ScriptSound
  <1> QED  BY <1>1 DEF DownAfter

LEMMA DownNow ==
    ASSUME ScriptSound, NEW e \in 1..Len(script)
    PROVE  DownAfter(script[e].key, e) <=> script[e].make
  <1> DEFINE sent == {i \in 1..e : script[i].key = script[e].key}
  <1>1. e \in sent /\ \A j \in sent : j \in Int /\ j <= e
    OBVIOUS
  <1>2. (CHOOSE i \in sent : \A j \in sent : j <= i) = e
    <2>1. PICK i : i = CHOOSE n \in sent : \A j \in sent : j <= n
      OBVIOUS
    <2>2. i \in sent /\ \A j \in sent : j <= i
      BY <1>1, <2>1
    <2> QED  BY <1>1, <2>1, <2>2
  <1> QED  BY <1>1, <1>2, Zenon DEF DownAfter

\* The code that decides an event enters or leaves its modifier, and no other.
LEMMA ModsEvent ==
    ASSUME TInv, ScriptSound, NEW e \in 1..Len(script), ModsAfterEvents(e - 1),
           NEW scan, NEW with_E0 \in BOOLEAN, Means(e, scan, {Column(scan, with_E0)}),
           mods' = ModsAfter(scan, with_E0), script' = script
    PROVE  ModsAfterEvents(e)'
  <1>1. PICK k, key : k = script[e].key /\ key = Key(scan, with_E0)
    OBVIOUS
  <1>2. SameModifier(key, k) /\ (Make(scan) <=> script[e].make)
    BY <1>1 DEF Means, Key
  <1>3. mods \in [Modifiers \cup Locks -> BOOLEAN] /\ mods' \in [Modifiers \cup Locks -> BOOLEAN]
    BY ModsTyped DEF TInv, KeyboardSound
  <1>4. PICK entered : entered = IF key = "ALT_R" THEN "ALT_L" ELSE key
    OBVIOUS
  <1>5. ASSUME NEW m \in Modifiers
        PROVE  /\ entered = m => (mods'[m] <=> Make(scan))
               /\ entered # m => mods'[m] = mods[m]
    <2>1. m \notin Locks /\ m \in DOMAIN mods
      BY <1>3, <1>5 DEF Modifiers, Locks
    <2>2. mods'[m] = CASE m \in Modifiers /\ entered = m -> Make(scan)
                       [] m \in Locks /\ entered = m /\ Make(scan) -> ~mods[m]
                       [] OTHER -> mods[m]
      BY <1>1, <1>4, <2>1 DEF ModsAfter
    <2>3. CASE entered = m
      <3>1. mods'[m] = Make(scan)
        BY <2>1, <2>2, <2>3
      <3> QED  BY <2>3, <3>1, Zenon
    <2>4. CASE entered # m
      BY <2>1, <2>2, <2>4
    <2> QED  BY <2>3, <2>4
  <1>6. ASSUME NEW m PROVE DownAfter(m, e)' = DownAfter(m, e)
    BY DEF DownAfter
  <1>7. ASSUME NEW m PROVE (Uses(m))' <=> Uses(m)
    BY DEF Uses
  <1>8. ASSUME NEW m \in Modifiers, m \notin {"ALT_L", "ALT_R"}, mods[m] = DownAfter(m, e - 1)
        PROVE  mods'[m] = DownAfter(m, e)
    <2>1. mods'[m] \in BOOLEAN /\ DownAfter(m, e) \in BOOLEAN
      BY <1>3, <1>8, Zenon DEF DownAfter
    <2>2. CASE k = m
      <3>1. entered = m
        BY <1>2, <1>4, <1>8, <2>2 DEF SameModifier
      <3>2. DownAfter(m, e) <=> script[e].make
        BY <1>1, <2>2, DownNow
      <3> QED  BY <1>2, <1>5, <1>8, <2>1, <3>1, <3>2, Zenon
    <2>3. CASE k # m
      <3>1. entered # m
        BY <1>2, <1>4, <1>8, <2>3 DEF SameModifier
      <3> QED  BY <1>1, <1>5, <1>8, <2>3, <3>1, DownSame
    <2> QED  BY <2>2, <2>3
  <1>9. ASSUME NEW m \in {"ALT_L", "ALT_R"}, mods["ALT_L"] = DownAfter(m, e - 1),
               \A n \in {"ALT_L", "ALT_R"} : n # m => ~Uses(n)
        PROVE  mods'["ALT_L"] = DownAfter(m, e)
    <2>1. mods'["ALT_L"] \in BOOLEAN /\ DownAfter(m, e) \in BOOLEAN
      BY <1>3, Zenon DEF DownAfter, Modifiers
    <2>2. CASE k = m
      <3>1. entered = "ALT_L"
        BY <1>2, <1>4, <1>9, <2>2 DEF SameModifier, Modifiers
      <3>2. DownAfter(m, e) <=> script[e].make
        BY <1>1, <2>2, DownNow
      <3>3. mods'["ALT_L"] <=> Make(scan)
        BY <1>5, <3>1 DEF Modifiers
      <3> QED  BY <1>2, <2>1, <3>2, <3>3, Zenon
    <2>3. CASE k # m
      <3>1. k \notin {"ALT_L", "ALT_R"}
        BY <1>1, <1>9, <2>3 DEF Uses
      <3>2. entered # "ALT_L"
        BY <1>2, <1>4, <3>1 DEF SameModifier, Modifiers
      <3>3. mods'["ALT_L"] = mods["ALT_L"]
        BY <1>5, <3>2 DEF Modifiers
      <3> QED  BY <1>1, <1>9, <2>3, <3>3, DownSame
    <2> QED  BY <2>2, <2>3
  <1>10. ~mods'["ALT_R"]
    <2>1. entered # "ALT_R"
      BY <1>4
    <2>2. mods'["ALT_R"] = mods["ALT_R"]
      BY <1>5, <2>1 DEF Modifiers
    <2> QED  BY <2>2 DEF ModsAfterEvents
  <1>11. \A m \in {"SHIFT_L", "SHIFT_R", "CTRL_L", "CTRL_R"} : mods'[m] = DownAfter(m, e)
    BY <1>8 DEF ModsAfterEvents, Modifiers
  <1>12. /\ Uses("ALT_R") \/ mods'["ALT_L"] = DownAfter("ALT_L", e)
         /\ Uses("ALT_L") \/ mods'["ALT_L"] = DownAfter("ALT_R", e)
    BY <1>9 DEF ModsAfterEvents
  <1> QED  BY <1>6, <1>7, <1>10, <1>11, <1>12 DEF ModsAfterEvents

LEMMA ModsStay ==
    ASSUME NEW n, ModsAfterEvents(n), UNCHANGED <<mods, script>>
    PROVE  ModsAfterEvents(n)'
  <1>1. ASSUME NEW m PROVE DownAfter(m, n)' = DownAfter(m, n)
    BY DEF DownAfter
  <1>2. ASSUME NEW m PROVE (Uses(m))' <=> Uses(m)
    BY DEF Uses
  <1> QED  BY <1>1, <1>2 DEF ModsAfterEvents

LEMMA ModsIgnored ==
    ASSUME ScriptSound, NEW e \in 1..Len(script), ModsAfterEvents(e - 1),
           script[e].key \notin Modifiers, UNCHANGED <<mods, script>>
    PROVE  ModsAfterEvents(e)'
  <1>1. \A m \in Modifiers : DownAfter(m, e) = DownAfter(m, e - 1)
    BY DownSame
  <1>2. /\ \A m \in {"SHIFT_L", "SHIFT_R", "CTRL_L", "CTRL_R"} : mods[m] = DownAfter(m, e)
        /\ Uses("ALT_R") \/ mods["ALT_L"] = DownAfter("ALT_L", e)
        /\ Uses("ALT_L") \/ mods["ALT_L"] = DownAfter("ALT_R", e)
        /\ ~mods["ALT_R"]
    BY <1>1 DEF ModsAfterEvents, Modifiers
  <1>3. ModsAfterEvents(e)
    BY <1>2 DEF ModsAfterEvents
  <1> QED  BY <1>3, ModsStay

-----------------------------------------------------------------------------
(* The ring. *)

LEMMA PlaceNext ==
    ASSUME ScriptSound, NEW p, Place(p), p.event <= Len(script)
    PROVE  /\ Place(Following(p))
           /\ Following(p).event = p.event \/ Following(p).event = p.event + 1
  <1>1. Len(script) \in Nat /\ p.event \in 1..Len(script) /\ p.byte \in Nat \ {0}
    BY DEF ScriptSound, Place
  <1>2. p = [event |-> p.event, byte |-> p.byte]
    BY DEF Place
  <1>3. Len(CodesOf(p.event)) \in Nat \ {0}
    BY <1>1, CodesNotEmpty
  <1>4. CASE p.byte < Len(CodesOf(p.event))
    <2>1. Following(p) = [event |-> p.event, byte |-> p.byte + 1]
      BY <1>2, <1>4 DEF Following
    <2> QED  BY <1>1, <1>3, <1>4, <2>1 DEF Place
  <1>5. CASE ~(p.byte < Len(CodesOf(p.event)))
    <2>1. Following(p) = [event |-> p.event + 1, byte |-> 1]
      BY <1>5 DEF Following
    <2>2. p.event + 1 <= Len(script) => 1 <= Len(CodesOf(p.event + 1))
      BY <1>1, CodesNotEmpty
    <2> QED  BY <1>1, <2>1, <2>2 DEF Place
  <1> QED  BY <1>4, <1>5

LEMMA PlaceStays ==
    ASSUME script' = script, NEW p
    PROVE  /\ Place(p)' <=> Place(p)
           /\ Following(p)' = Following(p)
           /\ \A e : CodesOf(e)' = CodesOf(e)
  BY DEF Place, Following, CodesOf

LEMMA EarlierNext ==
    ASSUME ScriptSound, NEW p, Place(p), p.event <= Len(script) PROVE Earlier(p, Following(p))
  <1>1. p = [event |-> p.event, byte |-> p.byte] /\ p.event \in Nat /\ p.byte \in Nat
    BY DEF Place
  <1> QED  BY <1>1 DEF Following, Earlier

LEMMA EarlierThan ==
    ASSUME ScriptSound, NEW p, NEW q, NEW r, Place(p), Place(q), Place(r), Earlier(p, q), Earlier(q, r)
    PROVE  Earlier(p, r)
  BY DEF Place, Earlier, ScriptSound

\* Taking a byte moves every place forward by one.
LEMMA TakeRing ==
    ASSUME TInv, KInv, TakeByte, NEW at, RingHolds(at)
    PROVE  /\ Place(at[0]) /\ at[0].event \in 1..Len(script)
           /\ Byte = CodesOf(at[0].event)[at[0].byte]
           /\ \E next : RingHolds(next)' /\ next[0] = Following(at[0])
  <1>1. /\ kb_in.count \in 1..KB_IN_BYTES /\ kb_in.tail \in 0..(KB_IN_BYTES - 1)
        /\ kb_in = [buf |-> kb_in.buf, head |-> kb_in.head, tail |-> kb_in.tail, count |-> kb_in.count]
        /\ kb_in' = [kb_in EXCEPT !.tail = Wrap(@), !.count = @ - 1]
        /\ script' = script /\ typed' = typed
    BY KeyboardAssumption DEF TInv, KeyboardSound, TakeByte, get_byte_from_kbuf
  <1>2. /\ kb_in'.buf = kb_in.buf /\ kb_in'.head = kb_in.head /\ kb_in'.tail = Wrap(kb_in.tail)
        /\ kb_in'.count = kb_in.count - 1
    BY <1>1
  <1>3. KB_IN_BYTES \in Nat \ {0}
    BY KeyboardAssumption
  <1>4. \A i \in 0..kb_in.count : Place(at[i])
    BY DEF RingHolds
  <1>5. \A i \in 0..(kb_in.count - 1) :
          /\ at[i].event <= Len(script) /\ Earlier(at[i], typed)
          /\ at[i + 1] = Following(at[i])
          /\ kb_in.buf[Slot(kb_in.tail, i)] = CodesOf(at[i].event)[at[i].byte]
    BY DEF RingHolds
  <1>6. 0 \in 0..kb_in.count /\ 0 \in 0..(kb_in.count - 1)
    BY <1>1, <1>3
  <1>7. Place(at[0]) /\ at[0].event \in 1..Len(script)
    <2>1. Place(at[0]) /\ at[0].event <= Len(script)
      BY <1>4, <1>5, <1>6
    <2>2. Len(script) \in Nat
      BY DEF KInv, ScriptSound
    <2> QED  BY <2>1, <2>2 DEF Place
  <1>8. Byte = CodesOf(at[0].event)[at[0].byte]
    <2>1. Slot(kb_in.tail, 0) = kb_in.tail
      BY <1>1, <1>3 DEF Slot
    <2> QED  BY <1>5, <1>6, <2>1 DEF Byte
  <1>9. ASSUME NEW i \in 0..(kb_in.count - 1) PROVE Slot(kb_in'.tail, i) = Slot(kb_in.tail, i + 1)
    BY <1>1, <1>2, <1>3 DEF Slot, Wrap
  <1>14. PICK next : next = [i \in 0..(kb_in.count - 1) |-> at[i + 1]]
    OBVIOUS
  <1>10. /\ kb_in'.head = Slot(kb_in'.tail, kb_in.count - 1)
         /\ \A i \in 0..(kb_in.count - 1) : Place(next[i])'
         /\ next[kb_in.count - 1] = typed
    <2>1. kb_in.count - 1 \in 0..(kb_in.count - 1) /\ kb_in.count - 1 + 1 = kb_in.count
      BY <1>1, <1>3
    <2>2. kb_in.head = Slot(kb_in.tail, kb_in.count) /\ at[kb_in.count] = typed
      BY DEF RingHolds
    <2>3. ASSUME NEW i \in 0..(kb_in.count - 1) PROVE Place(next[i])'
      <3>1. i + 1 \in 0..kb_in.count
        BY <1>1, <1>3
      <3>2. Place(next[i])
        BY <1>4, <1>14, <3>1
      <3> QED  BY <1>1, <3>2, PlaceStays
    <2> QED  BY <1>2, <1>9, <1>14, <2>1, <2>2, <2>3
  <1>11. ASSUME NEW i \in 0..(kb_in.count - 2)
         PROVE  /\ next[i].event <= Len(script) /\ Earlier(next[i], typed)
                /\ next[i + 1] = Following(next[i])
                /\ kb_in.buf[Slot(kb_in'.tail, i)] = CodesOf(next[i].event)[next[i].byte]
    <2>1. i + 1 \in 0..(kb_in.count - 1) /\ i \in 0..(kb_in.count - 1)
      BY <1>1, <1>3
    <2>2. next[i] = at[i + 1] /\ next[i + 1] = at[i + 1 + 1]
      BY <1>14, <2>1
    <2> QED  BY <1>5, <1>9, <2>1, <2>2
  <1>12. next[0] = Following(at[0])
    BY <1>5, <1>6, <1>14
  <1>13. RingHolds(next)'
    <2>1. kb_in.count - 1 - 1 = kb_in.count - 2
      BY <1>1, <1>3
    <2> QED  BY <1>1, <1>2, <1>10, <1>11, <2>1, PlaceStays DEF RingHolds
  <1> QED  BY <1>7, <1>8, <1>12, <1>13

\* A code that finds room is put behind the others.
LEMMA HandlerRing ==
    ASSUME TInv, KInv, keyboard_handler, ~dropped', NEW at, RingHolds(at)
    PROVE  \E next : RingHolds(next)' /\ next[0] = at[0]
  <1>1. /\ kb_in.count < KB_IN_BYTES
        /\ kb_in' = [kb_in EXCEPT !.buf[kb_in.head] = EventCodes[typed.byte],
                                  !.head = Wrap(@), !.count = @ + 1]
        /\ script' = script /\ typed.event <= Len(script)
        /\ typed' = IF typed.byte < Len(EventCodes) THEN [typed EXCEPT !.byte = @ + 1]
                    ELSE [event |-> typed.event + 1, byte |-> 1]
    BY DEF keyboard_handler
  <1>2. /\ KB_IN_BYTES \in Nat \ {0} /\ kb_in.count \in 0..(KB_IN_BYTES - 1)
        /\ kb_in.tail \in 0..(KB_IN_BYTES - 1) /\ kb_in.head \in 0..(KB_IN_BYTES - 1)
        /\ kb_in = [buf |-> kb_in.buf, head |-> kb_in.head, tail |-> kb_in.tail, count |-> kb_in.count]
    BY <1>1, KeyboardAssumption DEF TInv, KeyboardSound
  <1>3. /\ kb_in'.head = Wrap(kb_in.head) /\ kb_in'.tail = kb_in.tail
        /\ kb_in'.count = kb_in.count + 1
        /\ kb_in'.buf = [kb_in.buf EXCEPT ![kb_in.head] = EventCodes[typed.byte]]
    BY <1>1, <1>2
  <1>4. EventCodes = CodesOf(typed.event) /\ typed' = Following(typed)
    BY <1>1 DEF EventCodes, CodesOf, Following
  <1>5. ASSUME NEW i \in 0..kb_in.count PROVE Slot(kb_in'.tail, i) = Slot(kb_in.tail, i)
    BY <1>3 DEF Slot
  <1>6. kb_in.head = Slot(kb_in.tail, kb_in.count)
    BY DEF RingHolds
  <1>7. kb_in'.head = Slot(kb_in'.tail, kb_in.count + 1)
    BY <1>2, <1>3, <1>6 DEF Slot, Wrap
  <1>8. ASSUME NEW i \in 0..(kb_in.count - 1)
        PROVE  kb_in'.buf[Slot(kb_in.tail, i)] = kb_in.buf[Slot(kb_in.tail, i)]
    <2>1. Slot(kb_in.tail, i) \in 0..(KB_IN_BYTES - 1) /\ Slot(kb_in.tail, i) # kb_in.head
      BY <1>2, <1>6 DEF Slot
    <2>2. DOMAIN kb_in.buf = 0..(KB_IN_BYTES - 1)
      BY DEF KInv
    <2> QED  BY <1>3, <2>1, <2>2
  <1>9. kb_in'.buf[Slot(kb_in.tail, kb_in.count)] = CodesOf(typed.event)[typed.byte]
    <2>1. DOMAIN kb_in.buf = 0..(KB_IN_BYTES - 1)
      BY DEF KInv
    <2> QED  BY <1>2, <1>3, <1>4, <1>6, <2>1
  <1>10. Place(typed) /\ Place(Following(typed))
    <2>1. kb_in.count \in 0..kb_in.count
      BY <1>2
    <2>2. Place(typed)
      BY <2>1 DEF RingHolds
    <2> QED  BY <1>1, <2>2, PlaceNext DEF KInv
  <1>18. Earlier(typed, typed') /\ Place(typed')
    BY <1>1, <1>4, <1>10, EarlierNext DEF KInv
  <1>17. script' = script
    BY DEF keyboard_handler
  <1>16. PICK next : next = [i \in 0..(kb_in.count + 1) |-> IF i <= kb_in.count THEN at[i]
                                                           ELSE Following(typed)]
    OBVIOUS
  <1>11. /\ \A i \in 0..kb_in.count : next[i] = at[i]
         /\ next[kb_in.count + 1] = Following(typed)
    BY <1>2, <1>16
  <1>12. \A i \in 0..(kb_in.count + 1) : Place(next[i])
    <2>1. \A i \in 0..(kb_in.count + 1) : i \in 0..kb_in.count \/ i = kb_in.count + 1
      BY <1>2
    <2>2. \A i \in 0..kb_in.count : Place(at[i])
      BY DEF RingHolds
    <2> QED  BY <1>10, <1>11, <2>1, <2>2
  <1>13. ASSUME NEW i \in 0..kb_in.count
         PROVE  /\ next[i].event <= Len(script) /\ Earlier(next[i], typed')
                /\ next[i + 1] = Following(next[i])
                /\ kb_in'.buf[Slot(kb_in'.tail, i)] = CodesOf(next[i].event)[next[i].byte]
    <2>1. CASE i = kb_in.count
      <3>1. next[i] = typed
        BY <1>11, <2>1 DEF RingHolds
      <3> QED  BY <1>1, <1>5, <1>9, <1>11, <1>18, <2>1, <3>1
    <2>2. CASE i # kb_in.count
      <3>1. i \in 0..(kb_in.count - 1) /\ i + 1 \in 0..kb_in.count
        BY <1>2, <2>2
      <3>2. next[i] = at[i] /\ next[i + 1] = at[i + 1]
        BY <1>11, <3>1
      <3>3. /\ at[i].event <= Len(script) /\ at[i + 1] = Following(at[i]) /\ Earlier(at[i], typed)
            /\ kb_in.buf[Slot(kb_in.tail, i)] = CodesOf(at[i].event)[at[i].byte]
        BY <3>1 DEF RingHolds
      <3>4. Place(at[i])
        BY <1>2, <3>1 DEF RingHolds
      <3>5. Earlier(at[i], typed')
        BY <1>10, <1>17, <1>18, <3>3, <3>4, EarlierThan, PlaceStays DEF KInv
      <3> QED  BY <1>5, <1>8, <3>1, <3>2, <3>3, <3>5
    <2> QED  BY <2>1, <2>2
  <1>14. RingHolds(next)'
    <2>1. kb_in.count + 1 - 1 = kb_in.count
      BY <1>2
    <2>2. \A i \in 0..kb_in'.count : Place(next[i])'
      BY <1>3, <1>12, <1>17, PlaceStays
    <2>3. next[kb_in'.count] = typed' /\ kb_in'.head = Slot(kb_in'.tail, kb_in'.count)
      BY <1>3, <1>4, <1>7, <1>11
    <2>4. ASSUME NEW i \in 0..(kb_in'.count - 1)
          PROVE  /\ next[i].event <= Len(script') /\ Earlier(next[i], typed')
                 /\ next[i + 1] = Following(next[i])'
                 /\ kb_in'.buf[Slot(kb_in'.tail, i)] = CodesOf(next[i].event)'[next[i].byte]
      <3>1. i \in 0..kb_in.count
        BY <1>2, <1>3, <2>1
      <3>2. Following(next[i])' = Following(next[i])
        BY <1>17, PlaceStays
      <3>3. CodesOf(next[i].event)' = CodesOf(next[i].event)
        BY <1>17, PlaceStays
      <3> QED  BY <1>13, <1>17, <3>1, <3>2, <3>3
    <2> QED  BY <2>2, <2>3, <2>4 DEF RingHolds
  <1>15. next[0] = at[0]
    BY <1>2, <1>11
  <1> QED  BY <1>14, <1>15

-----------------------------------------------------------------------------
(* The steps. *)

\* Steps that neither type nor read a code.
LEMMA KeysKept ==
    ASSUME KInv, UNCHANGED <<kb_in, mods, script, typed, dropped>>,
           tk' = tk \/ (tk.pc \notin KeyPcs /\ tk'.pc \notin KeyPcs)
    PROVE  KInv'
  <1>1. ASSUME NEW at, RingHolds(at), DecodedTo(at[0]) PROVE RingHolds(at)' /\ DecodedTo(at[0])'
    <2>1. RingHolds(at)'
      BY <1>1 DEF RingHolds, Place, Following, CodesOf
    <2>2. ModsAfterEvents(at[0].event - 1)'
      BY <1>1, ModsStay DEF DecodedTo
    <2>3. CASE tk' = tk
      BY <1>1, <2>1, <2>2, <2>3, PlaceStays DEF DecodedTo
    <2>4. CASE tk.pc \notin KeyPcs /\ tk'.pc \notin KeyPcs
      BY <1>1, <2>1, <2>2, <2>4 DEF DecodedTo, KeyPcs
    <2> QED  BY <2>1, <2>3, <2>4
  <1>2. ScriptSound' /\ Place(typed)' /\ (kb_in.buf = [i \in 0..(KB_IN_BYTES - 1) |-> kb_in.buf[i]])'
    BY DEF KInv, ScriptSound, Place, CodesOf
  <1>3. ~dropped' => \E at : RingHolds(at)' /\ DecodedTo(at[0])'
    BY <1>1 DEF KInv
  <1> QED  BY <1>2, <1>3 DEF KInv

LEMMA KeyInterruptKeys == ASSUME TInv, KInv, KeyInterrupt PROVE KInv'
  <1>1. /\ keyboard_handler /\ UNCHANGED <<mods, script, tk>>
        /\ dropped' = dropped \/ dropped' = TRUE
    BY DEF KeyInterrupt, keyboard_handler, taskVars
  <1>2. kb_in'.buf = [i \in 0..(KB_IN_BYTES - 1) |-> kb_in'.buf[i]]
    <2>1. kb_in = [buf |-> kb_in.buf, head |-> kb_in.head, tail |-> kb_in.tail, count |-> kb_in.count]
      BY DEF TInv, KeyboardSound
    <2>2. kb_in' = kb_in \/ (kb_in' = [kb_in EXCEPT !.buf[kb_in.head] = EventCodes[typed.byte],
                                                    !.head = Wrap(@), !.count = @ + 1])
      BY <1>1 DEF keyboard_handler
    <2>3. kb_in'.buf = kb_in.buf \/ kb_in'.buf = [kb_in.buf EXCEPT ![kb_in.head] = EventCodes[typed.byte]]
      BY <2>1, <2>2
    <2> QED  BY <2>3 DEF KInv
  <1>3. ASSUME ~dropped', NEW at, RingHolds(at), DecodedTo(at[0])
        PROVE  \E next : RingHolds(next)' /\ DecodedTo(next[0])'
    <2>1. PICK next : RingHolds(next)' /\ next[0] = at[0]
      BY <1>1, <1>3, HandlerRing
    <2>2. ModsAfterEvents(at[0].event - 1)'
      BY <1>1, <1>3, ModsStay DEF DecodedTo
    <2>3. DecodedTo(at[0])'
      BY <1>1, <1>3, <2>2, PlaceStays DEF DecodedTo
    <2> QED  BY <2>1, <2>3
  <1>4. ~dropped' => ~dropped
    BY <1>1 DEF TInv, KeyboardSound
  <1>5. Place(typed)'
    <2>1. typed' = Following(typed) /\ typed.event <= Len(script)
      BY <1>1 DEF keyboard_handler, EventCodes, Following
    <2>2. Place(Following(typed))
      BY <2>1, PlaceNext DEF KInv
    <2> QED  BY <1>1, <2>1, <2>2, PlaceStays
  <1> QED  BY <1>1, <1>2, <1>3, <1>4, <1>5 DEF KInv, ScriptSound

\* A command to the keyboard makes it send an ACK behind everything it has begun:
\* no code that is in the ring, and no event before, changes its place.
LEMMA AckedScript ==
    ASSUME KInv, script' = Acked, typed' = typed
    PROVE  /\ Len(script') = Len(script) + 1 /\ ScriptSound' /\ Place(typed)'
           /\ \A e \in 1..Len(script) : e < typed.event \/ (e = typed.event /\ typed.byte > 1) =>
                script'[e] = script[e]
           /\ \A m : Uses(m) => Uses(m)'
  <1>1. /\ Len(script) \in Nat /\ typed.event \in 1..(Len(script) + 1) /\ typed.byte \in Nat \ {0}
        /\ script \in Seq([key : DOMAIN ScanCodes, make : BOOLEAN])
        /\ \A e \in 1..Len(script) : script[e].make \/ ScanCodes[script[e].key].break # <<>>
    BY DEF KInv, ScriptSound, Place
  <1>2. /\ typed = [event |-> typed.event, byte |-> typed.byte]
        /\ typed.event <= Len(script) => typed.byte <= Len(CodesOf(typed.event))
        /\ typed.byte > 1 => typed.event <= Len(script)
    BY <1>1 DEF KInv, Place
  <1>3. PICK n : n = IF typed.byte = 1 THEN typed.event ELSE typed.event + 1
    OBVIOUS
  <1>4. n \in 1..(Len(script) + 1)
    BY <1>1, <1>2, <1>3
  <1>5. script' = [i \in 1..(Len(script) + 1) |->
                     IF i < n THEN script[i] ELSE IF i = n THEN Ack ELSE script[i - 1]]
    BY <1>3 DEF Acked
  <1>6. /\ Ack \in [key : DOMAIN ScanCodes, make : BOOLEAN]
        /\ ~Ack.make /\ ScanCodes[Ack.key].break = <<KB_ACK>>
    BY AckAssumption DEF Ack
  <1>7. \A i \in 1..(Len(script) + 1) :
          script'[i] = Ack \/ \E e \in 1..Len(script) : script'[i] = script[e]
    <2> SUFFICES ASSUME NEW i \in 1..(Len(script) + 1)
                 PROVE  script'[i] = Ack \/ \E e \in 1..Len(script) : script'[i] = script[e]
      OBVIOUS
    <2>1. script'[i] = IF i < n THEN script[i] ELSE IF i = n THEN Ack ELSE script[i - 1]
      BY <1>5
    <2>2. PICK m \in Nat : m = Len(script)
      BY <1>1
    <2>3. /\ i < n => i \in 1..m
          /\ i > n => i - 1 \in 1..m
      BY <1>4, <2>2
    <2>4. i < n \/ i = n \/ i > n
      BY <1>4
    <2> QED  BY <2>1, <2>2, <2>3, <2>4
  <1>8. script' \in Seq([key : DOMAIN ScanCodes, make : BOOLEAN]) /\ Len(script') = Len(script) + 1
    <2>1. PICK E : E = [key : DOMAIN ScanCodes, make : BOOLEAN]
      OBVIOUS
    <2>2. \A e \in 1..Len(script) : script[e] \in E
      <3>1. script \in Seq(E)
        BY <1>1, <2>1
      <3> QED  BY <3>1
    <2>3. \A i \in 1..(Len(script) + 1) : script'[i] \in E
      BY <1>6, <1>7, <2>1, <2>2
    <2> QED  BY <1>1, <1>5, <2>1, <2>3
  <1>9. ScriptSound'
    <2>1. <<KB_ACK>> # <<>>
      OBVIOUS
    <2>2. \A i \in 1..Len(script') :
            script'[i].make \/ ScanCodes[script'[i].key].break # <<>>
      <3> SUFFICES ASSUME NEW i \in 1..(Len(script) + 1)
                   PROVE  script'[i].make \/ ScanCodes[script'[i].key].break # <<>>
        BY <1>8
      <3>1. CASE script'[i] = Ack
        BY <1>6, <2>1, <3>1
      <3>2. CASE \E e \in 1..Len(script) : script'[i] = script[e]
        BY <1>1, <3>2
      <3> QED  BY <1>7, <3>1, <3>2
    <2> QED  BY <1>8, <2>2 DEF ScriptSound
  <1>10. \A e \in 1..Len(script) : e < typed.event \/ (e = typed.event /\ typed.byte > 1) =>
           script'[e] = script[e]
    BY <1>1, <1>3, <1>5
  <1>11. Place(typed)'
    <2>1. CASE typed.byte = 1
      <3>1. typed.event \in 1..Len(script')
        BY <1>1, <1>8
      <3>2. script'[typed.event] = Ack
        BY <1>1, <1>3, <1>5, <2>1
      <3>3. CodesOf(typed.event)' = <<KB_ACK>>
        BY <1>6, <3>2 DEF CodesOf
      <3>4. Len(<<KB_ACK>>) = 1
        OBVIOUS
      <3> QED  BY <1>1, <1>2, <1>8, <2>1, <3>1, <3>3, <3>4 DEF Place
    <2>2. CASE typed.byte > 1
      <3>1. CodesOf(typed.event)' = CodesOf(typed.event)
        BY <1>1, <1>2, <1>10, <2>2 DEF CodesOf
      <3> QED  BY <1>1, <1>2, <1>8, <2>2, <3>1 DEF Place
    <2> QED  BY <1>1, <2>1, <2>2
  <1>12. ASSUME NEW m, Uses(m) PROVE Uses(m)'
    <2>1. PICK e \in 1..Len(script) : script[e].key = m
      BY <1>12 DEF Uses
    <2>2. \E i \in 1..Len(script') : script'[i] = script[e]
      <3>1. e \in 1..Len(script') /\ e + 1 \in 1..Len(script')
        BY <1>1, <1>8
      <3>2. e < n => script'[e] = script[e]
        BY <1>1, <1>5
      <3>3. ~(e < n) => script'[e + 1] = script[e]
        BY <1>1, <1>4, <1>5
      <3> QED  BY <3>1, <3>2, <3>3
    <2> QED  BY <2>1, <2>2 DEF Uses
  <1> QED  BY <1>8, <1>9, <1>10, <1>11, <1>12

LEMMA SetLedsKeys == ASSUME TInv, KInv, set_leds PROVE KInv'
  <1>1. /\ script' = Acked /\ tk.pc \notin KeyPcs /\ tk'.pc \notin KeyPcs
        /\ UNCHANGED <<kb_in, mods, typed, dropped>>
    BY DEF set_leds, TtyAt, KeyPcs
  <1>2. ASSUME NEW at, RingHolds(at), DecodedTo(at[0]) PROVE RingHolds(at)' /\ DecodedTo(at[0])'
    <2>1. kb_in.count \in Nat /\ Len(script) \in Nat
      BY KeyboardAssumption DEF TInv, KeyboardSound, KInv, ScriptSound
    <2>2. at[kb_in.count] = typed /\ \A i \in 0..kb_in.count : Place(at[i])
      BY <1>2 DEF RingHolds
    <2>3. Place(typed)
      BY DEF KInv
    <2>4. /\ Len(script') = Len(script) + 1 /\ ScriptSound' /\ Place(typed)'
          /\ \A e \in 1..Len(script) : e < typed.event \/ (e = typed.event /\ typed.byte > 1) =>
               script'[e] = script[e]
          /\ \A m : Uses(m) => Uses(m)'
      BY <1>1, AckedScript
    <2>5. ASSUME NEW i \in 0..(kb_in.count - 1)
          PROVE  /\ Place(at[i])' /\ at[i].event <= Len(script') /\ Earlier(at[i], typed)
                 /\ at[i + 1] = Following(at[i])'
                 /\ kb_in.buf[Slot(kb_in.tail, i)] = CodesOf(at[i].event)'[at[i].byte]
      <3>1. /\ Place(at[i]) /\ at[i].event <= Len(script) /\ Earlier(at[i], typed)
            /\ at[i + 1] = Following(at[i])
            /\ kb_in.buf[Slot(kb_in.tail, i)] = CodesOf(at[i].event)[at[i].byte]
        BY <1>2, <2>1 DEF RingHolds
      <3>2. script'[at[i].event] = script[at[i].event]
        <4>1. at[i].event \in 1..Len(script) /\ at[i].byte \in Nat \ {0}
          BY <2>1, <3>1 DEF Place
        <4>2. at[i].event < typed.event \/ (at[i].event = typed.event /\ typed.byte > 1)
          BY <2>3, <3>1, <4>1 DEF Place, Earlier
        <4> QED  BY <2>4, <4>1, <4>2
      <3>3. CodesOf(at[i].event)' = CodesOf(at[i].event)
        BY <3>2 DEF CodesOf
      <3> QED  BY <2>1, <2>4, <3>1, <3>3 DEF Place, Following
    <2>6. \A i \in 0..kb_in.count : Place(at[i])'
      <3>1. \A i \in 0..kb_in.count : i \in 0..(kb_in.count - 1) \/ i = kb_in.count
        BY <2>1
      <3>2. \A i : i = kb_in.count => Place(at[i])'
        BY <1>1, <2>2, <2>4
      <3> QED  BY <2>5, <3>1, <3>2
    <2>7. RingHolds(at)'
      BY <1>1, <1>2, <2>2, <2>5, <2>6 DEF RingHolds
    <2>8. at[0].event \in 1..(Len(script) + 1) /\ at[0].byte = 1 /\ at[0].event <= typed.event
      <3>1. Place(at[0]) /\ at[0].byte = 1
        BY <1>1, <1>2, <2>1, <2>2 DEF DecodedTo
      <3>2. kb_in.count = 0 \/ Earlier(at[0], typed)
        BY <1>2, <2>1 DEF RingHolds
      <3> QED  BY <2>1, <2>2, <2>3, <3>1, <3>2 DEF Place, Earlier
    <2>9. \A e \in 1..(at[0].event - 1) : script'[e] = script[e]
      BY <2>1, <2>3, <2>4, <2>8 DEF Place
    <2>10. ASSUME NEW m PROVE DownAfter(m, at[0].event - 1)' = DownAfter(m, at[0].event - 1)
      <3>1. PICK sent : sent = {i \in 1..(at[0].event - 1) : script[i].key = m}
        OBVIOUS
      <3>2. sent = {i \in 1..(at[0].event - 1) : script'[i].key = m}
        BY <2>9, <3>1
      <3>3. PICK last : last = CHOOSE i \in sent : \A j \in sent : j <= i
        OBVIOUS
      <3>4. DownAfter(m, at[0].event - 1) = (sent # {} /\ script[last].make)
        BY <3>1, <3>3, Zenon DEF DownAfter
      <3>5. DownAfter(m, at[0].event - 1)' = (sent # {} /\ script'[last].make)
        BY <3>2, <3>3, Zenon DEF DownAfter
      <3>6. sent # {} => last \in 1..(at[0].event - 1)
        <4> SUFFICES ASSUME sent # {} PROVE last \in 1..(at[0].event - 1)
          OBVIOUS
        <4>1. sent \in SUBSET (1..(at[0].event - 1)) /\ at[0].event - 1 \in Nat
          BY <2>1, <2>8, <3>1
        <4>2. \E i \in sent : \A j \in sent : j <= i
          BY <4>1, GreatestNat
        <4>3. last \in sent
          BY <3>3, <4>2, Zenon
        <4> QED  BY <4>1, <4>3
      <3> QED  BY <2>9, <3>4, <3>5, <3>6
    <2>11. ModsAfterEvents(at[0].event - 1)'
      BY <1>1, <1>2, <2>4, <2>10 DEF DecodedTo, ModsAfterEvents
    <2> QED  BY <1>1, <2>7, <2>8, <2>11 DEF DecodedTo, KeyPcs
  <1>3. (kb_in.buf = [i \in 0..(KB_IN_BYTES - 1) |-> kb_in.buf[i]])'
    BY <1>1 DEF KInv
  <1> QED  BY <1>1, <1>2, <1>3, AckedScript DEF KInv

\* The event at p is decoded with its last code, or passed over.
Passed(p) == /\ Following(p) = [event |-> p.event + 1, byte |-> 1]
             /\ tk'.pc \notin KeyPcs /\ ModsAfterEvents(p.event)'

LEMMA PassedDecoded ==
    ASSUME NEW p, p.event \in Nat, Passed(p), NEW q, q = Following(p) PROVE DecodedTo(q)'
  <1>1. q.event - 1 = p.event /\ q.byte = 1
    BY DEF Passed
  <1> QED  BY <1>1 DEF Passed, DecodedTo, KeyPcs

\* The last code of an event that is looked up.
LEMMA DecodeKeys ==
    ASSUME TInv, ScriptSound, NEW p, Place(p), p.event \in 1..Len(script), DecodedTo(p),
           p.byte = Len(CodesOf(p.event)), script' = script,
           NEW t \in Consoles, tk.pc \in {"scan"} \cup KeyPcs,
           NEW scan, NEW with_E0 \in BOOLEAN, Decode(t, scan, with_E0),
           Means(p.event, scan, IF with_E0 THEN {3} ELSE {1, 2})
    PROVE  Passed(p)
  <1>1. Following(p) = [event |-> p.event + 1, byte |-> 1]
    <2>1. Len(CodesOf(p.event)) \in Nat
      BY CodesNotEmpty
    <2> QED  BY <2>1 DEF Following
  <1>2. tk'.pc \notin KeyPcs
    <2>1. CASE tk' = TtyAt("code", t)
      BY <2>1, FreshTask DEF KeyPcs
    <2>2. CASE tk' # TtyAt("code", t)
      BY <2>2, DecodeStep DEF KeyPcs
    <2> QED  BY <2>1, <2>2
  <1>3. Column(scan, with_E0) \in IF with_E0 THEN {3} ELSE {1, 2}
    BY Zenon DEF Column
  <1>4. Means(p.event, scan, {Column(scan, with_E0)})
    BY <1>3 DEF Means
  <1>5. ModsAfterEvents(p.event - 1) /\ mods' = ModsAfter(scan, with_E0)
    BY DEF DecodedTo, Decode
  <1>6. PICK e \in 1..Len(script) : e = p.event
    OBVIOUS
  <1>7. ModsAfterEvents(e)'
    BY <1>4, <1>5, <1>6, ModsEvent
  <1> QED  BY <1>1, <1>2, <1>6, <1>7 DEF Passed

\* One code more of an event of several.
LEMMA ReadOnKeys ==
    ASSUME TInv, ScriptSound, NEW p, Place(p), p.event \in 1..Len(script), DecodedTo(p),
           script' = script, NEW t, NEW pc, NEW scan, NEW want, ReadOn(t, pc, scan, want)
    PROVE  /\ tk'.pc = pc /\ tk'.want = want
           /\ ModsAfterEvents(p.event - 1)'
           /\ script[p.event].key \notin Modifiers => ModsAfterEvents(p.event)'
  <1>1. tk' = [TtyAt(pc, t) EXCEPT !.scan = scan, !.want = want] /\ mods' = mods
    BY DEF ReadOn
  <1>2. tk'.pc = pc /\ tk'.want = want
    BY <1>1 DEF TtyAt
  <1>3. ModsAfterEvents(p.event - 1)
    BY DEF DecodedTo
  <1>4. ModsAfterEvents(p.event - 1)'
    BY <1>1, <1>3, ModsStay
  <1>5. PICK e \in 1..Len(script) : e = p.event
    OBVIOUS
  <1>6. script[e].key \notin Modifiers => ModsAfterEvents(e)'
    BY <1>1, <1>3, <1>5, ModsIgnored
  <1> QED  BY <1>2, <1>4, <1>5, <1>6

LEMMA OneCodeOn ==
    ASSUME NEW p, Place(p), p.byte < Len(CodesOf(p.event)), NEW q, q = Following(p)
    PROVE  q.event = p.event /\ q.byte = p.byte + 1
  <1>1. p = [event |-> p.event, byte |-> p.byte]
    BY DEF Place
  <1> QED  BY <1>1 DEF Following

LEMMA FirstCode ==
    ASSUME TInv, ScriptSound, NEW p, Place(p), p.event \in 1..Len(script), DecodedTo(p),
           keyboard_read, Byte = CodesOf(p.event)[p.byte], NEW q, q = Following(p)
    PROVE  DecodedTo(q)'
  <1>1. /\ tk.pc = "scan" /\ script' = script /\ nr_current_console \in Consoles
        /\ p.event \in Nat
    BY DEF keyboard_read, TakeByte, TInv, KeyboardSound
  <1>2. p.byte = 1
    BY <1>1 DEF DecodedTo, KeyPcs
  <1>3. CASE IsPlain(p.event)
    <2>1. PICK code : /\ CodesOf(p.event) = <<code>> /\ code \notin {E0, E1}
                      /\ Means(p.event, code, {1, 2})
      BY <1>3 DEF IsPlain
    <2>2. Byte = code /\ p.byte = Len(CodesOf(p.event))
      BY <1>2, <2>1
    <2>3. Decode(nr_current_console, code, FALSE)
      BY <2>1, <2>2 DEF keyboard_read
    <2>4. Passed(p)
      BY <1>1, <2>1, <2>2, <2>3, DecodeKeys
    <2> QED  BY <1>1, <2>4, PassedDecoded
  <1>4. CASE IsAfterE0(p.event) \/ IsPrint(p.event)
    <2>1. CodesOf(p.event)[1] = E0 /\ 1 < Len(CodesOf(p.event))
      <3>1. CASE IsAfterE0(p.event)
        <4>1. PICK code : CodesOf(p.event) = <<E0, code>>
          BY <3>1, Zenon DEF IsAfterE0
        <4>2. CodesOf(p.event)[1] = E0 /\ Len(CodesOf(p.event)) = 2
          BY <4>1, TupleLens
        <4> QED  BY <4>2
      <3>2. CASE IsPrint(p.event)
        <4>1. PICK a, b : CodesOf(p.event) = <<E0, a, E0, b>>
          BY <3>2 DEF IsPrint
        <4>2. CodesOf(p.event)[1] = E0 /\ Len(CodesOf(p.event)) = 4
          BY <4>1, TupleLens
        <4> QED  BY <4>2
      <3> QED  BY <1>4, <3>1, <3>2
    <2>2. q.event = p.event /\ q.byte = 2
      BY <1>2, <2>1, OneCodeOn
    <2>3. ReadOn(nr_current_console, "e0", E0, <<>>)
      BY <1>2, <2>1 DEF keyboard_read, E0, E1
    <2>4. tk'.pc = "e0" /\ ModsAfterEvents(p.event - 1)'
      BY <1>1, <2>3, ReadOnKeys
    <2>5. CodesOf(p.event)' = CodesOf(p.event)
      BY <1>1, PlaceStays
    <2> QED  BY <1>1, <2>1, <2>2, <2>4, <2>5 DEF DecodedTo, KeyPcs
  <1>5. CASE IsPause(p.event)
    <2>1. CodesOf(p.event) = Pause /\ Pause[1] = E1 /\ Len(Pause) = 6
      BY <1>5, TupleLens, Zenon DEF IsPause
    <2>2. q.event = p.event /\ q.byte = 2
      BY <1>2, <2>1, OneCodeOn, SMTT(20)
    <2>3. ReadOn(nr_current_console, "pause", E1, Tail(Pause))
      BY <1>2, <2>1 DEF keyboard_read, E0, E1
    <2>4. tk'.pc = "pause" /\ tk'.want = Tail(Pause) /\ ModsAfterEvents(p.event - 1)'
      BY <1>1, <2>3, ReadOnKeys
    <2>5. CodesOf(p.event)' = CodesOf(p.event)
      BY <1>1, PlaceStays
    <2>6. IsRest(Tail(Pause), Pause, 2)
      BY DEF Pause, IsRest, E0, E1
    <2>7. Pause' = Pause
      BY DEF Pause
    <2> QED  BY <1>1, <2>1, <2>2, <2>4, <2>5, <2>6, <2>7 DEF DecodedTo, KeyPcs
  <1> QED  BY <1>3, <1>4, <1>5, EventShapes

LEMMA SecondCode ==
    ASSUME TInv, ScriptSound, NEW p, Place(p), p.event \in 1..Len(script), DecodedTo(p),
           ReadE0, Byte = CodesOf(p.event)[p.byte], NEW q, q = Following(p)
    PROVE  DecodedTo(q)'
  <1>1. tk.pc = "e0" /\ script' = script /\ tk.k \in Consoles /\ p.event \in Nat
    BY DEF ReadE0, TakeByte, TInv, TaskSound, AtTerminal, KeyPcs
  <1>2. p.byte = 2 /\ CodesOf(p.event)[1] = E0 /\ p.byte <= Len(CodesOf(p.event))
    BY <1>1 DEF DecodedTo, Place
  <1>3. CASE IsAfterE0(p.event)
    <2>1. PICK code : /\ CodesOf(p.event) = <<E0, code>> /\ PrintScreen(code) = <<>>
                      /\ Means(p.event, code, {3})
      BY <1>3 DEF IsAfterE0
    <2>2. Byte = code /\ p.byte = Len(CodesOf(p.event))
      BY <1>2, <2>1
    <2>3. Decode(tk.k, code, TRUE)
      BY <2>1, <2>2 DEF ReadE0
    <2>4. Passed(p)
      BY <1>1, <2>1, <2>2, <2>3, DecodeKeys DEF KeyPcs
    <2> QED  BY <1>1, <2>4, PassedDecoded
  <1>4. CASE IsPrint(p.event)
    <2>1. /\ CodesOf(p.event) \in {<<E0, 42, E0, 55>>, <<E0, 183, E0, 170>>}
          /\ Len(CodesOf(p.event)) = 4
      BY <1>4 DEF IsPrint
    <2>2. q.event = p.event /\ q.byte = 3
      <3>1. p.byte < Len(CodesOf(p.event))
        BY <1>2, <2>1
      <3> QED  BY <1>2, <3>1, OneCodeOn
    <2>3. IsRest(PrintScreen(Byte), CodesOf(p.event), 3) /\ PrintScreen(Byte) # <<>>
      <3>1. ASSUME NEW a, NEW b \in Nat, CodesOf(p.event) = <<E0, a, E0, b>>,
                   PrintScreen(a) = <<E0, b>>
            PROVE  IsRest(PrintScreen(Byte), CodesOf(p.event), 3) /\ PrintScreen(Byte) # <<>>
        <4>1. Byte = a
          BY <1>2, <3>1
        <4>2. PICK codes, want : codes = CodesOf(p.event) /\ want = PrintScreen(Byte)
          OBVIOUS
        <4>3. want \in Seq(Nat) /\ Len(want) = 2 /\ want[1] = E0 /\ want[2] = b
          BY <3>1, <4>1, <4>2 DEF E0
        <4>4. Len(codes) = 4 /\ codes[3] = E0 /\ codes[4] = b
          BY <3>1, <4>2
        <4> QED  BY <4>2, <4>3, <4>4 DEF IsRest
      <3>2. PrintScreen(42) = <<E0, 55>> /\ PrintScreen(183) = <<E0, 170>>
        BY DEF PrintScreen
      <3> QED  BY <2>1, <3>1, <3>2
    <2>4. ReadOn(tk.k, "print", Byte, PrintScreen(Byte))
      BY <2>3 DEF ReadE0
    <2>5. tk'.pc = "print" /\ tk'.want = PrintScreen(Byte) /\ ModsAfterEvents(p.event - 1)'
      BY <1>1, <2>4, ReadOnKeys
    <2>6. CodesOf(p.event)' = CodesOf(p.event)
      BY <1>1, PlaceStays
    <2> QED  BY <1>1, <2>1, <2>2, <2>3, <2>5, <2>6 DEF DecodedTo, KeyPcs
  <1>5. ~IsPlain(p.event) /\ ~IsPause(p.event)
    BY <1>2 DEF IsPlain, IsPause, Pause, E0, E1
  <1> QED  BY <1>3, <1>4, <1>5, EventShapes

LEMMA RestOn ==
    ASSUME NEW want, NEW codes, NEW n \in Nat, Len(codes) \in Nat, IsRest(want, codes, n), want # <<>>
    PROVE  IsRest(Tail(want), codes, n + 1)
  <1>1. /\ want \in Seq(Nat) /\ Len(want) = Len(codes) + 1 - n
        /\ \A i \in 1..Len(want) : want[i] = codes[n - 1 + i]
    BY DEF IsRest
  <1>2. PICK rest : rest = Tail(want)
    OBVIOUS
  <1>3. /\ rest \in Seq(Nat) /\ Len(rest) = Len(want) - 1
        /\ \A i \in 1..Len(rest) : rest[i] = want[i + 1]
    BY <1>1, <1>2
  <1>4. Len(rest) \in Nat /\ Len(want) \in Nat
    BY <1>1, <1>3
  <1>5. ASSUME NEW i \in 1..Len(rest) PROVE rest[i] = codes[n + 1 - 1 + i]
    <2>1. i + 1 \in 1..Len(want)
      BY <1>3, <1>4
    <2>2. n - 1 + (i + 1) = n + 1 - 1 + i
      BY <1>4
    <2> QED  BY <1>1, <1>3, <2>1, <2>2
  <1>6. Len(rest) = Len(codes) + 1 - (n + 1)
    BY <1>1, <1>3
  <1> QED  BY <1>2, <1>3, <1>5, <1>6 DEF IsRest

LEMMA FurtherCode ==
    ASSUME TInv, ScriptSound, NEW p, Place(p), p.event \in 1..Len(script), DecodedTo(p),
           ReadRest, Byte = CodesOf(p.event)[p.byte], NEW q, q = Following(p)
    PROVE  DecodedTo(q)'
  <1>1. /\ tk.pc \in {"pause", "print"} /\ script' = script /\ p.event \in Nat
        /\ p.byte \in Nat \ {0}
    BY DEF ReadRest, TakeByte, Place
  <1>2. PICK codes : codes = CodesOf(p.event)
    OBVIOUS
  <1>3. /\ IsRest(tk.want, codes, p.byte) /\ Len(codes) \in Nat /\ p.byte <= Len(codes)
        /\ 1 < p.byte
    <2>1. CASE tk.pc = "print"
      <3>1. Len(codes) = 4
        BY <1>2, <2>1 DEF DecodedTo
      <3> QED  BY <1>2, <2>1, <3>1 DEF DecodedTo
    <2>2. CASE tk.pc = "pause"
      <3>1. Len(codes) = 6
        BY <1>2, <2>2 DEF DecodedTo, Pause
      <3> QED  BY <1>2, <2>2, <3>1 DEF DecodedTo
    <2> QED  BY <1>1, <2>1, <2>2
  <1>4. /\ tk.want \in Seq(Nat) /\ Len(tk.want) \in Nat \ {0}
        /\ Len(tk.want) = Len(codes) + 1 - p.byte /\ Head(tk.want) = codes[p.byte]
    <2>1. /\ tk.want \in Seq(Nat) /\ Len(tk.want) = Len(codes) + 1 - p.byte
          /\ \A i \in 1..Len(tk.want) : tk.want[i] = codes[p.byte - 1 + i]
      BY <1>3 DEF IsRest
    <2>2. p.byte \in Nat /\ Len(codes) \in Nat /\ p.byte <= Len(codes)
      BY <1>1, <1>3
    <2>3. Len(tk.want) \in Nat \ {0} /\ 1 \in 1..Len(tk.want) /\ p.byte - 1 + 1 = p.byte
      BY <2>1, <2>2
    <2> QED  BY <2>1, <2>3
  <1>5. ReadOn(tk.k, IF Len(tk.want) = 1 THEN "drain" ELSE tk.pc, tk.scan, Tail(tk.want))
    BY <1>2, <1>4 DEF ReadRest
  <1>6. /\ tk'.pc = IF Len(tk.want) = 1 THEN "drain" ELSE tk.pc
        /\ tk'.want = Tail(tk.want)
        /\ ModsAfterEvents(p.event - 1)'
        /\ script[p.event].key \notin Modifiers => ModsAfterEvents(p.event)'
    <2>1. PICK pc : pc = IF Len(tk.want) = 1 THEN "drain" ELSE tk.pc
      OBVIOUS
    <2>2. ReadOn(tk.k, pc, tk.scan, Tail(tk.want))
      BY <1>5, <2>1
    <2> QED  BY <1>1, <2>1, <2>2, ReadOnKeys
  <1>7. CASE Len(tk.want) = 1
    <2>1. p.byte = Len(codes)
      <3>1. p.byte \in Nat /\ Len(codes) \in Nat /\ Len(codes) + 1 - p.byte = 1
        BY <1>1, <1>3, <1>4, <1>7
      <3> QED  BY <3>1
    <2>2. Following(p) = [event |-> p.event + 1, byte |-> 1]
      BY <1>2, <1>3, <2>1 DEF Following
    <2>3. script[p.event].key \notin Modifiers
      <3>1. IsPlain(p.event) \/ IsAfterE0(p.event) \/ IsPrint(p.event) \/ IsPause(p.event)
        BY EventShapes
      <3>2. Len(codes) \in {4, 6}
        BY <1>1, <1>2 DEF DecodedTo, Pause
      <3>3. ~IsPlain(p.event) /\ ~IsAfterE0(p.event)
        <4>1. ASSUME IsPlain(p.event) PROVE Len(codes) = 1
          <5>1. PICK code : codes = <<code>>
            BY <1>2, <4>1, Zenon DEF IsPlain
          <5> QED  BY <5>1, TupleLens, Zenon
        <4>2. ASSUME IsAfterE0(p.event) PROVE Len(codes) = 2
          <5>1. PICK code : codes = <<E0, code>>
            BY <1>2, <4>2, Zenon DEF IsAfterE0
          <5> QED  BY <5>1, TupleLens
        <4>3. Len(codes) # 1 /\ Len(codes) # 2
          BY <3>2, SMTT(20)
        <4> QED  BY <4>1, <4>2, <4>3, Zenon
      <3> QED  BY <3>1, <3>3 DEF IsPrint, IsPause
    <2>4. Passed(p)
      BY <1>6, <1>7, <2>2, <2>3 DEF Passed, KeyPcs
    <2> QED  BY <1>1, <2>4, PassedDecoded
  <1>8. CASE Len(tk.want) # 1
    <2>1. p.byte < Len(codes)
      BY <1>1, <1>3, <1>4, <1>8
    <2>2. q.event = p.event /\ q.byte = p.byte + 1
      BY <1>2, <2>1, OneCodeOn
    <2>3. IsRest(Tail(tk.want), codes, p.byte + 1)
      <3>1. p.byte \in Nat /\ Len(codes) \in Nat
        BY <1>1, <1>3
      <3> QED  BY <1>3, <1>4, <3>1, RestOn
    <2>4. CodesOf(p.event)' = codes
      BY <1>1, <1>2, PlaceStays
    <2>5. Pause' = Pause
      BY DEF Pause
    <2>6. CASE tk.pc = "print"
      <3>1. q.byte \in {3, 4}
        <4>1. Len(codes) = 4 /\ p.byte \in {3, 4}
          BY <1>2, <2>6 DEF DecodedTo
        <4> QED  BY <2>1, <2>2, <4>1
      <3>2. codes \in {<<E0, 42, E0, 55>>, <<E0, 183, E0, 170>>}
        BY <1>2, <2>6 DEF DecodedTo
      <3> QED  BY <1>1, <1>6, <1>8, <2>2, <2>3, <2>4, <2>6, <3>1, <3>2 DEF DecodedTo, KeyPcs
    <2>7. CASE tk.pc = "pause"
      <3>1. q.byte \in 2..6
        <4>1. Len(codes) = 6 /\ p.byte \in 2..6
          BY <1>2, <2>7 DEF DecodedTo, Pause
        <4> QED  BY <2>1, <2>2, <4>1
      <3>2. codes = Pause
        BY <1>2, <2>7 DEF DecodedTo
      <3> QED  BY <1>1, <1>6, <1>8, <2>2, <2>3, <2>4, <2>5, <2>7, <3>1, <3>2 DEF DecodedTo, KeyPcs
    <2> QED  BY <1>1, <2>6, <2>7
  <1> QED  BY <1>7, <1>8

LEMMA KeyboardReadKeys ==
    ASSUME TInv, KInv, keyboard_read \/ ReadE0 \/ ReadRest
    PROVE  KInv'
  <1>1. TakeByte /\ script' = script /\ dropped' = dropped
    BY DEF keyboard_read, ReadE0, ReadRest, TakeByte
  <1>2. ScriptSound /\ ScriptSound'
    BY <1>1 DEF KInv, ScriptSound
  <1>3. kb_in'.buf = kb_in.buf
    <2>1. kb_in = [buf |-> kb_in.buf, head |-> kb_in.head, tail |-> kb_in.tail, count |-> kb_in.count]
      BY DEF TInv, KeyboardSound
    <2> QED  BY <1>1, <2>1 DEF TakeByte, get_byte_from_kbuf
  <1>4. ASSUME NEW at, RingHolds(at), DecodedTo(at[0])
        PROVE  \E next : RingHolds(next)' /\ DecodedTo(next[0])'
    <2>1. /\ Place(at[0]) /\ at[0].event \in 1..Len(script)
          /\ Byte = CodesOf(at[0].event)[at[0].byte]
      BY <1>1, <1>4, TakeRing
    <2>2. PICK next : RingHolds(next)' /\ next[0] = Following(at[0])
      BY <1>1, <1>4, TakeRing
    <2>3. DecodedTo(next[0])'
      BY <1>2, <1>4, <2>1, <2>2, FirstCode, SecondCode, FurtherCode
    <2> QED  BY <2>2, <2>3
  <1>5. Place(typed)'
    BY <1>1, PlaceStays DEF TakeByte, KInv
  <1> QED  BY <1>1, <1>2, <1>3, <1>4, <1>5 DEF KInv

\* The other steps of TTY leave the keyboard alone and are between two keys.
LEMMA OtherTtyKeys ==
    ASSUME TInv, KInv,
           tty_dev_read \/ kb_ack \/ out_char \/ tty_dev_write \/ tty_store \/ tty_resume \/ tty_resumed
             \/ ReceiveInterrupt \/ ClearKeyPressed \/ ReceiveRequest \/ tty_do_write \/ TtyReply
    PROVE  KInv'
  <1>1. UNCHANGED <<kb_in, mods, script, typed, dropped>>
    BY DEF tty_dev_read, kb_ack, out_char, OutCheck, OutRead, OutMove, OutLoop, ScrollCheck, ScrollRead,
           ScrollWrite, tty_dev_write, tty_store, tty_resume, tty_resumed, ReceiveInterrupt,
           ClearKeyPressed, ReceiveRequest, tty_do_write, TtyReply, OutQuiet, kbVars
  <1>2. tk.pc \notin KeyPcs
    BY DEF tty_dev_read, kb_ack, out_char, OutCheck, OutRead, OutMove, OutLoop, ScrollCheck, ScrollRead,
           ScrollWrite, tty_dev_write, tty_store, tty_resume, tty_resumed, ReceiveInterrupt,
           ClearKeyPressed, ReceiveRequest, tty_do_write, TtyReply, KeyPcs
  <1>3. /\ TaskRecord
        /\ tk.pc \in ScrollPcs => tk.ret \notin KeyPcs
        /\ tk.pc = "loop" => tk.then \notin KeyPcs
    BY DEF TInv, TaskSound, Putting, OutPcs, ScrollPcs, KeyPcs
  <1>4. ASSUME NEW c, NEW ch, NEW then PROVE OutChar(c, ch, then).pc = "check"
    BY <1>3 DEF OutChar, TaskRecord
  <1>5. ASSUME NEW pc, NEW k PROVE TtyAt(pc, k).pc = pc
    BY DEF TtyAt
  <1>6. CASE out_char
    <2> SUFFICES tk'.pc \notin KeyPcs
      BY <1>1, <1>2, KeysKept
    <2>1. CASE OutCheck \/ OutRead \/ OutMove \/ ScrollRead
      BY <1>3, <2>1 DEF OutCheck, OutRead, OutMove, ScrollRead, TaskRecord, KeyPcs
    <2>2. CASE OutLoop
      <3>1. tk'.pc = "scrl" \/ tk'.pc = tk.then
        BY <1>3, <2>2 DEF OutLoop, Scrolling, TaskRecord
      <3> QED  BY <1>3, <2>2, <3>1 DEF OutLoop, KeyPcs
    <2>4. CASE ScrollCheck \/ ScrollWrite
      <3>1. tk.pc \in ScrollPcs /\ (tk'.pc = "scrr" \/ tk'.pc = tk.ret)
        BY <1>3, <2>4 DEF ScrollCheck, ScrollWrite, TaskRecord, ScrollPcs
      <3> QED  BY <1>3, <3>1 DEF KeyPcs
    <2> QED  BY <1>6, <2>1, <2>2, <2>4 DEF out_char
  <1>7. CASE tty_dev_read \/ kb_ack \/ tty_resumed \/ ReceiveInterrupt \/ ClearKeyPressed \/ TtyReply
    <2>1. tk'.pc \notin KeyPcs
      BY <1>5, <1>7 DEF tty_dev_read, kb_ack, tty_resumed, ReceiveInterrupt, ClearKeyPressed, TtyReply, KeyPcs
    <2> QED  BY <1>1, <1>2, <2>1, KeysKept
  <1>8. CASE tty_dev_write \/ tty_store \/ tty_resume
    <2>1. tk' = tk \/ tk'.pc \in {"scan", "check", "drain", "sending"}
      <3>1. CASE tty_dev_write
        <4>1. CASE tty[tk.k].inbuf = <<>>
          BY <1>5, <3>1, <4>1 DEF tty_dev_write
        <4>2. CASE tty[tk.k].inbuf # <<>>
          <5>1. PICK ch : ch = Head(tty[tk.k].inbuf)
            OBVIOUS
          <5>2. \/ tk' = OutChar(tk.k, ch, "store") \/ tk' = OutChar(tk.k, "LF", "resume")
                \/ tk' = tk
            BY <3>1, <4>2, <5>1, Zenon DEF tty_dev_write
          <5> QED  BY <1>4, <5>2
        <4> QED  BY <4>1, <4>2
      <3>2. CASE tty_store
        <4>1. tk' = OutChar(tk.k, "LF", "resume") \/ tk' = TtyAt("drain", tk.k)
          BY <3>2, Zenon DEF tty_store
        <4> QED  BY <1>4, <1>5, <4>1
      <3>3. CASE tty_resume
        BY <1>5, <3>3 DEF tty_resume
      <3> QED  BY <1>8, <3>1, <3>2, <3>3
    <2> QED  BY <1>1, <1>2, <2>1, KeysKept DEF KeyPcs
  <1>9. CASE ReceiveRequest
    <2>1. tk'.pc \in {"write", "reply"}
      BY <1>9 DEF ReceiveRequest, TtyAt
    <2> QED  BY <1>1, <1>2, <2>1, KeysKept DEF KeyPcs
  <1>10. CASE tty_do_write
    <2>1. tk'.pc \in {"check", "reply"}
      <3>1. CASE tk.out = <<>>
        BY <1>10, <3>1 DEF tty_do_write, TtyAt
      <3>2. CASE tk.out # <<>>
        <4>1. tk' = [OutChar(tk.c, Head(tk.out), "write") EXCEPT !.out = Tail(@)]
          BY <1>10, <3>2 DEF tty_do_write
        <4> QED  BY <1>3, <4>1 DEF OutChar, TaskRecord
      <3> QED  BY <3>1, <3>2
    <2> QED  BY <1>1, <1>2, <2>1, KeysKept DEF KeyPcs
  <1> QED  BY <1>6, <1>7, <1>8, <1>9, <1>10

LEMMA OthersKeys ==
    ASSUME TInv, KInv, (\E p \in Proc : Call(p)) \/ task_fs \/ ClockTick \/ Printx \/ UNCHANGED vars
    PROVE  KInv'
  <1>1. UNCHANGED <<kb_in, mods, script, typed, dropped>>
    BY DEF Call, task_fs, FsReceive, do_rdwt, FsAnswer, ClockTick, Printx, vars, kbVars
  <1>2. CASE FsReceive
    <2>1. tk' = tk \/ (tk' = [tk EXCEPT !.pc = "resumed"] /\ fsq # <<>> /\ Head(fsq) = "TTY")
      BY <1>2 DEF FsReceive
    <2>2. CASE tk' = tk
      BY <1>1, <2>2, KeysKept
    <2>3. CASE tk' = [tk EXCEPT !.pc = "resumed"] /\ fsq # <<>> /\ Head(fsq) = "TTY"
      <3>1. fsq \in Seq(Proc \cup {"TTY"}) /\ TaskRecord
        BY DEF TInv, FsSound, TaskSound
      <3>2. 1 \in 1..Len(fsq) /\ fsq[1] = "TTY"
        BY <2>3, <3>1
      <3>3. tk.pc = "sending"
        BY <3>2 DEF TInv, FsSound
      <3>4. tk'.pc = "resumed"
        BY <2>3, <3>1 DEF TaskRecord
      <3> QED  BY <1>1, <3>3, <3>4, KeysKept DEF KeyPcs
    <2> QED  BY <2>1, <2>2, <2>3
  <1>3. CASE ~FsReceive
    <2>1. tk' = tk
      BY <1>3 DEF Call, task_fs, do_rdwt, FsAnswer, ClockTick, Printx, vars, taskVars
    <2> QED  BY <1>1, <2>1, KeysKept
  <1> QED  BY <1>2, <1>3

LEMMA InitKeys == Init => KInv
  <1> SUFFICES ASSUME Init PROVE KInv
    OBVIOUS
  <1>1. PICK s \in Scenarios : init_keyboard(s.keys)
    BY DEF Init
  <1>2. /\ s.keys \in Seq([key : DOMAIN ScanCodes, make : BOOLEAN])
        /\ \A i \in 1..Len(s.keys) : s.keys[i].make \/ ScanCodes[s.keys[i].key].break # <<>>
    BY TtyAssumption
  <1>3. /\ script = s.keys /\ typed = [event |-> 1, byte |-> 1]
        /\ kb_in = [buf |-> [i \in 0..(KB_IN_BYTES - 1) |-> 0], head |-> 0, tail |-> 0, count |-> 0]
        /\ mods = [m \in Modifiers \cup Locks |-> m = "NUM_LOCK"]
    BY <1>1 DEF init_keyboard
  <1>4. ScriptSound
    BY <1>2, <1>3 DEF ScriptSound
  <1>5. tk.pc = "scan"
    BY DEF Init, TtyAt
  <1>6. PICK at : at = [i \in 0..0 |-> typed]
    OBVIOUS
  <1>7. at[0] = typed /\ at[0].event = 1 /\ at[0].byte = 1
    BY <1>3, <1>6
  <1>8. Place(typed)
    <2>1. Len(script) \in Nat
      BY <1>4 DEF ScriptSound
    <2>2. 1 <= Len(script) => Len(CodesOf(1)) \in Nat \ {0}
      BY <1>4, <2>1, CodesNotEmpty
    <2> QED  BY <1>3, <2>1, <2>2 DEF Place
  <1>9. RingHolds(at)
    <2>1. kb_in.count = 0 /\ kb_in.head = 0 /\ kb_in.tail = 0
      BY <1>3
    <2>2. Slot(0, 0) = 0
      BY KeyboardAssumption DEF Slot
    <2> QED  BY <1>7, <1>8, <2>1, <2>2 DEF RingHolds
  <1>10. \A m \in Modifiers : ~mods[m] /\ mods[m] \in BOOLEAN
    BY <1>3 DEF Modifiers
  <1>11. ASSUME NEW m PROVE ~DownAfter(m, 0) /\ DownAfter(m, 0) \in BOOLEAN
    <2>1. {i \in 1..0 : script[i].key = m} = {}
      OBVIOUS
    <2> QED  BY <2>1, Zenon DEF DownAfter
  <1>12. \A m, n \in Modifiers : mods[m] = DownAfter(n, 0)
    BY <1>10, <1>11, Zenon
  <1>13. ModsAfterEvents(0)
    BY <1>10, <1>12 DEF ModsAfterEvents, Modifiers
  <1>14. DecodedTo(at[0])
    BY <1>5, <1>7, <1>13 DEF DecodedTo, KeyPcs
  <1>15. kb_in.buf = [i \in 0..(KB_IN_BYTES - 1) |-> kb_in.buf[i]]
    BY <1>3
  <1> QED  BY <1>4, <1>8, <1>9, <1>14, <1>15 DEF KInv

LEMMA NextKeys == TInv /\ KInv /\ [Next]_vars => KInv'
  <1> SUFFICES ASSUME TInv, KInv, [Next]_vars PROVE KInv'
    OBVIOUS
  <1>1. CASE task_tty
    BY <1>1, KeyboardReadKeys, SetLedsKeys, OtherTtyKeys DEF task_tty
  <1>2. CASE KeyInterrupt
    BY <1>2, KeyInterruptKeys
  <1> QED  BY <1>1, <1>2, OthersKeys DEF Next

(* KInv, the inductive invariant of the keyboard: the ring holds the codes      *)
(* between the one that TTY reads next and the one that is typed next, and TTY  *)
(* knows the modifiers of the events before.                                    *)
THEOREM KeysInvariant == Spec => []KInv
  BY InitKeys, NextKeys, TtyInvariant, PTL DEF Spec

(* ModifiersMatchKeys: however the interrupts of the keyboard and the reads of  *)
(* TTY interleave, as long as no code is lost the modifiers are the keys that   *)
(* are down whenever TTY has caught up (keyboard.c:42-56, 88-319).              *)
THEOREM ModifiersAreRight == Spec => []ModifiersMatchKeys
  <1>1. TInv /\ KInv => ModifiersMatchKeys
    <2> SUFFICES ASSUME TInv, KInv, DecoderIdle
                 PROVE  /\ \A m \in {"SHIFT_L", "SHIFT_R", "CTRL_L", "CTRL_R"} : mods[m] = Down(m)
                        /\ (\A i \in 1..Len(script) : script[i].key # "ALT_R")
                              => mods["ALT_L"] = Down("ALT_L")
                        /\ (\A i \in 1..Len(script) : script[i].key # "ALT_L")
                              => (mods["ALT_L"] \/ mods["ALT_R"]) = Down("ALT_R")
      BY Zenon DEF ModifiersMatchKeys
    <2>1. kb_in.count = 0 /\ ~dropped
      BY DEF DecoderIdle
    <2>2. PICK at : RingHolds(at) /\ DecodedTo(at[0])
      BY <2>1 DEF KInv
    <2>3. at[0] = typed
      BY <2>1, <2>2 DEF RingHolds
    <2>4. ModsAfterEvents(typed.event - 1)
      BY <2>2, <2>3 DEF DecodedTo
    <2>5. ASSUME NEW m PROVE Down(m) = DownAfter(m, typed.event - 1)
      BY DEF Down, DownAfter
    <2>6. mods["ALT_L"] \in BOOLEAN
      BY DEF TInv, KeyboardSound, Modifiers
    <2>7. ~mods["ALT_R"]
      BY <2>4 DEF ModsAfterEvents
    <2>8. (mods["ALT_L"] \/ mods["ALT_R"]) = mods["ALT_L"]
      BY <2>6, <2>7, Zenon
    <2> QED  BY <2>4, <2>5, <2>8 DEF ModsAfterEvents, Uses
  <1> QED  BY <1>1, TtyInvariant, KeysInvariant, PTL
=============================================================================
