------------------------------- MODULE Console -------------------------------
(***************************************************************************)
(* The consoles (kernel/console.c): each has a part of the video memory, a *)
(* cursor and the place the screen starts.  TTY puts characters out as a   *)
(* task that can be interrupted between any two instructions; printx() of  *)
(* any process does the same in the kernel, as one step.                   *)
(* The CRTC registers (set_cursor(), flush()) are output and left out.     *)
(***************************************************************************)
EXTENDS Integers

CONSTANTS NR_CONSOLES,
          V_MEM_LIMIT,   \* cells of a console: v_mem_limit
          SCR_WIDTH, SCR_SIZE

ASSUME ConsoleAssumption ==
    /\ {NR_CONSOLES, V_MEM_LIMIT, SCR_WIDTH, SCR_SIZE} \subseteq Nat \ {0}
    /\ 2 * SCR_WIDTH <= SCR_SIZE /\ SCR_SIZE < V_MEM_LIMIT
    \* (0x8000 / 2 / 3 - 2000) % 80 = 21
    /\ (V_MEM_LIMIT - SCR_SIZE) % SCR_WIDTH # 0

VARIABLES cursor,        \* console -> cursor
          start,         \* console -> current_start_addr
          vmem,          \* cell -> the console that wrote it last
          nr_current_console

conVars == <<cursor, start, vmem, nr_current_console>>

Consoles == 0..(NR_CONSOLES - 1)
Orig(c) == c * V_MEM_LIMIT
\* The cells out_char() can write.  The one before the first console and those
\* after the last are no console's memory.
Cells == -1..(NR_CONSOLES * V_MEM_LIMIT + SCR_WIDTH)
Owner(cell) == cell \div V_MEM_LIMIT

\* init_screen(), at the end of the start-up messages on console 0.
init_screen(used) ==
    /\ cursor = [c \in Consoles |-> IF c = 0 THEN used ELSE Orig(c) + SCR_WIDTH]
    /\ start = [c \in Consoles |-> Orig(c)]
    /\ vmem = [cell \in Cells |-> Owner(cell)]
    /\ nr_current_console = 0

-----------------------------------------------------------------------------
(* out_char(), in parts: the check, the cell, the cursor, the scrolling. *)

\* Mutant: a line feed is taken however near the end the cursor is.
HasRoom_AnyLine(c, ch) ==
    CASE ch = "LF" -> cursor[c] < Orig(c) + V_MEM_LIMIT
      [] ch = "BS" -> cursor[c] > Orig(c)
      [] OTHER     -> cursor[c] < Orig(c) + V_MEM_LIMIT - 1

HasRoom(c, ch) ==
    CASE ch = "LF" -> cursor[c] < Orig(c) + V_MEM_LIMIT - SCR_WIDTH
      [] ch = "BS" -> cursor[c] > Orig(c)
      [] OTHER     -> cursor[c] < Orig(c) + V_MEM_LIMIT - 1

\* The cursor after ch, when it was at `at' when it was read.
Moved(c, ch, at) ==
    CASE ch = "LF" -> Orig(c) + SCR_WIDTH * (((at - Orig(c)) \div SCR_WIDTH) + 1)
      [] ch = "BS" -> at - 1
      [] OTHER     -> at + 1

\* The cells ch changes, when p_vmem was computed with the cursor at `at'.
Touched(ch, at) ==
    CASE ch = "LF" -> {}
      [] ch = "BS" -> {at - 1}
      [] OTHER     -> {at}

Painted(c, cells) == [cell \in Cells |-> IF cell \in cells THEN c ELSE vmem[cell]]

\* scroll_screen(): one line, if there is one in the console.
CanScroll(c, st, direction) ==
    IF direction = "SCR_UP" THEN st > Orig(c) ELSE st + SCR_SIZE < Orig(c) + V_MEM_LIMIT

Scrolled(st, direction) == IF direction = "SCR_UP" THEN st - SCR_WIDTH ELSE st + SCR_WIDTH

\* The cursor is behind the screen: the condition of the loop that scrolls.
OffScreen(cur, st) == cur >= st + SCR_SIZE

\* The loop at the end of out_char(): scroll until the cursor is on the screen,
\* or there is no line left to scroll by.
ScrolledTo(c, cur) ==
    LET At(lines) == start[c] + lines * SCR_WIDTH
        Goes(lines) == OffScreen(cur, At(lines)) /\ CanScroll(c, At(lines), "SCR_DN")
    IN  At(CHOOSE lines \in 0..V_MEM_LIMIT :
             ~Goes(lines) /\ \A before \in 0..(lines - 1) : Goes(before))

\* sys_printx() of a character for a process on console c: no task runs.
sys_printx(c, ch) ==
    LET cur == IF HasRoom(c, ch) THEN Moved(c, ch, cursor[c]) ELSE cursor[c]
    IN  /\ cursor' = [cursor EXCEPT ![c] = cur]
        /\ vmem' = IF HasRoom(c, ch) THEN Painted(c, Touched(ch, cursor[c])) ELSE vmem
        /\ start' = [start EXCEPT ![c] = ScrolledTo(c, cur)]
        /\ UNCHANGED nr_current_console

\* Mutant: the number of consoles is taken for a console.
Selected_OneMore(nr) == IF nr \in 0..NR_CONSOLES THEN nr ELSE nr_current_console

\* select_console(): a number that is no console is ignored.
Selected(nr) == IF nr \in Consoles THEN nr ELSE nr_current_console

-----------------------------------------------------------------------------
(* Properties. *)

\* out_char() of TTY reads the cursor up to four times while printx() may move
\* it in between (console.c:57-87).  The cursor never leaves its console by as
\* much as a line: it passes the end when a line feed found room for one, and
\* printx() took that room.  The screen starts inside the console, on a line of
\* it.  A console writes no other cells than its own, except the one before its
\* first and those of that line behind its end, which backspaces can blank.
ConsoleSound ==
    /\ \A c \in Consoles :
         /\ cursor[c] \in Orig(c) .. Orig(c) + V_MEM_LIMIT + SCR_WIDTH - 1
         /\ start[c] \in Orig(c) .. Orig(c) + V_MEM_LIMIT - 1
         /\ (start[c] - Orig(c)) % SCR_WIDTH = 0
    /\ \A cell \in Cells :
         LET c == vmem[cell]
         IN  cell \in Orig(c) - 1 .. Orig(c) + V_MEM_LIMIT + SCR_WIDTH - 2
=============================================================================
