------------------------------ MODULE Keyboard ------------------------------
(***************************************************************************)
(* The keyboard (kernel/keyboard.c): the interrupt handler that puts scan  *)
(* codes into a ring, the reader that takes them out with interrupts off,  *)
(* and the decoding of a key from the codes it consists of and the state   *)
(* of the modifier keys.  Scan codes are the numbers the keyboard sends.   *)
(* The keyboard itself is external: it sends the keys of script, and an    *)
(* ACK for every command of set_leds() before the next key.                *)
(***************************************************************************)
EXTENDS Integers, Sequences

CONSTANTS KB_IN_BYTES,   \* size of the ring
          keymap,        \* row -> what it means plain, shifted, after E0
          Letters,       \* plain keys Caps Lock applies to: 'a' to 'z'
          ScanCodes      \* key -> [make, break]: the codes it sends

ASSUME KeyboardAssumption == KB_IN_BYTES \in Nat \ {0}

VARIABLES kb_in,         \* the ring
          key_pressed,   \* set by the handler, cleared by TTY
          mods,          \* shift_l ... scroll_lock
          script, typed, \* the keyboard: a sequence of [key, make], what is sent of it
          dropped        \* history: a code found the ring full

kbVars == <<kb_in, key_pressed, mods, script, typed, dropped>>

Modifiers == {"SHIFT_L", "SHIFT_R", "CTRL_L", "CTRL_R", "ALT_L", "ALT_R"}
Locks == {"CAPS_LOCK", "NUM_LOCK", "SCROLL_LOCK"}

init_keyboard(keys) ==
    /\ kb_in = [buf |-> [i \in 0..(KB_IN_BYTES - 1) |-> 0], head |-> 0, tail |-> 0, count |-> 0]
    /\ key_pressed = FALSE
    /\ mods = [m \in Modifiers \cup Locks |-> m = "NUM_LOCK"]
    /\ script = keys
    /\ typed = [event |-> 1, byte |-> 1]
    /\ dropped = FALSE

-----------------------------------------------------------------------------
(* The ring. *)

Wrap(i) == IF i + 1 = KB_IN_BYTES THEN 0 ELSE i + 1

\* The codes of an event of the script, and of the one being typed.
CodesOf(e) == IF script[e].make THEN ScanCodes[script[e].key].make
              ELSE ScanCodes[script[e].key].break
EventCodes == CodesOf(typed.event)

\* One interrupt: the next code goes into the ring, or is lost when it is full.
keyboard_handler ==
    /\ typed.event <= Len(script)
    /\ IF kb_in.count < KB_IN_BYTES
       THEN /\ kb_in' = [kb_in EXCEPT !.buf[kb_in.head] = EventCodes[typed.byte],
                                      !.head = Wrap(@), !.count = @ + 1]
            /\ UNCHANGED dropped
       ELSE /\ dropped' = TRUE
            /\ UNCHANGED kb_in
    /\ typed' = IF typed.byte < Len(EventCodes) THEN [typed EXCEPT !.byte = @ + 1]
                ELSE [event |-> typed.event + 1, byte |-> 1]
    /\ key_pressed' = TRUE
    /\ UNCHANGED <<mods, script>>

\* Mutant: p_tail does not wrap with the ring.
get_byte_from_kbuf_Stuck ==
    /\ kb_in.count > 0
    /\ kb_in' = [kb_in EXCEPT !.tail = IF @ + 1 = KB_IN_BYTES THEN @ ELSE @ + 1,
                              !.count = @ - 1]

\* get_byte_from_kbuf(): waits for a code; takes it with interrupts off.
get_byte_from_kbuf ==
    /\ kb_in.count > 0
    /\ kb_in' = [kb_in EXCEPT !.tail = Wrap(@), !.count = @ - 1]

Byte == kb_in.buf[kb_in.tail]

-----------------------------------------------------------------------------
(* The lights.  A command makes the keyboard send KB_ACK, which raises an    *)
(* interrupt like every code: keyboard_handler() puts it into the ring, where *)
(* it looks like the release of a key that does not exist.                  *)

KB_ACK == 250
Ack == [key |-> "KB_ACK", make |-> FALSE]

\* What is sent once a command was given: the ACK comes before the next key.
Acked ==
    LET n == IF typed.byte = 1 THEN typed.event ELSE typed.event + 1
    IN  [i \in 1..(Len(script) + 1) |->
           IF i < n THEN script[i] ELSE IF i = n THEN Ack ELSE script[i - 1]]

\* What KB_DATA holds, for the handler and for kb_ack(): the code that was sent
\* last.  set_leds() in init_keyboard() has left an ACK there.
Port == IF typed.byte > 1 THEN EventCodes[typed.byte - 1]
        ELSE IF typed.event = 1 THEN KB_ACK
        ELSE CodesOf(typed.event - 1)[Len(CodesOf(typed.event - 1))]

-----------------------------------------------------------------------------
(* Decoding. *)

E0 == 224
E1 == 225
Pause == <<E1, 29, 69, E1, 157, 197>>
\* After E0: the codes that must follow for Print Screen, made and released.
PrintScreen(first) == IF first = 42 THEN <<E0, 55>>
                      ELSE IF first = 183 THEN <<E0, 170>> ELSE <<>>

\* What keymap has in a row and column; 0 where the table is empty.
KeyAt(row, column) == IF row \in DOMAIN keymap THEN keymap[row][column] ELSE "NUL"

\* The codes of a key: those of one row, or of one row after E0.
Plain(row) == [make |-> <<row>>, break |-> <<row + 128>>]
After_E0(row) == [make |-> <<E0, row>>, break |-> <<E0, row + 128>>]

\* A key of the keyboard and what keymap has for it: a modifier is itself.
SameModifier(k, l) == k \in Modifiers \/ l \in Modifiers => k = l

\* The keyboard (external) sends scan code set 1, and keymap (keymap.h:17-170)
\* has the modifier keys, plain and shifted, in the rows they send.
ASSUME ScanAssumption ==
    \A k \in DOMAIN ScanCodes :
      \/ /\ k \notin Modifiers
         /\ \/ ScanCodes[k] = [make |-> Pause, break |-> <<>>]
            \/ ScanCodes[k] = [make |-> <<E0, 42, E0, 55>>, break |-> <<E0, 183, E0, 170>>]
      \/ \E row \in 1..127 :
           \/ /\ ScanCodes[k] = Plain(row) /\ {row, row + 128} \cap {E0, E1} = {}
              /\ \A c \in {1, 2} : SameModifier(KeyAt(row, c), k)
           \/ /\ ScanCodes[k] = After_E0(row)
              /\ PrintScreen(row) = <<>> /\ PrintScreen(row + 128) = <<>>
              /\ SameModifier(KeyAt(row, 3), k)

ASSUME AckAssumption == "KB_ACK" \in DOMAIN ScanCodes /\ ScanCodes["KB_ACK"].break = <<KB_ACK>>

Keyrow(scan) == scan % 128
Make(scan) == scan < 128

\* The column of keymap a code is looked up in, with the modifiers as they are.
Column(scan, with_E0) ==
    LET shifted == mods["SHIFT_L"] \/ mods["SHIFT_R"]
        caps == IF mods["CAPS_LOCK"] /\ KeyAt(Keyrow(scan), 1) \in Letters
                THEN ~shifted ELSE shifted
    IN  IF with_E0 THEN 3 ELSE IF caps THEN 2 ELSE 1

Key(scan, with_E0) == KeyAt(Keyrow(scan), Column(scan, with_E0))

\* The modifiers after a code.  ALT_R is entered as ALT_L.
ModsAfter(scan, with_E0) ==
    LET key == IF Key(scan, with_E0) = "ALT_R" THEN "ALT_L" ELSE Key(scan, with_E0)
    IN  [m \in DOMAIN mods |->
           CASE m \in Modifiers /\ key = m -> Make(scan)
             [] m \in Locks /\ key = m /\ Make(scan) -> ~mods[m]
             [] OTHER -> mods[m]]

PadSigns == [PAD_SLASH |-> "/", PAD_STAR |-> "*", PAD_MINUS |-> "-", PAD_PLUS |-> "+",
             PAD_ENTER |-> "ENTER"]
PadDigits == [PAD_0 |-> "0", PAD_1 |-> "1", PAD_2 |-> "2", PAD_3 |-> "3", PAD_4 |-> "4",
              PAD_5 |-> "5", PAD_6 |-> "6", PAD_7 |-> "7", PAD_8 |-> "8", PAD_9 |-> "9",
              PAD_DOT |-> "."]
PadCursor == [PAD_0 |-> "INSERT", PAD_1 |-> "END", PAD_2 |-> "DOWN", PAD_3 |-> "PAGEDOWN",
              PAD_4 |-> "LEFT", PAD_5 |-> "PAD_5", PAD_6 |-> "RIGHT", PAD_7 |-> "HOME",
              PAD_8 |-> "UP", PAD_9 |-> "PAGEUP", PAD_DOT |-> "DELETE"]

\* A key of the number pad means a sign, or a digit or a movement.
PadKey(key, num_lock) ==
    IF key \in DOMAIN PadSigns THEN PadSigns[key]
    ELSE IF key \notin DOMAIN PadDigits THEN key
    ELSE IF num_lock THEN PadDigits[key] ELSE PadCursor[key]
=============================================================================
