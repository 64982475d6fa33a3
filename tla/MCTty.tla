------------------------------- MODULE MCTty -------------------------------
(* Two terminals with small consoles, two processes and a few keys of the US *)
(* keyboard, with the scan codes of keymap.h.                                *)
EXTENDS Tty, TLC

MCkeymap ==
    14 :> <<"BACKSPACE", "BACKSPACE", "NUL">>
    @@ 28 :> <<"ENTER", "ENTER", "PAD_ENTER">>
    @@ 29 :> <<"CTRL_L", "CTRL_L", "CTRL_R">>
    @@ 30 :> <<"a", "A", "NUL">>
    @@ 42 :> <<"SHIFT_L", "SHIFT_L", "NUL">>
    @@ 54 :> <<"SHIFT_R", "SHIFT_R", "NUL">>
    @@ 55 :> <<"*", "*", "NUL">>
    @@ 56 :> <<"ALT_L", "ALT_L", "ALT_R">>
    @@ 58 :> <<"CAPS_LOCK", "CAPS_LOCK", "NUL">>
    @@ 60 :> <<"F2", "F2", "NUL">>
    @@ 61 :> <<"F3", "F3", "NUL">>
    @@ 69 :> <<"NUM_LOCK", "NUM_LOCK", "NUL">>
    @@ 72 :> <<"PAD_8", "8", "UP">>
    @@ 80 :> <<"PAD_2", "2", "DOWN">>

MCScanCodes ==
    [BACKSPACE |-> Plain(14), ENTER |-> Plain(28), CTRL_L |-> Plain(29), A |-> Plain(30),
     SHIFT_L |-> Plain(42), ALT_L |-> Plain(56), CAPS_LOCK |-> Plain(58), F2 |-> Plain(60),
     F3 |-> Plain(61),
     NUM_LOCK |-> Plain(69), PAD_8 |-> Plain(72),
     CTRL_R |-> After_E0(29), ALT_R |-> After_E0(56), UP |-> After_E0(72),
     DOWN |-> After_E0(80), PAD_ENTER |-> After_E0(28),
     KB_ACK |-> Plain(122),
     PRINTSCREEN |-> [make |-> <<224, 42, 224, 55>>, break |-> <<224, 183, 224, 170>>],
     PAUSE |-> [make |-> <<225, 29, 69, 225, 157, 197>>, break |-> <<>>]]

Press(k) == [key |-> k, make |-> TRUE]
Release(k) == [key |-> k, make |-> FALSE]
MCFKeys == "F2" :> 1 @@ "F3" :> 2


Scenario(keys, pcalls, qcalls, out) ==
    [keys |-> keys, calls |-> [p |-> pcalls, q |-> qcalls], prints |-> out]
Request(type, t, n, bytes) == [type |-> type, t |-> t, n |-> n, bytes |-> bytes, st |-> "sending"]
Read(t, n) == Request("READ", t, n, <<>>)
Write(t, bytes) == Request("WRITE", t, Len(bytes), bytes)
Open(t) == Request("OPEN", t, 0, <<>>)
Put(c, ch) == [c |-> c, ch |-> ch]

MCScenarios ==
    {\* a line with corrections, while another process prints at the console's end
     Scenario(<<Press("A"), Press("BACKSPACE"), Press("BACKSPACE"), Press("A"), Press("ENTER")>>,
              <<Read(0, 2)>>, <<>>, <<Put(0, "a"), Put(0, "LF")>>),
     \* two readers of one terminal; a full buffer ends the first read
     Scenario(<<Press("SHIFT_L"), Press("A"), Release("SHIFT_L"), Press("PAD_ENTER")>>,
              <<Read(0, 1)>>, <<Open(0), Read(0, 2)>>, <<>>),
     \* a read is completed while FS takes other calls
     Scenario(<<Press("A"), Press("ENTER")>>, <<Read(0, 1), Read(0, 2)>>, <<Write(1, <<"a">>)>>, <<>>),
     \* the two Ctrl keys, Caps Lock, and a read of no bytes
     Scenario(<<Press("CTRL_R"), Press("CTRL_L"), Release("CTRL_R"), Press("CAPS_LOCK"), Press("A")>>,
              <<Read(0, 0)>>, <<Read(0, 2)>>, <<>>),
     \* the console is changed between two keys
     Scenario(<<Press("ALT_L"), Press("F2"), Release("ALT_L"), Press("A"), Press("ENTER")>>,
              <<Read(0, 1)>>, <<Read(1, 2)>>, <<>>),
     \* keys of several codes, whole and cut short by a full ring
     Scenario(<<Press("PRINTSCREEN"), Release("PRINTSCREEN"), Press("ALT_R"), Press("F3"),
                Release("ALT_R")>>,
              <<Read(0, 1)>>, <<>>, <<>>),
     Scenario(<<Press("PAUSE"), Press("NUM_LOCK"), Press("PAD_8")>>, <<Open(1)>>, <<>>, <<>>),
     \* Shift and a cursor key scroll while lines are printed
     Scenario(<<Press("SHIFT_L"), Press("UP"), Press("DOWN"), Press("PAD_8")>>,
              <<Write(0, <<"a">>)>>, <<>>, <<Put(0, "a"), Put(0, "a")>>),
     \* a process writes backspaces at the beginning of the second console
     Scenario(<<>>, <<Write(1, <<"BS", "BS", "BS", "a">>)>>, <<>>, <<Put(1, "a"), Put(1, "LF")>>),
     \* a line feed is printed while TTY puts one out on the last line but one
     Scenario(<<>>, <<Write(1, <<"a", "a", "LF", "BS">>)>>, <<>>, <<Put(1, "LF"), Put(1, "a")>>)}
=============================================================================
