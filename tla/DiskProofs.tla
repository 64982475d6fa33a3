----------------------------- MODULE DiskProofs -----------------------------
(***************************************************************************)
(* Proofs about ReadWrite and Hd: the interrupts of the disk driver, the   *)
(* positions of do_rdwt() and the bytes it moves, for any drive, partition *)
(* tables and files.                                                       *)
(***************************************************************************)
EXTENDS ReadWrite, NaturalsInduction, WellFoundedInduction, TLAPS

CtlRecord == ctl = [op |-> ctl.op, lba |-> ctl.lba, n |-> ctl.n, drq |-> ctl.drq, buf |-> ctl.buf]
HdRecord ==
    hd = [pc |-> hd.pc, cmd |-> hd.cmd, then |-> hd.then, la |-> hd.la, left |-> hd.left,
          todo |-> hd.todo, sub |-> hd.sub, s |-> hd.s]
CmdRecord ==
    hd.cmd = [op |-> hd.cmd.op, lba |-> hd.cmd.lba, n |-> hd.cmd.n, drq |-> hd.cmd.drq,
              buf |-> hd.cmd.buf]

\* The drive has nothing to do, and no interrupt is pending.
Quiet == ctl.op = "none" /\ ~has_int_msg

TablePcs == {"ident", "mbr", "ebr"}

\* Sectors are left to move, of a request of at most a buffer.
Moving == hd.left \in 1..FSBUF_SECTS

\* The drive has still as many sectors to move as the task at most waits for.
Awaited(op) == ctl.op = op /\ ctl.n \in 1..hd.left

\* A command that is ready to be given to the drive.
CmdSound ==
    /\ Quiet /\ ~hd.cmd.drq /\ hd.cmd.buf = <<>>
    /\ \/ hd.then \in TablePcs /\ hd.cmd.op \in {"read", "identify"} /\ hd.cmd.n = 1
       \/ /\ \/ hd.then = "read" /\ hd.cmd.op = "read"
             \/ hd.then = "drq" /\ hd.cmd.op = "write"
          /\ Moving /\ hd.cmd.n = hd.left % COUNT

\* A sector of a table or of a file is waited for: it is there when the
\* interrupt is.  A drive that was asked for fewer sectors than the request
\* has is idle, and the task waits for ever.
ReadSound ==
    /\ hd.then = "read" /\ Moving
    /\ Quiet \/ (Awaited("read") /\ has_int_msg = ctl.drq)

\* The drive has no sector that is not written yet.
DrqSound ==
    /\ hd.then = "drq" /\ Moving
    /\ ~has_int_msg
    /\ ctl.op = "none" \/ (Awaited("write") /\ ctl.buf = <<>>)

\* The drive has one: it is being written, or its interrupt is pending.
WintSound ==
    /\ hd.then = "drq" /\ Moving
    /\ \/ Awaited("write") /\ ~ctl.drq /\ ctl.buf # <<>> /\ ~has_int_msg
       \/ ctl.op = "none" /\ has_int_msg
       \/ Awaited("write") /\ ctl.n < hd.left /\ ctl.drq /\ ctl.buf = <<>> /\ has_int_msg

DriverSound ==
    /\ CtlRecord /\ HdRecord /\ CmdRecord
    /\ ctl.drq \in BOOLEAN /\ has_int_msg \in BOOLEAN
    /\ ctl.op = "none" => ~ctl.drq
    /\ hd.left \in 0..FSBUF_SECTS
    /\ \/ hd.pc \in {"recv", "reply"} /\ Quiet
       \/ hd.pc = "cmd" /\ CmdSound
       \/ /\ hd.pc \in TablePcs
          /\ ctl.op \in {"read", "identify"} /\ ctl.n = 1 /\ has_int_msg = ctl.drq
       \/ hd.pc = "read" /\ ReadSound
       \/ hd.pc = "drq" /\ DrqSound
       \/ hd.pc = "wint" /\ WintSound

\* A transfer that FS asks for has a sector, and fits into fsbuf.
ChannelSound ==
    /\ chan = [st |-> chan.st, m |-> chan.m, geo |-> chan.geo]
    /\ (chan.st = "request" /\ chan.m.type \notin {"DEV_OPEN", "DEV_IOCTL"}) =>
         chan.m.cnt \in 1..FSBUF_SECTS

RwRecord == rw = [type |-> rw.type, f |-> rw.f, pos |-> rw.pos, len |-> rw.len, off |-> rw.off,
                  i |-> rw.i, max |-> rw.max, chunk |-> rw.chunk, bytes_rw |-> rw.bytes_rw,
                  left |-> rw.left]

\* The local variables of do_rdwt() while it is in its loop.
LoopSound(r) ==
    /\ r.f \in Files /\ r.off \in 0..(SECTOR_SIZE - 1)
    /\ r.i \in Int /\ r.max \in Int
    /\ r.chunk \in Int /\ r.chunk <= FSBUF_SECTS
    /\ r.left \in Nat /\ r.len \in Nat /\ r.bytes_rw \in Nat
    /\ r.bytes_rw + r.left = r.len

FilesSound ==
    /\ RwRecord
    /\ i_size \in [Files -> Nat] /\ fd_pos \in [Files -> Nat]
    /\ rw.len \in Nat /\ rw.bytes_rw \in -1..rw.len
    /\ (fs \in {"read", "written"}) => LoopSound(rw) /\ rw.chunk >= 1
    /\ fs \in {"sync", "synced"} => rw.f \in Files
    /\ \A f \in Files : fd_pos[f] <= i_size[f] \/ (rw.f = f /\ fs \in {"read", "written"})

DInv == DriverSound /\ ChannelSound /\ FilesSound

-----------------------------------------------------------------------------
(* Lemmas about the helpers. *)

\* The constants that the proofs compute with.
LEMMA Sizes ==
    /\ SECTOR_SIZE \in Nat \ {0} /\ COUNT \in Nat \ {0} /\ FSBUF_SECTS \in Nat \ {0}
BY HdAssumption

\* The count register holds what the drive moves: never more sectors than
\* the task waits for (hd.c:166).
LEMMA CountFits ==
    ASSUME NEW left \in Nat, left >= 1
    PROVE  /\ left % COUNT \in Nat
           /\ left % COUNT = 0 => COUNT \in 1..left
           /\ left % COUNT # 0 => left % COUNT \in 1..left
<1>1. left % COUNT \in 0..(COUNT - 1) BY Sizes
<1>2. left < COUNT => left % COUNT = left BY Sizes
<1>3. CASE left < COUNT BY <1>1, <1>2, <1>3, Sizes
<1>4. CASE left >= COUNT BY <1>1, <1>4, Sizes
<1> QED BY <1>3, <1>4, Sizes

\* What the drive is left with when a sector is taken from its data port.
LEMMA PortRead ==
    ASSUME CtlRecord, port_read
    PROVE  /\ CtlRecord' /\ ctl'.drq = FALSE
           /\ ctl.n = 1 => ctl'.op = "none"
           /\ ctl.n # 1 => /\ ctl'.op = ctl.op /\ ctl'.n = ctl.n - 1
                           /\ ctl'.buf = ctl.buf /\ ctl'.lba = ctl.lba + 1
BY DEF CtlRecord, port_read, Idle

-----------------------------------------------------------------------------
(* The driver and the drive: one lemma per action. *)

LEMMA DriverInit == InitHd => DriverSound
<1> SUFFICES ASSUME InitHd PROVE DriverSound OBVIOUS
<1>1. CtlRecord /\ HdRecord /\ CmdRecord
  BY DEF InitHd, CtlRecord, HdRecord, CmdRecord, Idle
<1>2. hd.pc = "recv" /\ Quiet /\ hd.left = 0 /\ ctl.drq = FALSE
  BY DEF InitHd, Idle, Quiet
<1>3. has_int_msg = FALSE BY DEF InitHd
<1>4. hd.left \in 0..FSBUF_SECTS BY <1>2, Sizes
<1> QED BY <1>1, <1>2, <1>3, <1>4 DEF DriverSound

LEMMA DriverFrame ==
    ASSUME DriverSound, UNCHANGED <<ctl, has_int_msg, hd>>
    PROVE  DriverSound'
BY DEF DriverSound, CtlRecord, HdRecord, CmdRecord, Quiet, Moving, Awaited, CmdSound, ReadSound,
       DrqSound, WintSound

\* A command that waits for one sector of a table.
LEMMA TableCommand ==
    ASSUME DriverSound, ctl'.op = "none", has_int_msg' = FALSE, CtlRecord',
           ctl'.drq = FALSE, HdRecord', hd'.pc = "cmd", hd'.then \in TablePcs,
           hd'.left = hd.left, NEW op \in {"read", "identify"}, NEW lba,
           hd'.cmd = [op |-> op, lba |-> lba, n |-> 1, drq |-> FALSE, buf |-> <<>>]
    PROVE  DriverSound'
<1>1. /\ hd'.cmd.op = op /\ hd'.cmd.n = 1 /\ hd'.cmd.drq = FALSE /\ hd'.cmd.buf = <<>>
      /\ CmdRecord'
  BY DEF CmdRecord
<1>2. CmdSound' BY <1>1 DEF CmdSound, Quiet
<1> QED BY <1>1, <1>2 DEF DriverSound

\* A step after which the task is at its RECEIVE or its reply.
LEMMA TaskQuiet ==
    ASSUME DriverSound, ctl'.op = "none", ctl'.drq = FALSE, has_int_msg' = FALSE, CtlRecord',
           HdRecord', hd'.pc \in {"recv", "reply"}, hd'.cmd = hd.cmd,
           hd'.left \in 0..FSBUF_SECTS
    PROVE  DriverSound'
BY DEF DriverSound, Quiet, CmdRecord

LEMMA DriverIdentify == DriverSound /\ hd_identify => DriverSound'
<1> SUFFICES ASSUME DriverSound, hd_identify PROVE DriverSound' OBVIOUS
<1>1. hd.pc = "ident" /\ has_int_msg' = FALSE /\ port_read /\ CtlRecord /\ HdRecord
  BY DEF hd_identify, interrupt_wait, DriverSound
<1>2. ctl.n = 1 BY <1>1 DEF DriverSound, TablePcs
<1>3. CtlRecord' /\ ctl'.op = "none" /\ ctl'.drq = FALSE BY <1>1, <1>2, PortRead
<1>4. CASE hd_info.open_cnt = 0
  <2>1. hd' = Command("read", 0, 1, "mbr") BY <1>4 DEF hd_identify
  <2>2. /\ HdRecord' /\ hd'.pc = "cmd" /\ hd'.then \in TablePcs /\ hd'.left = hd.left
        /\ hd'.cmd = [op |-> "read", lba |-> 0, n |-> 1, drq |-> FALSE, buf |-> <<>>]
    BY <1>1, <2>1 DEF HdRecord, Command, TablePcs
  <2> QED BY <1>1, <1>3, <2>2, TableCommand
<1>5. CASE hd_info.open_cnt # 0
  <2>1. hd' = [hd EXCEPT !.pc = "reply"] BY <1>5 DEF hd_identify
  <2>2. HdRecord' /\ hd'.pc = "reply" /\ hd'.cmd = hd.cmd /\ hd'.left = hd.left
    BY <1>1, <2>1 DEF HdRecord
  <2> QED BY <1>1, <1>3, <2>2, TaskQuiet DEF DriverSound
<1> QED BY <1>4, <1>5

\* Both ways on from a table of partitions.
LEMMA DriverTable ==
    ASSUME DriverSound, ctl'.op = "none", ctl'.drq = FALSE, has_int_msg' = FALSE, CtlRecord',
           NEW todo, NEW info, hd' = get_part_table(todo, info)
    PROVE  DriverSound'
<1>1. HdRecord BY DEF DriverSound
<1>2. CASE todo = {}
  <2>1. hd' = [hd EXCEPT !.pc = "reply", !.todo = todo] BY <1>2 DEF get_part_table
  <2>2. HdRecord' /\ hd'.pc = "reply" /\ hd'.cmd = hd.cmd /\ hd'.left = hd.left
    BY <1>1, <2>1 DEF HdRecord
  <2> QED BY <2>2, TaskQuiet DEF DriverSound
<1>3. CASE todo # {}
  <2>1. PICK start : hd' = [Command("read", start, 1, "ebr") EXCEPT !.todo = todo, !.sub = 0,
                                                                    !.s = start]
    BY <1>3 DEF get_part_table
  <2>2. /\ HdRecord' /\ hd'.pc = "cmd" /\ hd'.then \in TablePcs /\ hd'.left = hd.left
        /\ hd'.cmd = [op |-> "read", lba |-> start, n |-> 1, drq |-> FALSE, buf |-> <<>>]
    BY <1>1, <2>1 DEF HdRecord, Command, TablePcs
  <2> QED BY <2>2, TableCommand
<1> QED BY <1>2, <1>3

LEMMA DriverPrimary == DriverSound /\ PartitionPrimary => DriverSound'
<1> SUFFICES ASSUME DriverSound, PartitionPrimary PROVE DriverSound' OBVIOUS
<1>1. hd.pc = "mbr" /\ has_int_msg' = FALSE /\ port_read /\ CtlRecord
  BY DEF PartitionPrimary, interrupt_wait, DriverSound
<1>2. ctl.n = 1 BY <1>1 DEF DriverSound, TablePcs
<1>3. CtlRecord' /\ ctl'.op = "none" /\ ctl'.drq = FALSE BY <1>1, <1>2, PortRead
<1>4. \E todo, info : hd' = get_part_table(todo, info) BY Zenon DEF PartitionPrimary
<1> QED BY <1>1, <1>3, <1>4, DriverTable

LEMMA DriverExtended == DriverSound /\ PartitionExtended => DriverSound'
<1> SUFFICES ASSUME DriverSound, PartitionExtended PROVE DriverSound' OBVIOUS
<1>1. hd.pc = "ebr" /\ has_int_msg' = FALSE /\ port_read /\ CtlRecord /\ HdRecord
  BY DEF PartitionExtended, interrupt_wait, DriverSound
<1>2. ctl.n = 1 BY <1>1 DEF DriverSound, TablePcs
<1>3. CtlRecord' /\ ctl'.op = "none" /\ ctl'.drq = FALSE BY <1>1, <1>2, PortRead
<1>4. \/ hd' = get_part_table(hd.todo \ {Min(hd.todo)}, hd_info)
      \/ \E next : hd' = [Command("read", next, 1, "ebr") EXCEPT !.s = next, !.sub = @ + 1]
  BY Zenon DEF PartitionExtended
<1>5. CASE hd' = get_part_table(hd.todo \ {Min(hd.todo)}, hd_info)
  BY <1>1, <1>3, <1>5, DriverTable
<1>6. CASE \E next : hd' = [Command("read", next, 1, "ebr") EXCEPT !.s = next, !.sub = @ + 1]
  <2>1. PICK next : hd' = [Command("read", next, 1, "ebr") EXCEPT !.s = next, !.sub = @ + 1]
    BY <1>6
  <2>2. /\ HdRecord' /\ hd'.pc = "cmd" /\ hd'.then \in TablePcs /\ hd'.left = hd.left
        /\ hd'.cmd = [op |-> "read", lba |-> next, n |-> 1, drq |-> FALSE, buf |-> <<>>]
    BY <1>1, <2>1 DEF HdRecord, Command, TablePcs
  <2> QED BY <1>1, <1>3, <2>2, TableCommand
<1> QED BY <1>4, <1>5, <1>6

\* hd_cmd_out() gives the drive what the caller has put together: for a
\* transfer at most as many sectors as the request has.
LEMMA DriverCmdOut == DriverSound /\ hd_cmd_out => DriverSound'
<1> SUFFICES ASSUME DriverSound, hd_cmd_out PROVE DriverSound' OBVIOUS
<1>1. /\ hd.pc = "cmd" /\ CmdSound /\ HdRecord /\ CmdRecord
      /\ has_int_msg = FALSE /\ has_int_msg' = FALSE
      /\ ctl' = [hd.cmd EXCEPT !.n = IF hd.cmd.n = 0 THEN COUNT ELSE hd.cmd.n]
      /\ hd' = [hd EXCEPT !.pc = hd.then]
  <2>1. /\ hd.pc = "cmd" /\ ctl' = [hd.cmd EXCEPT !.n = IF hd.cmd.n = 0 THEN COUNT ELSE hd.cmd.n]
        /\ hd' = [hd EXCEPT !.pc = hd.then] /\ has_int_msg' = has_int_msg
    BY Zenon DEF hd_cmd_out
  <2>2. CmdSound /\ HdRecord /\ CmdRecord /\ has_int_msg \in BOOLEAN
    BY DEF hd_cmd_out, DriverSound, TablePcs
  <2>3. has_int_msg = FALSE BY <2>2 DEF CmdSound, Quiet
  <2> QED BY <2>1, <2>2, <2>3, Zenon
<1>2. PICK c : c = hd.cmd OBVIOUS
<1>3. PICK n : n = IF hd.cmd.n = 0 THEN COUNT ELSE hd.cmd.n OBVIOUS
<1>4. /\ c = [op |-> c.op, lba |-> c.lba, n |-> c.n, drq |-> c.drq, buf |-> c.buf]
      /\ ctl' = [c EXCEPT !.n = n]
  BY <1>1, <1>2, <1>3, Zenon DEF CmdRecord
<1>5. CtlRecord' /\ ctl'.op = c.op /\ ctl'.n = n /\ ctl'.drq = c.drq /\ ctl'.buf = c.buf
  BY <1>4 DEF CtlRecord
<1>6. HdRecord' /\ hd'.pc = hd.then /\ hd'.cmd = hd.cmd /\ hd'.left = hd.left
      /\ hd'.then = hd.then
  BY <1>1 DEF HdRecord
<1>7. ctl'.drq = FALSE /\ ctl'.buf = <<>> /\ CmdRecord'
  BY <1>1, <1>2, <1>5, <1>6 DEF DriverSound, CmdSound, CmdRecord
<1>8. CASE hd.then \in TablePcs /\ hd.cmd.op \in {"read", "identify"} /\ hd.cmd.n = 1
  <2>1. ctl'.n = 1 /\ ctl'.op \in {"read", "identify"} BY <1>2, <1>3, <1>5, <1>8
  <2> QED BY <1>1, <1>5, <1>6, <1>7, <1>8, <2>1 DEF DriverSound, TablePcs
<1>9. CASE /\ \/ hd.then = "read" /\ hd.cmd.op = "read"
              \/ hd.then = "drq" /\ hd.cmd.op = "write"
           /\ Moving /\ hd.cmd.n = hd.left % COUNT
  <2>1. hd.left \in Nat /\ hd.left >= 1 BY <1>9, Sizes DEF Moving
  <2>2. n \in 1..hd.left BY <1>3, <1>9, <2>1, CountFits, Sizes
  <2>3. Moving' /\ ctl'.n \in 1..hd'.left BY <1>5, <1>6, <1>9, <2>2 DEF Moving
  <2>4. CASE hd.then = "read" /\ hd.cmd.op = "read"
    <3>1. ReadSound' BY <1>1, <1>2, <1>5, <1>6, <1>7, <2>3, <2>4 DEF ReadSound, Awaited
    <3> QED BY <1>1, <1>2, <1>5, <1>6, <1>7, <2>4, <3>1 DEF DriverSound
  <2>5. CASE hd.then = "drq" /\ hd.cmd.op = "write"
    <3>1. DrqSound' BY <1>1, <1>2, <1>5, <1>6, <1>7, <2>3, <2>5 DEF DrqSound, Awaited
    <3> QED BY <1>1, <1>2, <1>5, <1>6, <1>7, <2>5, <3>1 DEF DriverSound
  <2> QED BY <1>9, <2>4, <2>5
<1> QED BY <1>1, <1>8, <1>9 DEF CmdSound

\* A request is taken: a command for the drive, or the answer at once.
LEMMA DriverReceive == DriverSound /\ ChannelSound /\ HdReceive => DriverSound'
<1> SUFFICES ASSUME DriverSound, ChannelSound, HdReceive PROVE DriverSound' OBVIOUS
<1>1. /\ hd.pc = "recv" /\ chan.st = "request" /\ CtlRecord /\ HdRecord
      /\ ctl.op = "none" /\ ctl.drq = FALSE
      /\ ctl' = ctl /\ has_int_msg = FALSE /\ has_int_msg' = FALSE
  <2>1. hd.pc = "recv" /\ Quiet BY DEF HdReceive, DriverSound, TablePcs
  <2> QED BY <2>1 DEF HdReceive, DriverSound, Quiet
<1>2. CtlRecord' /\ ctl'.op = "none" /\ ctl'.drq = FALSE BY <1>1 DEF CtlRecord
<1>3. CASE chan.m.type = "DEV_OPEN"
  <2>1. hd' = Command("identify", 0, 1, "ident") BY <1>3 DEF HdReceive
  <2>2. /\ HdRecord' /\ hd'.pc = "cmd" /\ hd'.then \in TablePcs /\ hd'.left = hd.left
        /\ hd'.cmd = [op |-> "identify", lba |-> 0, n |-> 1, drq |-> FALSE, buf |-> <<>>]
    BY <1>1, <2>1 DEF HdRecord, Command, TablePcs
  <2> QED BY <1>1, <1>2, <2>2, TableCommand
<1>4. CASE chan.m.type = "DEV_IOCTL"
  <2>1. hd' = [hd EXCEPT !.pc = "reply"] BY <1>4 DEF HdReceive
  <2>2. HdRecord' /\ hd'.pc = "reply" /\ hd'.cmd = hd.cmd /\ hd'.left = hd.left
    BY <1>1, <2>1 DEF HdRecord
  <2> QED BY <1>1, <1>2, <2>2, TaskQuiet DEF DriverSound
<1>5. CASE chan.m.type \notin {"DEV_OPEN", "DEV_IOCTL"}
  <2>1. hd' = hd_rdwt(chan.m) /\ chan.m.cnt \in 1..FSBUF_SECTS
    BY <1>1, <1>5 DEF HdReceive, ChannelSound
  <2>2. PICK op, lba, n, then, left :
          /\ hd' = [Command(op, lba, n, then) EXCEPT !.la = 0, !.left = left]
          /\ left = chan.m.cnt /\ n = left % COUNT
          /\ \/ op = "read" /\ then = "read"
             \/ op = "write" /\ then = "drq"
    <3>1. CASE chan.m.type = "DEV_READ" BY <2>1, <3>1, Zenon DEF hd_rdwt
    <3>2. CASE chan.m.type # "DEV_READ" BY <2>1, <3>2, Zenon DEF hd_rdwt
    <3> QED BY <3>1, <3>2
  <2>3. PICK c : c = [op |-> op, lba |-> lba, n |-> n, drq |-> FALSE, buf |-> <<>>] OBVIOUS
  <2>4. /\ c.op = op /\ c.n = n /\ c.drq = FALSE /\ c.buf = <<>>
        /\ c = [op |-> c.op, lba |-> c.lba, n |-> c.n, drq |-> c.drq, buf |-> c.buf]
    BY <2>3
  <2>5. /\ HdRecord' /\ hd'.pc = "cmd" /\ hd'.then = then /\ hd'.left = left /\ hd'.cmd = c
    BY <1>1, <2>2, <2>3 DEF HdRecord, Command
  <2>6. CmdRecord' BY <2>4, <2>5, Zenon DEF CmdRecord
  <2>7. Moving' /\ left \in 0..FSBUF_SECTS BY <2>1, <2>2, <2>5, Sizes DEF Moving
  <2>8. CmdSound'
    <3>1. /\ hd'.cmd.op = op /\ hd'.cmd.n = hd'.left % COUNT /\ hd'.cmd.drq = FALSE
          /\ hd'.cmd.buf = <<>>
      BY <2>2, <2>4, <2>5
    <3> QED BY <1>1, <1>2, <2>2, <2>5, <2>7, <3>1 DEF CmdSound, Quiet
  <2> QED BY <1>1, <1>2, <2>5, <2>6, <2>7, <2>8 DEF DriverSound
<1> QED BY <1>3, <1>4, <1>5

LEMMA DriverReply == DriverSound /\ HdReply => DriverSound'
<1> SUFFICES ASSUME DriverSound, HdReply PROVE DriverSound' OBVIOUS
<1>1. /\ hd.pc = "reply" /\ CtlRecord /\ HdRecord
      /\ ctl' = ctl /\ has_int_msg' = has_int_msg /\ hd' = [hd EXCEPT !.pc = "recv"]
  BY DEF HdReply, DriverSound
<1>2. Quiet /\ ctl.op = "none" /\ has_int_msg = FALSE /\ ctl.drq = FALSE
  BY <1>1 DEF DriverSound, Quiet, TablePcs
<1>3. HdRecord' /\ hd'.pc = "recv" /\ hd'.cmd = hd.cmd /\ hd'.left = hd.left
  BY <1>1 DEF HdRecord
<1>4. CtlRecord' BY <1>1 DEF CtlRecord
<1> QED BY <1>1, <1>2, <1>3, <1>4, TaskQuiet DEF DriverSound

\* The end of a sector: the next one, or the answer.
LEMMA SectorDoneRecord ==
    ASSUME HdRecord, Moving, hd' = SectorDone
    PROVE  /\ HdRecord' /\ hd'.cmd = hd.cmd /\ hd'.then = hd.then /\ hd'.left = hd.left - 1
           /\ hd.left > 1 => hd'.pc = hd.then /\ Moving'
           /\ hd.left = 1 => hd'.pc = "reply"
           /\ hd'.la = hd.la + SECTOR_SIZE
<1>1. PICK pc : pc = IF hd.left > 1 THEN hd.then ELSE "reply" OBVIOUS
<1>2. hd' = [hd EXCEPT !.la = hd.la + SECTOR_SIZE, !.left = hd.left - 1, !.pc = pc]
  BY <1>1 DEF SectorDone
<1>3. /\ HdRecord' /\ hd'.cmd = hd.cmd /\ hd'.then = hd.then /\ hd'.left = hd.left - 1
      /\ hd'.pc = pc /\ hd'.la = hd.la + SECTOR_SIZE
  BY <1>2 DEF HdRecord
<1> QED BY <1>1, <1>3, Sizes DEF Moving

\* A sector read: with its last sector the drive is idle, and before that it
\* has fewer to go than the task.
LEMMA DriverRead == DriverSound /\ ReadSector => DriverSound'
<1> SUFFICES ASSUME DriverSound, ReadSector PROVE DriverSound' OBVIOUS
<1>1. /\ hd.pc = "read" /\ has_int_msg /\ has_int_msg' = FALSE /\ port_read
      /\ hd' = SectorDone /\ CtlRecord /\ HdRecord
  BY DEF ReadSector, interrupt_wait, DriverSound
<1>2. hd.then = "read" /\ Moving /\ ctl.op = "read" /\ ctl.n \in 1..hd.left
  BY <1>1 DEF DriverSound, TablePcs, ReadSound, Quiet, Awaited
<1>3. /\ HdRecord' /\ hd'.cmd = hd.cmd /\ hd'.then = hd.then /\ hd'.left = hd.left - 1
      /\ hd.left > 1 => hd'.pc = hd.then /\ Moving'
      /\ hd.left = 1 => hd'.pc = "reply"
  BY <1>1, <1>2, SectorDoneRecord
<1>4. /\ CtlRecord' /\ ctl'.drq = FALSE
      /\ ctl.n = 1 => ctl'.op = "none"
      /\ ctl.n # 1 => ctl'.op = "read" /\ ctl'.n = ctl.n - 1
  BY <1>1, <1>2, PortRead
<1>5. hd.left \in 1..FSBUF_SECTS BY <1>2 DEF Moving
<1>6. CASE hd.left = 1
  <2>1. ctl'.op = "none" BY <1>2, <1>4, <1>6
  <2>2. hd'.left \in 0..FSBUF_SECTS BY <1>3, <1>6, Sizes
  <2> QED BY <1>1, <1>3, <1>4, <1>6, <2>1, <2>2, TaskQuiet
<1>7. CASE hd.left > 1
  <2>1. ctl'.op = "none" \/ (ctl'.op = "read" /\ ctl'.n \in 1..hd'.left)
    BY <1>2, <1>3, <1>4, <1>5, Sizes
  <2>2. ReadSound' BY <1>1, <1>2, <1>3, <1>4, <1>7, <2>1 DEF ReadSound, Quiet, Awaited
  <2>3. hd'.left \in 0..FSBUF_SECTS BY <1>3, <1>5, Sizes
  <2>4. CmdRecord' BY <1>3 DEF CmdRecord, DriverSound
  <2> QED BY <1>1, <1>2, <1>3, <1>4, <1>7, <2>2, <2>3, <2>4 DEF DriverSound
<1> QED BY <1>5, <1>6, <1>7, Sizes

\* A sector handed to the drive.
LEMMA DriverWrite == DriverSound /\ WriteSector => DriverSound'
<1> SUFFICES ASSUME DriverSound, WriteSector PROVE DriverSound' OBVIOUS
<1>1. PICK bytes : /\ bytes = [b \in 1..SECTOR_SIZE |-> fsbuf[hd.la + b - 1]]
                   /\ ctl' = [ctl EXCEPT !.drq = FALSE, !.buf = bytes]
  BY DEF WriteSector, port_write
<1>2. bytes # <<>>
  <2>1. DOMAIN bytes = 1..SECTOR_SIZE BY <1>1
  <2>2. 1 \in DOMAIN bytes BY <2>1, Sizes
  <2>3. 1 \notin DOMAIN <<>> OBVIOUS
  <2> QED BY <2>2, <2>3
<1>3. /\ hd.pc = "drq" /\ ctl.drq /\ CtlRecord /\ HdRecord
      /\ hd' = [hd EXCEPT !.pc = "wint"] /\ has_int_msg' = has_int_msg
  BY DEF WriteSector, DriverSound
<1>4. DrqSound BY <1>3 DEF DriverSound, TablePcs
<1>5. ctl.op = "write" /\ ctl.n \in 1..hd.left /\ Moving /\ hd.then = "drq" /\ has_int_msg = FALSE
  BY <1>3, <1>4 DEF DrqSound, Awaited, DriverSound
<1>6. CtlRecord' /\ ctl'.op = ctl.op /\ ctl'.n = ctl.n /\ ctl'.drq = FALSE /\ ctl'.buf = bytes
  BY <1>1, <1>3 DEF CtlRecord
<1>7. /\ HdRecord' /\ hd'.pc = "wint" /\ hd'.cmd = hd.cmd /\ hd'.left = hd.left
      /\ hd'.then = hd.then
  BY <1>3 DEF HdRecord
<1>8. WintSound' BY <1>2, <1>3, <1>5, <1>6, <1>7 DEF WintSound, Moving, Awaited
<1>9. CmdRecord' BY <1>7 DEF CmdRecord, DriverSound
<1> QED BY <1>3, <1>5, <1>6, <1>7, <1>8, <1>9 DEF DriverSound

\* The interrupt of a sector written is consumed.
LEMMA DriverWritten == DriverSound /\ SectorWritten => DriverSound'
<1> SUFFICES ASSUME DriverSound, SectorWritten PROVE DriverSound' OBVIOUS
<1>1. /\ hd.pc = "wint" /\ has_int_msg /\ has_int_msg' = FALSE /\ ctl' = ctl
      /\ hd' = SectorDone /\ CtlRecord /\ HdRecord
  BY DEF SectorWritten, interrupt_wait, DriverSound
<1>2. WintSound BY <1>1 DEF DriverSound, TablePcs
<1>3. /\ hd.then = "drq" /\ Moving
      /\ \/ ctl.op = "none"
         \/ ctl.op = "write" /\ ctl.n \in 1..hd.left /\ ctl.n < hd.left /\ ctl.buf = <<>>
  BY <1>1, <1>2 DEF WintSound, Awaited
<1>4. /\ HdRecord' /\ hd'.cmd = hd.cmd /\ hd'.then = hd.then /\ hd'.left = hd.left - 1
      /\ hd.left > 1 => hd'.pc = hd.then /\ Moving'
      /\ hd.left = 1 => hd'.pc = "reply"
  BY <1>1, <1>3, SectorDoneRecord
<1>5. hd.left \in 1..FSBUF_SECTS BY <1>3 DEF Moving
<1>6. hd'.left \in 0..FSBUF_SECTS BY <1>4, <1>5, Sizes
<1>7. CtlRecord' BY <1>1 DEF CtlRecord
<1>8. CASE hd.left = 1
  <2>1. ctl'.op = "none" /\ ctl'.drq = FALSE BY <1>1, <1>3, <1>8 DEF DriverSound
  <2> QED BY <1>1, <1>4, <1>6, <1>7, <1>8, <2>1, TaskQuiet
<1>9. CASE hd.left > 1
  <2>1. \/ ctl'.op = "none"
        \/ ctl'.op = "write" /\ ctl'.n \in 1..hd'.left /\ ctl'.buf = <<>>
    BY <1>1, <1>3, <1>4, <1>5, Sizes
  <2>2. DrqSound' BY <1>1, <1>3, <1>4, <1>9, <2>1 DEF DrqSound, Awaited
  <2>3. CmdRecord' BY <1>4 DEF CmdRecord, DriverSound
  <2>4. ctl'.drq \in BOOLEAN /\ (ctl'.op = "none" => ~ctl'.drq) BY <1>1 DEF DriverSound
  <2> QED BY <1>1, <1>3, <1>4, <1>6, <1>7, <1>9, <2>2, <2>3, <2>4 DEF DriverSound
<1> QED BY <1>5, <1>8, <1>9, Sizes

-----------------------------------------------------------------------------
(* The drive. *)

\* The task waits for a sector, and the drive has it.
LEMMA DriveReadReady == DriverSound /\ CtlReadReady => DriverSound'
<1> SUFFICES ASSUME DriverSound, CtlReadReady PROVE DriverSound' OBVIOUS
<1>1. /\ ctl.op \in {"read", "identify"} /\ ctl.drq = FALSE
      /\ ctl' = [ctl EXCEPT !.drq = TRUE]
      /\ has_int_msg' = TRUE /\ hd' = hd /\ CtlRecord /\ HdRecord /\ CmdRecord
  BY DEF CtlReadReady, Busy, hd_handler, DriverSound
<1>2. CtlRecord' /\ ctl'.op = ctl.op /\ ctl'.n = ctl.n /\ ctl'.drq = TRUE
  BY <1>1 DEF CtlRecord
<1>3. HdRecord' /\ CmdRecord' BY <1>1 DEF HdRecord, CmdRecord
<1>4. CASE hd.pc \in TablePcs
  <2>1. ctl.n = 1 BY <1>4 DEF DriverSound, TablePcs
  <2> QED BY <1>1, <1>2, <1>3, <1>4, <2>1 DEF DriverSound
<1>5. CASE hd.pc = "read"
  <2>1. ReadSound BY <1>5 DEF DriverSound, TablePcs
  <2>2. ReadSound' BY <1>1, <1>2, <2>1 DEF ReadSound, Quiet, Awaited, Moving
  <2> QED BY <1>1, <1>2, <1>3, <1>5, <2>2 DEF DriverSound
<1>6. hd.pc \in TablePcs \/ hd.pc = "read"
  BY <1>1 DEF DriverSound, CmdSound, Quiet, DrqSound, WintSound, Awaited
<1> QED BY <1>4, <1>5, <1>6

LEMMA DriveWriteReady == DriverSound /\ CtlWriteReady => DriverSound'
<1> SUFFICES ASSUME DriverSound, CtlWriteReady PROVE DriverSound' OBVIOUS
<1>1. /\ ctl.op = "write" /\ ctl.drq = FALSE /\ ctl.buf = <<>>
      /\ ctl' = [ctl EXCEPT !.drq = TRUE]
      /\ has_int_msg' = has_int_msg /\ hd' = hd /\ CtlRecord /\ HdRecord /\ CmdRecord
  BY DEF CtlWriteReady, Busy, DriverSound
<1>2. CtlRecord' /\ ctl'.op = ctl.op /\ ctl'.n = ctl.n /\ ctl'.drq = TRUE /\ ctl'.buf = <<>>
  BY <1>1 DEF CtlRecord
<1>3. HdRecord' /\ CmdRecord' BY <1>1 DEF HdRecord, CmdRecord
<1>4. hd.pc = "drq" /\ DrqSound
  BY <1>1 DEF DriverSound, CmdSound, Quiet, TablePcs, ReadSound, WintSound, Awaited
<1>5. DrqSound' BY <1>1, <1>2, <1>4 DEF DrqSound, Awaited, Moving
<1> QED BY <1>1, <1>2, <1>3, <1>4, <1>5 DEF DriverSound

\* A sector is written: the interrupt is the one the task waits for.
LEMMA DriveWriteDone == DriverSound /\ CtlWriteDone => DriverSound'
<1> SUFFICES ASSUME DriverSound, CtlWriteDone PROVE DriverSound' OBVIOUS
<1>1. /\ ctl.op = "write" /\ ctl.drq = FALSE /\ ctl.buf # <<>>
      /\ has_int_msg' = TRUE /\ hd' = hd /\ CtlRecord /\ HdRecord /\ CmdRecord
  BY DEF CtlWriteDone, Busy, hd_handler, DriverSound
<1>2. /\ ctl.n = 1 => ctl' = Idle
      /\ ctl.n # 1 => ctl' = [ctl EXCEPT !.n = ctl.n - 1, !.lba = ctl.lba + 1,
                                         !.drq = TRUE, !.buf = <<>>]
  BY DEF CtlWriteDone
<1>3. /\ CtlRecord'
      /\ ctl.n = 1 => ctl'.op = "none" /\ ctl'.drq = FALSE
      /\ ctl.n # 1 => /\ ctl'.op = "write" /\ ctl'.n = ctl.n - 1
                      /\ ctl'.drq = TRUE /\ ctl'.buf = <<>>
  <2>1. CASE ctl.n = 1 BY <1>2, <2>1 DEF CtlRecord, Idle
  <2>2. CASE ctl.n # 1 BY <1>1, <1>2, <2>2 DEF CtlRecord
  <2> QED BY <2>1, <2>2
<1>4. HdRecord' /\ CmdRecord' BY <1>1 DEF HdRecord, CmdRecord
<1>5. hd.pc = "wint" /\ WintSound
  BY <1>1 DEF DriverSound, CmdSound, Quiet, TablePcs, ReadSound, DrqSound, Awaited
<1>6. hd.then = "drq" /\ Moving /\ ctl.n \in 1..hd.left
  BY <1>1, <1>5 DEF WintSound, Awaited
<1>7. WintSound'
  <2>1. Moving' /\ hd'.then = "drq" BY <1>1, <1>6 DEF Moving
  <2>2. CASE ctl.n = 1 BY <1>1, <1>3, <2>1, <2>2 DEF WintSound
  <2>3. CASE ctl.n # 1
    <3>1. ctl'.n \in 1..hd'.left /\ ctl'.n < hd'.left
      BY <1>1, <1>3, <1>6, <2>3, Sizes DEF Moving
    <3> QED BY <1>1, <1>3, <2>1, <2>3, <3>1 DEF WintSound, Awaited
  <2> QED BY <2>2, <2>3
<1> QED BY <1>1, <1>3, <1>4, <1>5, <1>7 DEF DriverSound

-----------------------------------------------------------------------------
(* What FS asks for, and its positions. *)

LEMMA FilesFrame ==
    ASSUME FilesSound, UNCHANGED <<rw, i_size, fd_pos>>,
           fs' = fs \/ (fs \notin {"read", "written"} /\ fs' \notin {"read", "written", "sync", "synced"})
    PROVE  FilesSound'
<1>1. RwRecord' BY DEF FilesSound, RwRecord
<1> QED BY <1>1 DEF FilesSound, LoopSound

LEMMA Asked ==
    ASSUME ChannelSound, NEW type, NEW sect, NEW cnt, rw_sector(type, sect, cnt),
           type \in {"DEV_OPEN", "DEV_IOCTL"} \/ cnt \in 1..FSBUF_SECTS
    PROVE  ChannelSound'
<1>1. PICK m : m = [type |-> type, dev |-> ROOT_DEV, sect |-> sect, cnt |-> cnt] OBVIOUS
<1>2. m.type = type /\ m.cnt = cnt BY <1>1
<1>3. chan' = [chan EXCEPT !.st = "request", !.m = m] BY <1>1, Zenon DEF rw_sector
<1>4. chan' = [st |-> chan'.st, m |-> chan'.m, geo |-> chan'.geo] /\ chan'.m = m
  BY <1>3 DEF ChannelSound
<1> QED BY <1>2, <1>4 DEF ChannelSound

\* The messages of HD itself, and the end of an exchange.
LEMMA NotAsked ==
    ASSUME ChannelSound, NEW st, st # "request",
           \/ chan' = [chan EXCEPT !.st = st]
           \/ \E geo : chan' = [chan EXCEPT !.st = st, !.geo = geo]
    PROVE  ChannelSound'
<1>1. CASE chan' = [chan EXCEPT !.st = st]
  <2>1. chan' = [st |-> chan'.st, m |-> chan'.m, geo |-> chan'.geo] /\ chan'.st = st
    BY <1>1 DEF ChannelSound
  <2> QED BY <2>1 DEF ChannelSound
<1>2. CASE \E geo : chan' = [chan EXCEPT !.st = st, !.geo = geo]
  <2>1. chan' = [st |-> chan'.st, m |-> chan'.m, geo |-> chan'.geo] /\ chan'.st = st
    BY <1>2 DEF ChannelSound
  <2> QED BY <2>1 DEF ChannelSound
<1> QED BY <1>1, <1>2

\* The head of the loop, whatever brought do_rdwt() there.
LEMMA LoopHeadSound ==
    ASSUME FilesSound, ChannelSound, NEW r, NEW pos \in Nat,
           r = [type |-> r.type, f |-> r.f, pos |-> r.pos, len |-> r.len, off |-> r.off,
                i |-> r.i, max |-> r.max, chunk |-> r.chunk, bytes_rw |-> r.bytes_rw,
                left |-> r.left],
           LoopSound(r), r.i <= r.max => r.chunk >= 1,
           \A f \in Files : f # r.f => fd_pos[f] <= i_size[f],
           LoopHead(r, pos)
    PROVE  FilesSound' /\ ChannelSound'
<1>1. rw' = r /\ fd_pos' = [fd_pos EXCEPT ![r.f] = pos] BY DEF LoopHead
<1>2. /\ r.f \in Files /\ r.i \in Int /\ r.max \in Int /\ r.chunk \in Int
      /\ r.chunk <= FSBUF_SECTS /\ r.bytes_rw \in 0..r.len /\ r.len \in Nat
  BY DEF LoopSound
<1>3. RwRecord' BY <1>1, Zenon DEF RwRecord
<1>4. /\ i_size \in [Files -> Nat] /\ fd_pos \in [Files -> Nat] /\ fd_pos' \in [Files -> Nat]
      /\ rw'.len \in Nat /\ rw'.bytes_rw \in -1..rw'.len
  BY <1>1, <1>2 DEF FilesSound
<1>5. fd_pos'[r.f] = pos /\ \A f \in Files : f # r.f => fd_pos'[f] = fd_pos[f]
  BY <1>1, <1>2, <1>4
<1>6. CASE r.i <= r.max /\ fs' = "read" /\ rw_sector("DEV_READ", r.i, r.chunk) /\ i_size' = i_size
  <2>1. r.chunk \in 1..FSBUF_SECTS BY <1>2, <1>6, Sizes
  <2>2. ChannelSound' BY <1>6, <2>1, Asked
  <2>3. LoopSound(rw)' BY <1>1 DEF LoopSound
  <2>4. rw'.chunk >= 1 BY <1>1, <2>1
  <2> QED BY <1>1, <1>3, <1>4, <1>5, <1>6, <2>2, <2>3, <2>4 DEF FilesSound
<1>7. CASE /\ pos > i_size[r.f] /\ fs' = "sync" /\ i_size' = [i_size EXCEPT ![r.f] = pos]
           /\ rw_sector("DEV_READ", InodeSect, 1)
  <2>1. 1 \in 1..FSBUF_SECTS BY Sizes
  <2>2. ChannelSound' BY <1>7, <2>1, Asked
  <2>3. /\ i_size' \in [Files -> Nat] /\ i_size'[r.f] = pos
        /\ \A f \in Files : f # r.f => i_size'[f] = i_size[f]
    BY <1>2, <1>4, <1>7
  <2>4. \A f \in Files : fd_pos'[f] <= i_size'[f] BY <1>5, <2>3
  <2> QED BY <1>1, <1>2, <1>3, <1>4, <1>7, <2>2, <2>3, <2>4 DEF FilesSound
<1>8. CASE pos <= i_size[r.f] /\ fs' = "idle" /\ NoMessage /\ i_size' = i_size
  <2>1. ChannelSound' BY <1>8, NotAsked DEF NoMessage
  <2>2. \A f \in Files : fd_pos'[f] <= i_size'[f] BY <1>5, <1>8
  <2> QED BY <1>1, <1>3, <1>4, <1>8, <2>1, <2>2 DEF FilesSound
<1> QED BY <1>6, <1>7, <1>8 DEF LoopHead

\* A request: the chunk is empty only when the loop is not entered.
LEMMA FilesRequest ==
    ASSUME FilesSound, ChannelSound, NEW f \in Files, NEW type \in {"READ", "WRITE"},
           NEW len \in Lens, do_rdwt(f, type, len)
    PROVE  FilesSound' /\ ChannelSound'
<1>1. fs = "idle" /\ len \in Nat BY ReadWriteAssumption DEF do_rdwt
<1>2. PICK r : r = Request(f, type, len) OBVIOUS
<1>3. PICK min, max, end :
        /\ min = Start[f] + (fd_pos[f] \div SECTOR_SIZE)
        /\ max = Start[f] + (end \div SECTOR_SIZE)
        /\ end = Least(fd_pos[f] + len, IF type = "READ" THEN i_size[f]
                                        ELSE NrSects[f] * SECTOR_SIZE)
        /\ r = [type |-> type, f |-> f, pos |-> fd_pos[f], len |-> len,
                off |-> fd_pos[f] % SECTOR_SIZE, i |-> min, max |-> max,
                chunk |-> Least(max - min + 1, FSBUF_SECTS), bytes_rw |-> 0, left |-> len]
  BY <1>2, Zenon DEF Request
<1>4. /\ fd_pos[f] \in Nat /\ i_size[f] \in Nat /\ Start[f] \in Nat /\ NrSects[f] \in Nat
      /\ i_size \in [Files -> Nat] /\ fd_pos \in [Files -> Nat]
      /\ \A g \in Files : fd_pos[g] <= i_size[g]
  BY <1>1, ReadWriteAssumption DEF FilesSound
<1>5. end \in Nat
  <2>1. NrSects[f] * SECTOR_SIZE \in Nat BY <1>4, Sizes
  <2>2. fd_pos[f] + len \in Nat BY <1>1, <1>4
  <2> QED BY <1>3, <1>4, <2>1, <2>2 DEF Least
<1>6. min \in Int /\ max \in Int /\ fd_pos[f] % SECTOR_SIZE \in 0..(SECTOR_SIZE - 1)
  BY <1>3, <1>4, <1>5, Sizes
<1>7. PICK chunk \in Int : /\ chunk = Least(max - min + 1, FSBUF_SECTS) /\ chunk <= FSBUF_SECTS
                           /\ min <= max => chunk >= 1
  <2>1. /\ Least(max - min + 1, FSBUF_SECTS) \in Int
        /\ Least(max - min + 1, FSBUF_SECTS) <= FSBUF_SECTS
        /\ min <= max => Least(max - min + 1, FSBUF_SECTS) >= 1
    BY <1>6, Sizes DEF Least
  <2> QED BY <2>1
<1>8. /\ r.f = f /\ r.off = fd_pos[f] % SECTOR_SIZE /\ r.i = min /\ r.max = max
      /\ r.chunk = chunk /\ r.left = len /\ r.len = len /\ r.bytes_rw = 0
      /\ r = [type |-> r.type, f |-> r.f, pos |-> r.pos, len |-> r.len, off |-> r.off,
              i |-> r.i, max |-> r.max, chunk |-> r.chunk, bytes_rw |-> r.bytes_rw,
              left |-> r.left]
  BY <1>3, <1>7
<1>9. LoopSound(r) BY <1>1, <1>6, <1>7, <1>8 DEF LoopSound
<1>10. CASE f \in ReadOnly
  <2>1. rw' = [r EXCEPT !.bytes_rw = -1] /\ UNCHANGED <<fs, chan, i_size, fd_pos>>
    BY <1>2, <1>10 DEF do_rdwt
  <2>2. RwRecord' /\ rw'.len = len /\ rw'.bytes_rw = -1 BY <1>8, <2>1 DEF RwRecord
  <2>3. ChannelSound' BY <2>1 DEF ChannelSound
  <2>4. -1 \in -1..len BY <1>1
  <2> QED BY <1>1, <1>4, <2>1, <2>2, <2>3, <2>4 DEF FilesSound
<1>11. CASE f \notin ReadOnly
  <2>1. PICK pos \in Nat : pos = fd_pos[f] BY <1>4
  <2>2. LoopHead(r, pos)
    <3>1. LoopHead(Request(f, type, len), fd_pos[f]) BY <1>11 DEF do_rdwt
    <3> QED BY <1>2, <2>1, <3>1 DEF LoopHead
  <2> QED BY <1>4, <1>7, <1>8, <1>9, <2>2, LoopHeadSound
<1> QED BY <1>10, <1>11

\* The end of the loop's body: the bytes of the chunk are counted.
LEMMA FilesLoopEnd ==
    ASSUME FilesSound, ChannelSound, fs \in {"read", "written"}, LoopEnd
    PROVE  FilesSound' /\ ChannelSound'
<1>1. RwRecord /\ LoopSound(rw) /\ rw.chunk >= 1 BY DEF FilesSound
<1>2. /\ rw.f \in Files /\ rw.off \in 0..(SECTOR_SIZE - 1) /\ rw.i \in Int /\ rw.max \in Int
      /\ rw.chunk \in Nat /\ rw.chunk <= FSBUF_SECTS /\ rw.left \in Nat /\ rw.len \in Nat
      /\ rw.bytes_rw \in Nat /\ rw.bytes_rw + rw.left = rw.len
  BY <1>1 DEF LoopSound
<1>3. PICK n : n = ChunkBytes OBVIOUS
<1>4. n \in 0..rw.left
  <2>1. rw.chunk * SECTOR_SIZE >= SECTOR_SIZE BY <1>1, <1>2, Sizes
  <2>2. rw.chunk * SECTOR_SIZE - rw.off \in Nat BY <1>2, <2>1, Sizes
  <2> QED BY <1>2, <1>3, <2>2 DEF ChunkBytes, Least
<1>5. PICK pos : pos = fd_pos[rw.f] + n OBVIOUS
<1>6. pos \in Nat BY <1>2, <1>4, <1>5 DEF FilesSound
<1>7. PICK r : r = [rw EXCEPT !.off = 0, !.i = rw.i + rw.chunk, !.left = rw.left - n,
                              !.bytes_rw = rw.bytes_rw + n]
  OBVIOUS
<1>8. LoopHead(r, pos) BY <1>3, <1>5, <1>7 DEF LoopEnd, LoopHead
<1>9. /\ r.f = rw.f /\ r.off = 0 /\ r.i = rw.i + rw.chunk /\ r.max = rw.max
      /\ r.chunk = rw.chunk /\ r.left = rw.left - n /\ r.len = rw.len
      /\ r.bytes_rw = rw.bytes_rw + n
      /\ r = [type |-> r.type, f |-> r.f, pos |-> r.pos, len |-> r.len, off |-> r.off,
              i |-> r.i, max |-> r.max, chunk |-> r.chunk, bytes_rw |-> r.bytes_rw,
              left |-> r.left]
  BY <1>1, <1>7 DEF RwRecord
<1>10. LoopSound(r) BY <1>2, <1>4, <1>9, Sizes DEF LoopSound
<1>11. \A f \in Files : f # r.f => fd_pos[f] <= i_size[f] BY <1>9 DEF FilesSound
<1> QED BY <1>1, <1>6, <1>8, <1>9, <1>10, <1>11, LoopHeadSound

\* The steps of FS that leave rw and the positions alone.
LEMMA FilesFs ==
    ASSUME FilesSound, ChannelSound, task_fs
    PROVE  FilesSound' /\ ChannelSound'
<1>1. 1 \in 1..FSBUF_SECTS BY Sizes
<1>2. CASE init_fs
  <2>1. FilesSound' BY <1>2, FilesFrame DEF init_fs, BootQuiet
  <2>2. rw_sector("DEV_OPEN", 0, 0) BY <1>2 DEF init_fs
  <2> QED BY <2>1, <2>2, Asked
<1>3. CASE mkfs_geo
  <2>1. FilesSound' BY <1>3, FilesFrame DEF mkfs_geo, BootQuiet, Replied
  <2>2. rw_sector("DEV_IOCTL", 0, 0) BY <1>3 DEF mkfs_geo
  <2> QED BY <2>1, <2>2, Asked
<1>4. CASE mkfs_super
  <2>1. FilesSound' BY <1>4, FilesFrame DEF mkfs_super, BootQuiet, Replied
  <2>2. rw_sector("DEV_WRITE", 1, 1) BY <1>4 DEF mkfs_super
  <2> QED BY <1>1, <2>1, <2>2, Asked
<1>5. CASE read_super_block
  <2>1. FilesSound' BY <1>5, FilesFrame DEF read_super_block, BootQuiet, Replied
  <2>2. rw_sector("DEV_READ", 1, 1) BY <1>5 DEF read_super_block
  <2> QED BY <1>1, <2>1, <2>2, Asked
<1>6. CASE get_super_block
  <2>1. FilesSound' BY <1>6, FilesFrame DEF get_super_block, BootQuiet, Replied
  <2>2. chan' = [chan EXCEPT !.st = "none"] BY <1>6 DEF get_super_block, NoMessage
  <2> QED BY <2>1, <2>2, NotAsked
<1>7. CASE CopyToUser BY <1>7, FilesLoopEnd DEF CopyToUser, Replied
<1>8. CASE CopyFromUser
  <2>1. /\ fs = "read" /\ fs' = "written" /\ UNCHANGED <<rw, i_size, fd_pos>>
        /\ rw_sector("DEV_WRITE", rw.i, rw.chunk)
    BY <1>8 DEF CopyFromUser, Replied
  <2>2. LoopSound(rw) /\ rw.chunk \in 1..FSBUF_SECTS
    BY <2>1, Sizes DEF FilesSound, LoopSound
  <2>3. RwRecord' BY <2>1 DEF FilesSound, RwRecord
  <2>4. LoopSound(rw)' BY <2>1, <2>2 DEF LoopSound
  <2>5. FilesSound' BY <2>1, <2>2, <2>3, <2>4 DEF FilesSound
  <2>6. PICK sect, cnt : sect = rw.i /\ cnt = rw.chunk OBVIOUS
  <2>7. rw_sector("DEV_WRITE", sect, cnt) BY <2>1, <2>6 DEF rw_sector
  <2> QED BY <2>2, <2>5, <2>6, <2>7, Asked
<1>9. CASE ChunkWritten BY <1>9, FilesLoopEnd DEF ChunkWritten, Replied
<1>10. CASE sync_inode
  <2>1. /\ fs = "sync" /\ fs' = "synced" /\ UNCHANGED <<rw, i_size, fd_pos>>
        /\ rw_sector("DEV_WRITE", InodeSect, 1)
    BY <1>10 DEF sync_inode, Replied
  <2>2. RwRecord' BY <2>1 DEF FilesSound, RwRecord
  <2>3. FilesSound' BY <2>1, <2>2 DEF FilesSound
  <2> QED BY <1>1, <2>1, <2>3, Asked
<1>11. CASE Synced
  <2>1. FilesSound' BY <1>11, FilesFrame DEF Synced, Replied
  <2>2. chan' = [chan EXCEPT !.st = "none"] BY <1>11 DEF Synced, NoMessage
  <2> QED BY <2>1, <2>2, NotAsked
<1> QED BY <1>2, <1>3, <1>4, <1>5, <1>6, <1>7, <1>8, <1>9, <1>10, <1>11 DEF task_fs

LEMMA ChannelFrame == ChannelSound /\ UNCHANGED chan => ChannelSound'
BY DEF ChannelSound

\* The steps of HD, of the drive and of the clock.
LEMMA DriverStep ==
    ASSUME DriverSound, ChannelSound, task_hd \/ controller \/ WaitforTimeout
    PROVE  DriverSound' /\ ChannelSound'
<1>1. CASE HdReceive
  <2>1. chan' = [chan EXCEPT !.st = "taken"] \/ \E geo : chan' = [chan EXCEPT !.st = "taken", !.geo = geo]
    BY <1>1, Zenon DEF HdReceive
  <2> QED BY <1>1, <2>1, NotAsked, DriverReceive
<1>2. CASE HdReply BY <1>2, NotAsked, DriverReply DEF HdReply
<1>3. CASE hd_cmd_out BY <1>3, DriverCmdOut, ChannelFrame DEF hd_cmd_out
<1>4. CASE hd_identify BY <1>4, DriverIdentify, ChannelFrame DEF hd_identify
<1>5. CASE PartitionPrimary
  <2>1. UNCHANGED chan BY <1>5, Zenon DEF PartitionPrimary
  <2> QED BY <1>5, <2>1, DriverPrimary, ChannelFrame
<1>6. CASE PartitionExtended
  <2>1. UNCHANGED chan BY <1>6, Zenon DEF PartitionExtended
  <2> QED BY <1>6, <2>1, DriverExtended, ChannelFrame
<1>7. CASE ReadSector BY <1>7, DriverRead, ChannelFrame DEF ReadSector
<1>8. CASE WriteSector BY <1>8, DriverWrite, ChannelFrame DEF WriteSector
<1>9. CASE SectorWritten BY <1>9, DriverWritten, ChannelFrame DEF SectorWritten
<1>10. CASE CtlReadReady BY <1>10, DriveReadReady, ChannelFrame DEF CtlReadReady
<1>11. CASE CtlWriteReady BY <1>11, DriveWriteReady, ChannelFrame DEF CtlWriteReady
<1>12. CASE CtlWriteDone BY <1>12, DriveWriteDone, ChannelFrame DEF CtlWriteDone
<1>13. CASE WaitforTimeout BY <1>13, DriverFrame, ChannelFrame DEF WaitforTimeout
<1> QED BY <1>1, <1>2, <1>3, <1>4, <1>5, <1>6, <1>7, <1>8, <1>9, <1>10, <1>11, <1>12, <1>13
        DEF task_hd, controller

-----------------------------------------------------------------------------
(* The theorems. *)

\* From the start of FS, through any requests, interrupts and timeouts, the
\* driver and the drive agree on what is under way (hd.c:148-194, 298-347), and
\* do_rdwt() keeps its positions in order (read_write.c:85-148).
THEOREM DiskInvariant == Spec => []DInv
<1>1. Init => DInv
  <2> SUFFICES ASSUME Init PROVE DInv OBVIOUS
  <2>1. DriverSound BY DriverInit DEF Init
  <2>2. PICK m : m = [type |-> "none", dev |-> 0, sect |-> 0, cnt |-> 0] OBVIOUS
  <2>3. chan = [st |-> "none", m |-> m, geo |-> NoPart] BY <2>2, Zenon DEF Init
  <2>4. ChannelSound BY <2>3 DEF ChannelSound
  <2>5. PICK g : g = CHOOSE f \in Files : TRUE OBVIOUS
  <2>6. rw = [type |-> "none", f |-> g, pos |-> 0, len |-> 0, off |-> 0, i |-> 0, max |-> 0,
              chunk |-> 0, bytes_rw |-> 0, left |-> 0]
    BY <2>5, Zenon DEF Init
  <2>7. RwRecord /\ rw.len = 0 /\ rw.bytes_rw = 0 BY <2>6 DEF RwRecord
  <2>8. fs = "boot" /\ i_size \in [Files -> Nat] /\ fd_pos = [f \in Files |-> 0]
    BY ReadWriteAssumption DEF Init
  <2>9. FilesSound BY <2>7, <2>8 DEF FilesSound
  <2> QED BY <2>1, <2>4, <2>9 DEF DInv
<1>2. DInv /\ [Next]_vars => DInv'
  <2> SUFFICES ASSUME DInv, [Next]_vars PROVE DInv' OBVIOUS
  <2>1. DriverSound /\ ChannelSound /\ FilesSound BY DEF DInv
  <2>2. CASE \E f \in Files, type \in {"READ", "WRITE"}, len \in Lens : do_rdwt(f, type, len)
    <3>1. PICK f \in Files, type \in {"READ", "WRITE"}, len \in Lens : do_rdwt(f, type, len)
      BY <2>2
    <3>2. UNCHANGED <<ctl, has_int_msg, hd>> BY <3>1 DEF do_rdwt, HdQuiet
    <3> QED BY <2>1, <3>1, <3>2, FilesRequest, DriverFrame DEF DInv
  <2>3. CASE task_fs
    <3>1. UNCHANGED <<ctl, has_int_msg, hd>>
      BY <2>3 DEF task_fs, init_fs, mkfs_geo, mkfs_super, read_super_block, get_super_block,
                  CopyToUser, CopyFromUser, ChunkWritten, sync_inode, Synced, HdQuiet
    <3> QED BY <2>1, <2>3, <3>1, FilesFs, DriverFrame DEF DInv
  <2>4. CASE (task_hd \/ controller \/ WaitforTimeout) /\ UNCHANGED fsVars
    BY <2>1, <2>4, DriverStep, FilesFrame DEF DInv, fsVars
  <2>5. CASE UNCHANGED vars
    <3>1. UNCHANGED <<ctl, has_int_msg, hd, chan>> BY <2>5 DEF vars, hdVars
    <3>2. UNCHANGED <<rw, i_size, fd_pos, fs>> BY <2>5 DEF vars, fsVars
    <3> QED BY <2>1, <3>1, <3>2, DriverFrame, ChannelFrame, FilesFrame DEF DInv
  <2> QED BY <2>2, <2>3, <2>4, <2>5 DEF Next
<1> QED BY <1>1, <1>2, PTL DEF Spec

\* Whatever the size of fsbuf and of the count register, the number of
\* interrupts of a request is the number HD waits for: back at RECEIVE ANY
\* none is left over that would make the driver spin (hd.c:74-77).
THEOREM NoInterruptLeftOver == Spec => []NoStrayInterrupt
<1>1. DInv => NoStrayInterrupt
  BY DEF DInv, DriverSound, NoStrayInterrupt, Quiet, TablePcs
<1> QED BY <1>1, DiskInvariant, PTL

\* do_rdwt() moves no more bytes than it was asked for, however a request is
\* cut into chunks, and when it has answered no position is behind the end of
\* its file (read_write.c:85-148).
THEOREM PositionsSound ==
    Spec => [](/\ rw.bytes_rw <= rw.len
               /\ fs = "idle" => \A f \in Files : fd_pos[f] <= i_size[f])
<1>1. DInv => /\ rw.bytes_rw <= rw.len
              /\ fs = "idle" => \A f \in Files : fd_pos[f] <= i_size[f]
  BY DEF DInv, FilesSound
<1> QED BY <1>1, DiskInvariant, PTL

-----------------------------------------------------------------------------
(* The bytes that are moved. *)

\* Where the root device is.
Root == LogicalAt(ROOT_DEV)

\* The first byte of sector s of the root device on the drive.
At(s) == (Root.base + s) * SECTOR_SIZE

\* The bytes of the drive, and those of fsbuf.
Drive == 0..(NSECTS * SECTOR_SIZE - 1)
Buffer == 0..(FSBUF_SECTS * SECTOR_SIZE - 1)

\* X has a byte for every place of the drive.
OnDrive(X) == X = [b \in Drive |-> X[b]]

\* What FS has asked for in each of its states.
FsAsks ==
    /\ \/ fs \in {"boot", "idle"} /\ chan.st = "none"
       \/ /\ fs \in {"opened", "geo", "made", "loaded", "read", "written", "sync", "synced"}
          /\ chan.st \in {"request", "taken", "replied"} /\ chan.m.dev = ROOT_DEV
    /\ fs = "opened" => chan.m.type = "DEV_OPEN"
    /\ fs = "geo" => chan.m.type = "DEV_IOCTL"
    /\ fs \in {"loaded", "read", "sync"} => chan.m.type = "DEV_READ"
    /\ fs \in {"made", "written", "synced"} => chan.m.type = "DEV_WRITE"
    /\ fs \in {"made", "loaded"} => chan.m.sect = 1 /\ chan.m.cnt = 1
    /\ fs \in {"read", "written"} => chan.m.sect = rw.i /\ chan.m.cnt = rw.chunk
    /\ fs \in {"sync", "synced"} => chan.m.sect = InodeSect /\ chan.m.cnt = 1

\* Where the task is, or will be once its command is out.
HdAt == IF hd.pc = "cmd" THEN hd.then ELSE hd.pc

\* The task is busy exactly while it has a request, and at a place that serves it.
HdServes ==
    /\ chan.st = "taken" <=> hd.pc # "recv"
    /\ chan.st = "taken" =>
         /\ chan.m.type = "DEV_OPEN" => HdAt \in TablePcs \cup {"reply"}
         /\ chan.m.type = "DEV_IOCTL" => HdAt = "reply"
         /\ chan.m.type = "DEV_READ" => HdAt \in {"read", "reply"}
         /\ chan.m.type = "DEV_WRITE" => HdAt \in {"drq", "wint", "reply"}

\* The extended partition the root device is in, and its place there.
RootExt == (ROOT_DEV \div NR_SUB) + 1
RootNth == ROOT_DEV % NR_SUB
RootChain == TableChain(PartTbl[0][RootExt].start)

\* The task has found the root device.
RootKnown == hd_info.logical[ROOT_DEV] = Root

\* What hd_info holds while the drive is opened, and from then on.
TablesSound ==
    /\ hd_info = [open_cnt |-> hd_info.open_cnt, primary |-> hd_info.primary,
                  logical |-> hd_info.logical]
    /\ DOMAIN hd_info.primary = 0..4
    /\ DOMAIN hd_info.logical = 0..(4 * NR_SUB - 1)
    /\ fs = "boot" \/ (fs = "opened" /\ chan.st = "request") => hd_info.open_cnt = 0
    /\ fs \notin {"boot", "opened"} => RootKnown
    /\ fs = "opened" /\ chan.st = "replied" => RootKnown
    /\ fs = "opened" /\ chan.st = "taken" =>
         /\ HdAt = "ident" => hd_info.open_cnt = 0
         /\ HdAt = "reply" => RootKnown
         /\ HdAt = "ebr" =>
              /\ hd.todo \in (SUBSET (1..4)) \ {{}}
              /\ hd_info.primary[RootExt].base = PartTbl[0][RootExt].start
              /\ hd.sub \in 0..(NR_SUB - 1)
              /\ RootExt \notin hd.todo => RootKnown
              /\ RootExt = Min(hd.todo) =>
                   IF hd.sub <= RootNth THEN hd.s = RootChain[hd.sub] ELSE RootKnown
    /\ fs = "geo" /\ chan.st \in {"taken", "replied"} => chan.geo = Root

\* The first n bytes of fsbuf are those of D from the sector asked for on.
Copied(D, sect, n) == \A x \in 0..(n - 1) : fsbuf[x] = D[At(sect) + x]

\* The disk is D with the first n bytes of fsbuf from the sector asked for on.
Stored(D, sect, n) ==
    disk = [b \in Drive |-> IF b \in At(sect)..(At(sect) + n - 1) THEN fsbuf[b - At(sect)]
                            ELSE D[b]]

\* The transfer has come to sector number lba, n bytes from its start.
Reached(lba, n) == lba \in Int /\ lba * SECTOR_SIZE = At(chan.m.sect) + n

\* How far the transfer has come, and where the drive is in it.
Progress ==
    /\ hd.la \in Nat /\ hd.la + hd.left * SECTOR_SIZE = chan.m.cnt * SECTOR_SIZE
    /\ hd.pc = "cmd" => Reached(hd.cmd.lba, hd.la)
    /\ hd.pc \in {"read", "drq"} /\ ctl.op # "none" => Reached(ctl.lba, hd.la)
    /\ hd.pc = "reply" => hd.left = 0

\* A sector is with the drive, or has been stored.
Handed(D) ==
    \/ /\ ~has_int_msg /\ Reached(ctl.lba, hd.la) /\ Stored(D, chan.m.sect, hd.la)
       /\ \A x \in 1..SECTOR_SIZE : ctl.buf[x] = fsbuf[hd.la + x - 1]
    \/ /\ has_int_msg /\ Stored(D, chan.m.sect, hd.la + SECTOR_SIZE)
       /\ ctl.op # "none" => Reached(ctl.lba, hd.la + SECTOR_SIZE)

\* D is the disk when the request under way was sent: what has been moved since
\* is the beginning of what the request asks for.
DataSound(D) ==
    /\ OnDrive(D) /\ DOMAIN fsbuf = Buffer
    /\ chan.st \in {"none", "request"} => disk = D
    /\ chan.m.type \in {"DEV_OPEN", "DEV_IOCTL", "DEV_READ"} => disk = D
    /\ chan.st = "taken" /\ chan.m.type = "DEV_READ" =>
         Progress /\ Copied(D, chan.m.sect, hd.la)
    /\ chan.st = "taken" /\ chan.m.type = "DEV_WRITE" =>
         /\ Progress
         /\ hd.pc # "wint" => Stored(D, chan.m.sect, hd.la)
         /\ hd.pc = "wint" => Handed(D)
    /\ chan.st = "replied" /\ chan.m.type = "DEV_READ" =>
         Copied(D, chan.m.sect, chan.m.cnt * SECTOR_SIZE)
    /\ chan.st = "replied" /\ chan.m.type = "DEV_WRITE" =>
         Stored(D, chan.m.sect, chan.m.cnt * SECTOR_SIZE)

-----------------------------------------------------------------------------
\* The end of what the request may touch (pos_end).
PosEnd(r, bf) == Least(r.pos + r.len, IF r.type = "READ" THEN bf.size
                                      ELSE NrSects[r.f] * SECTOR_SIZE)

\* So far exactly the first bytes_rw bytes of the request have been moved.
Moved(D, r, u, bf) ==
    /\ r.f \in Files \ ReadOnly /\ r.type \in {"READ", "WRITE"}
    /\ r.pos \in Nat /\ r.len \in Nat /\ r.bytes_rw \in 0..r.len
    /\ bf.size \in Nat
    /\ DOMAIN u = 0..(r.len - 1)
    /\ r.type = "READ" => /\ D = bf.disk
                          /\ \A k \in 0..(r.bytes_rw - 1) : u[k] = D[ByteOf(r.f, r.pos + k)]
    /\ r.type = "WRITE" =>
         /\ D = [b \in Drive |->
                   IF b \in ByteOf(r.f, r.pos)..(ByteOf(r.f, r.pos + r.bytes_rw) - 1)
                   THEN UserByte(b - ByteOf(r.f, r.pos)) ELSE bf.disk[b]]
         /\ \/ r.bytes_rw = 0
            \/ r.pos + r.bytes_rw <= (NrSects[r.f] + FSBUF_SECTS) * SECTOR_SIZE

\* The chunk the loop is at begins with the next byte of the request.
InStep(r) ==
    /\ r.off \in Nat /\ r.i \in Int
    /\ (r.i - Start[r.f]) * SECTOR_SIZE + r.off = r.pos + r.bytes_rw

\* The loop runs to the end of the request; at its end all is moved that fits.
Ending(r, bf) ==
    /\ r.max = Start[r.f] + (PosEnd(r, bf) \div SECTOR_SIZE)
    /\ r.i <= r.max => InStep(r)
    /\ (r.i > r.max /\ PosEnd(r, bf) = r.pos + r.len) => r.bytes_rw = r.len

\* What FS has in its variables and in fsbuf, in each of its states, when D is
\* the disk its last message found.
FsData(D) ==
    /\ fs \in {"boot", "opened", "geo", "made", "loaded"} => nreq = 0
    /\ fs = "made" => fsbuf[1] = Root.size
    /\ fs = "loaded" => D[At(1) + 1] = Root.size
    /\ fs \in {"idle", "read", "written", "sync", "synced"} =>
         sb = [dev |-> "ROOT_DEV", nr_sects |-> Root.size]
    /\ fs \in {"read", "written", "sync", "synced"} =>
         /\ Moved(D, rw, ubuf, before) /\ Ending(rw, before)
         /\ fd_pos[rw.f] = rw.pos + rw.bytes_rw
         /\ OnDrive(before.disk)
    /\ fs \in {"read", "written"} => rw.i <= rw.max /\ i_size[rw.f] = before.size
    /\ fs = "written" =>
         /\ rw.type = "WRITE"
         /\ \A x \in 0..(rw.chunk * SECTOR_SIZE - 1) :
              fsbuf[x] = IF x \in rw.off..(rw.off + ChunkBytes - 1)
                         THEN UserByte(rw.bytes_rw + x - rw.off) ELSE D[At(rw.i) + x]
    /\ fs \in {"sync", "synced"} =>
         rw.i > rw.max /\ i_size[rw.f] = fd_pos[rw.f] /\ i_size[rw.f] > before.size
    /\ fs = "synced" =>
         \A x \in 0..(SECTOR_SIZE - 1) :
           fsbuf[x] = IF x = INode[rw.f] THEN i_size[rw.f] ELSE D[At(InodeSect) + x]
    /\ fs = "idle" /\ nreq > 0 =>
         \/ rw.f \in ReadOnly /\ rw.bytes_rw = -1 /\ D = before.disk
         \/ rw.f \notin ReadOnly /\ (Fits => ExactTransfer) /\ ConfinedTransfer

\* The inductive invariant of the transfers.
TInv == FsAsks /\ HdServes /\ TablesSound /\ \E D : DataSound(D) /\ FsData(D)

-----------------------------------------------------------------------------
(* Arithmetic of sectors. *)

\* A number of bytes is one of sectors and an offset in the last of them.
LEMMA SectorAndOffset ==
    ASSUME NEW b \in Nat
    PROVE  /\ b \div SECTOR_SIZE \in Nat /\ b % SECTOR_SIZE \in 0..(SECTOR_SIZE - 1)
           /\ b = (b \div SECTOR_SIZE) * SECTOR_SIZE + (b % SECTOR_SIZE)
<1>1. SECTOR_SIZE \in Nat \ {0} BY Sizes
<1> QED BY <1>1

\* The sector a byte lies in.
LEMMA SectorOf ==
    ASSUME NEW b \in Nat, NEW l \in Int
    PROVE  /\ b \div SECTOR_SIZE = l <=> b \in l * SECTOR_SIZE .. l * SECTOR_SIZE + SECTOR_SIZE - 1
           /\ b \div SECTOR_SIZE = l => b % SECTOR_SIZE = b - l * SECTOR_SIZE
<1>1. PICK q, m : q = b \div SECTOR_SIZE /\ m = b % SECTOR_SIZE OBVIOUS
<1>2. q \in Int /\ m \in 0..(SECTOR_SIZE - 1) /\ b = q * SECTOR_SIZE + m
  BY <1>1, SectorAndOffset
<1>3. q = l => b \in l * SECTOR_SIZE .. l * SECTOR_SIZE + SECTOR_SIZE - 1 /\ m = b - l * SECTOR_SIZE
  BY <1>2, Sizes
<1>4. ASSUME b \in l * SECTOR_SIZE .. l * SECTOR_SIZE + SECTOR_SIZE - 1 PROVE q = l
  <2>1. l * SECTOR_SIZE \in Int /\ q * SECTOR_SIZE \in Int BY <1>2, Sizes
  <2>2. CASE q > l
    <3>1. (q - l - 1) * SECTOR_SIZE >= 0 BY <1>2, <2>2, Sizes
    <3>2. (q - l - 1) * SECTOR_SIZE = q * SECTOR_SIZE - l * SECTOR_SIZE - SECTOR_SIZE BY <1>2, Sizes
    <3> QED BY <1>2, <1>4, <2>1, <3>1, <3>2, Sizes
  <2>3. CASE q < l
    <3>1. (l - q - 1) * SECTOR_SIZE >= 0 BY <1>2, <2>3, Sizes
    <3>2. (l - q - 1) * SECTOR_SIZE = l * SECTOR_SIZE - q * SECTOR_SIZE - SECTOR_SIZE BY <1>2, Sizes
    <3> QED BY <1>2, <1>4, <2>1, <3>1, <3>2, Sizes
  <2> QED BY <1>2, <2>2, <2>3
<1> QED BY <1>1, <1>3, <1>4

\* Whole numbers of sectors.
LEMMA Sectors ==
    ASSUME NEW a \in Int, NEW b \in Int
    PROVE  /\ a * SECTOR_SIZE \in Int /\ b * SECTOR_SIZE \in Int
           /\ (a + b) * SECTOR_SIZE = a * SECTOR_SIZE + b * SECTOR_SIZE
           /\ (a - b) * SECTOR_SIZE = a * SECTOR_SIZE - b * SECTOR_SIZE
           /\ a <= b => a * SECTOR_SIZE <= b * SECTOR_SIZE
<1>1. a * SECTOR_SIZE \in Int /\ b * SECTOR_SIZE \in Int BY Sizes
<1>2. (a + b) * SECTOR_SIZE = a * SECTOR_SIZE + b * SECTOR_SIZE BY Sizes
<1>3. (a - b) * SECTOR_SIZE = a * SECTOR_SIZE - b * SECTOR_SIZE BY Sizes
<1>4. a <= b => a * SECTOR_SIZE <= b * SECTOR_SIZE
  <2>1. a <= b => (b - a) * SECTOR_SIZE >= 0 BY Sizes
  <2>2. (b - a) * SECTOR_SIZE = b * SECTOR_SIZE - a * SECTOR_SIZE BY Sizes
  <2> QED BY <1>1, <2>1, <2>2
<1> QED BY <1>1, <1>2, <1>3, <1>4

-----------------------------------------------------------------------------
(* The root device in the tables. *)

\* A set of natural numbers that is not empty has a least element.
LEMMA LeastNumber ==
    ASSUME NEW T \in SUBSET Nat, T # {}
    PROVE  \E x \in T : \A y \in T : x <= y
<1>1. PICK x \in T : \A y \in T : ~(<<y, x>> \in OpToRel(<, Nat))
  BY NatLessThanWellFounded, WFMin
<1>2. \A y \in T : ~(y < x) BY <1>1 DEF OpToRel
<1> QED BY <1>2

\* The partition the task is at is one that is left.
LEMMA FirstInTodo ==
    ASSUME NEW todo \in SUBSET (1..4), todo # {}
    PROVE  Min(todo) \in todo
<1>1. todo \in SUBSET Nat OBVIOUS
<1>2. \E d \in todo : \A e \in todo : d <= e BY <1>1, LeastNumber
<1> QED BY <1>2, Zenon DEF Min

\* The equation that defines the chain of tables, up to the n-th link.
Links(f, ext, n) ==
    f = [k \in 0..n |-> IF k = 0 THEN ext ELSE ext + PartTbl[f[k - 1]][2].start]

\* The equation, place by place.
LEMMA LinksPlaces ==
    ASSUME NEW f, NEW ext, NEW n \in Nat
    PROVE  Links(f, ext, n) <=>
             /\ f = [k \in 0..n |-> f[k]] /\ f[0] = ext
             /\ \A k \in 1..n : f[k] = ext + PartTbl[f[k - 1]][2].start
<1> DEFINE e(k) == IF k = 0 THEN ext ELSE ext + PartTbl[f[k - 1]][2].start
<1>1. Links(f, ext, n) <=> f = [k \in 0..n |-> e(k)] BY DEF Links
<1>2. e(0) = ext OBVIOUS
<1>3. \A k \in 1..n : e(k) = ext + PartTbl[f[k - 1]][2].start OBVIOUS
<1> HIDE DEF e
<1>4. f = [k \in 0..n |-> e(k)] <=> (f = [k \in 0..n |-> f[k]] /\ \A k \in 0..n : f[k] = e(k))
  OBVIOUS
<1>5. (\A k \in 0..n : f[k] = e(k)) <=> (f[0] = e(0) /\ \A k \in 1..n : f[k] = e(k))
  OBVIOUS
<1> QED BY <1>1, <1>2, <1>3, <1>4, <1>5

\* There is a chain of every length: one more table can be looked up.
LEMMA LinksExist ==
    ASSUME NEW ext, NEW n \in Nat
    PROVE  \E f : Links(f, ext, n)
<1> DEFINE T == {k \in Nat : ~\E f : Links(f, ext, k)}
<1>1. ASSUME T # {} PROVE FALSE
  <2>1. PICK k \in T : \A m \in T : k <= m BY <1>1, LeastNumber
  <2>2. k # 0
    <3>1. PICK f : f = [i \in 0..0 |-> ext] OBVIOUS
    <3>2. f = [i \in 0..0 |-> f[i]] /\ f[0] = ext /\ 0 \in Nat /\ 1..0 = {} BY <3>1
    <3>3. Links(f, ext, 0) BY <3>2, LinksPlaces
    <3> QED BY <2>1, <3>3
  <2>3. k \in Nat /\ k - 1 \in Nat /\ ~(k <= k - 1) BY <2>1, <2>2
  <2>4. PICK f : Links(f, ext, k - 1) BY <2>1, <2>3
  <2>5. /\ f[0] = ext
        /\ \A i \in 1..(k - 1) : f[i] = ext + PartTbl[f[i - 1]][2].start
    BY <2>3, <2>4, LinksPlaces
  <2>6. PICK last : last = ext + PartTbl[f[k - 1]][2].start OBVIOUS
  <2>7. PICK g : g = [i \in 0..k |-> IF i < k THEN f[i] ELSE last] OBVIOUS
  <2>8. g = [i \in 0..k |-> g[i]] /\ (\A i \in 0..(k - 1) : g[i] = f[i]) /\ g[k] = last
    BY <2>3, <2>7
  <2>9. ASSUME NEW i \in 1..k PROVE g[i] = ext + PartTbl[g[i - 1]][2].start
    <3>1. i - 1 \in 0..(k - 1) BY <2>3
    <3>2. CASE i = k BY <2>6, <2>8, <3>1, <3>2
    <3>3. CASE i # k
      <4>1. i \in 1..(k - 1) /\ i \in 0..(k - 1) BY <2>3, <3>3
      <4> QED BY <2>5, <2>8, <3>1, <4>1
    <3> QED BY <3>2, <3>3
  <2>10. g[0] = ext
    <3>1. 0 \in 0..(k - 1) BY <2>3
    <3> QED BY <2>5, <2>8, <3>1
  <2>11. Links(g, ext, k)
    <3>1. \A i \in 1..k : g[i] = ext + PartTbl[g[i - 1]][2].start BY <2>9
    <3>2. g = [i \in 0..k |-> g[i]] BY <2>8
    <3>3. k \in Nat BY <2>3
    <3>4. Links(g, ext, k) <=>
             /\ g = [i \in 0..k |-> g[i]] /\ g[0] = ext
             /\ \A i \in 1..k : g[i] = ext + PartTbl[g[i - 1]][2].start
      BY <3>3, LinksPlaces
    <3> QED BY <2>10, <3>1, <3>2, <3>4
  <2> QED BY <2>1, <2>11
<1> QED BY <1>1

\* TableChain is the chain: each table names the next one.
LEMMA ChainLinks ==
    ASSUME NEW ext
    PROVE  /\ TableChain(ext)[0] = ext
           /\ \A k \in 1..(NR_SUB - 1) :
                TableChain(ext)[k] = ext + PartTbl[TableChain(ext)[k - 1]][2].start
<1>1. NR_SUB - 1 \in Nat BY HdAssumption
<1>2. \E f : Links(f, ext, NR_SUB - 1) BY <1>1, LinksExist
<1>3. TableChain(ext) = CHOOSE f : Links(f, ext, NR_SUB - 1) BY DEF TableChain, Links
<1>4. Links(TableChain(ext), ext, NR_SUB - 1) BY <1>2, <1>3, Zenon
<1> QED BY <1>1, <1>4, LinksPlaces

\* Where the root device is: in the table of its extended partition that its
\* number names.
LEMMA RootLayout ==
    /\ RootExt \in 1..4 /\ RootNth \in 0..(NR_SUB - 1) /\ ROOT_DEV \in 0..(4 * NR_SUB - 1)
    /\ ROOT_DEV = (RootExt - 1) * NR_SUB + RootNth
    /\ PartTbl[0][RootExt].sys = "EXT_PART"
    /\ \A k \in 0..RootNth : RootChain[k] \in DOMAIN PartTbl
    /\ \A k \in 0..(RootNth - 1) : PartTbl[RootChain[k]][2].sys # "NO_PART"
    /\ Root = [base |-> RootChain[RootNth] + PartTbl[RootChain[RootNth]][1].start,
               size |-> PartTbl[RootChain[RootNth]][1].size]
    /\ Root.base \in Nat
<1>1. NR_SUB \in Nat \ {0} /\ ROOT_DEV \in 0..(4 * NR_SUB - 1) BY HdAssumption, LayoutAssumption
<1>2. PICK q, m : q = ROOT_DEV \div NR_SUB /\ m = ROOT_DEV % NR_SUB OBVIOUS
<1>3. q \in Int /\ m \in 0..(NR_SUB - 1) /\ ROOT_DEV = q * NR_SUB + m BY <1>1, <1>2
<1>4. q \in 0..3
  <2>1. q < 0 => (-q - 1) * NR_SUB >= 0 BY <1>1, <1>3
  <2>2. q > 3 => (q - 4) * NR_SUB >= 0 BY <1>1, <1>3
  <2>3. (-q - 1) * NR_SUB = -(q * NR_SUB) - NR_SUB /\ (q - 4) * NR_SUB = q * NR_SUB - 4 * NR_SUB
    BY <1>1, <1>3
  <2>4. q * NR_SUB \in Int BY <1>1, <1>3
  <2> QED BY <1>1, <1>3, <2>1, <2>2, <2>3, <2>4
<1>5. /\ RootExt \in 1..4 /\ RootNth \in 0..(NR_SUB - 1)
      /\ ROOT_DEV = (RootExt - 1) * NR_SUB + RootNth
  BY <1>1, <1>2, <1>3, <1>4 DEF RootExt, RootNth
<1>6. /\ PartTbl[0][RootExt].sys = "EXT_PART"
      /\ \A k \in 0..RootNth : RootChain[k] \in DOMAIN PartTbl
      /\ \A k \in 0..(RootNth - 1) : PartTbl[RootChain[k]][2].sys # "NO_PART"
  BY LayoutAssumption, Zenon DEF RootExt, RootNth, RootChain
<1>7. Root = [base |-> RootChain[RootNth] + PartTbl[RootChain[RootNth]][1].start,
              size |-> PartTbl[RootChain[RootNth]][1].size]
  BY Zenon DEF Root, LogicalAt, RootExt, RootNth, RootChain
<1>8. PICK s : s = RootChain[RootNth] OBVIOUS
<1>9. s \in DOMAIN PartTbl /\ s \in Nat /\ PartTbl[s][1].start \in Nat
  <2>1. RootNth \in 0..RootNth /\ 1 \in 1..4 BY <1>5
  <2>2. s \in DOMAIN PartTbl BY <1>6, <1>8, <2>1
  <2> QED BY <2>1, <2>2, HdAssumption
<1>10. Root.base \in Nat BY <1>7, <1>8, <1>9
<1> QED BY <1>1, <1>5, <1>6, <1>7, <1>10

\* The addresses of sectors.
LEMMA AtSector ==
    ASSUME NEW s \in Int
    PROVE  At(s) \in Int /\ \A k \in Int : At(s + k) = At(s) + k * SECTOR_SIZE
<1>1. Root.base \in Int BY RootLayout
<1>2. At(s) \in Int BY <1>1, Sizes DEF At
<1>3. ASSUME NEW k \in Int PROVE At(s + k) = At(s) + k * SECTOR_SIZE
  <2>1. PICK t : t = Root.base + s OBVIOUS
  <2>2. t \in Int /\ Root.base + (s + k) = t + k BY <1>1, <2>1
  <2>3. At(s) = t * SECTOR_SIZE /\ At(s + k) = (t + k) * SECTOR_SIZE BY <2>1, <2>2 DEF At
  <2>4. (t + k) * SECTOR_SIZE = t * SECTOR_SIZE + k * SECTOR_SIZE BY <2>2, Sectors
  <2> QED BY <2>3, <2>4
<1> QED BY <1>2, <1>3

-----------------------------------------------------------------------------
(* HD and the drive: what their steps leave alone. *)

\* HD takes a request and answers it; only FS asks.
LEMMA AsksFrame ==
    ASSUME FsAsks, UNCHANGED <<fs, rw>>, chan'.m = chan.m,
           \/ chan'.st = chan.st
           \/ chan.st \in {"request", "taken"} /\ chan'.st \in {"taken", "replied"}
    PROVE  FsAsks'
BY DEF FsAsks

\* The requests of FS.
LEMMA Requests ==
    ASSUME FsAsks, FilesSound, chan.st # "none"
    PROVE  /\ chan.m.dev = ROOT_DEV /\ fs \notin {"boot", "idle"}
           /\ \/ chan.m.type = "DEV_OPEN" /\ fs = "opened"
              \/ chan.m.type = "DEV_IOCTL" /\ fs = "geo"
              \/ /\ chan.m.type = "DEV_READ" /\ fs \in {"loaded", "read", "sync"}
                 /\ chan.m.cnt \in 1..FSBUF_SECTS /\ chan.m.sect \in Int
              \/ /\ chan.m.type = "DEV_WRITE" /\ fs \in {"made", "written", "synced"}
                 /\ chan.m.cnt \in 1..FSBUF_SECTS /\ chan.m.sect \in Int
<1>1. 1 \in 1..FSBUF_SECTS /\ InodeSect \in Int BY Sizes, LayoutAssumption, SMTT(20)
<1>2. fs \in {"read", "written"} => rw.chunk \in 1..FSBUF_SECTS /\ rw.i \in Int
  BY Sizes DEF FilesSound, LoopSound
<1> QED BY <1>1, <1>2 DEF FsAsks

\* What the place of the task says about the request.
LEMMA Serving ==
    ASSUME DriverSound, FsAsks, HdServes, FilesSound, hd.pc # "recv"
    PROVE  /\ chan.st = "taken" /\ fs \notin {"boot", "idle"}
           /\ HdAt \in TablePcs \cup {"read", "drq", "wint", "reply"}
           /\ HdAt \in TablePcs => chan.m.type = "DEV_OPEN" /\ fs = "opened"
           /\ HdAt = "read" => chan.m.type = "DEV_READ" /\ fs \notin {"opened", "geo"}
           /\ HdAt \in {"drq", "wint"} => chan.m.type = "DEV_WRITE" /\ fs \notin {"opened", "geo"}
           /\ HdAt \in {"read", "drq", "wint"} =>
                chan.m.cnt \in 1..FSBUF_SECTS /\ chan.m.sect \in Int
<1>1. chan.st = "taken" BY DEF HdServes
<1>2. HdAt \in TablePcs \cup {"read", "drq", "wint", "reply"}
  <2>1. CASE hd.pc = "cmd"
    <3>1. CmdSound BY <2>1 DEF DriverSound, TablePcs
    <3> QED BY <2>1, <3>1 DEF HdAt, CmdSound
  <2>2. CASE hd.pc # "cmd" BY <2>2 DEF HdAt, DriverSound
  <2> QED BY <2>1, <2>2
<1> QED BY <1>1, <1>2, Requests DEF HdServes, TablePcs

\* A step of the task that stays with its request.
LEMMA ServesFrame ==
    ASSUME HdServes, UNCHANGED chan, hd.pc # "recv", hd'.pc # "recv",
           HdAt' = HdAt \/ HdAt' = "reply" \/ (HdAt \in TablePcs /\ HdAt' \in TablePcs)
                        \/ (HdAt \in {"drq", "wint"} /\ HdAt' \in {"drq", "wint"})
    PROVE  HdServes'
BY DEF HdServes, TablePcs

\* The tables are read while FS opens the drive, and never again.
LEMMA TablesFrame ==
    ASSUME TablesSound, UNCHANGED <<fs, hd_info, chan>>,
           fs = "opened" => HdAt' = HdAt /\ hd'.todo = hd.todo /\ hd'.sub = hd.sub /\ hd'.s = hd.s
    PROVE  TablesSound'
<1>1. RootKnown' <=> RootKnown BY DEF RootKnown
<1>2. CASE fs = "opened"
  <2>1. UNCHANGED <<fs, hd_info, chan>> /\ HdAt' = HdAt /\ hd'.todo = hd.todo /\ hd'.sub = hd.sub
        /\ hd'.s = hd.s
    BY <1>2
  <2> QED BY <1>1, <1>2, <2>1 DEF TablesSound
<1>3. CASE fs # "opened" BY <1>1, <1>3 DEF TablesSound
<1> QED BY <1>2, <1>3

\* While the drive is opened or asked for its geometry, no data moves.
LEMMA DataFrame ==
    ASSUME NEW D, DataSound(D), UNCHANGED <<disk, fsbuf>>, chan'.m = chan.m,
           chan.m.type \in {"DEV_OPEN", "DEV_IOCTL"}
    PROVE  DataSound(D)'
BY DEF DataSound

\* While FS waits, what it has in its variables stays true.
LEMMA FsFrame ==
    ASSUME NEW D, FsData(D), UNCHANGED fsVars, fs # "idle" \/ UNCHANGED disk,
           fs \in {"made", "written", "synced"} => UNCHANGED fsbuf
    PROVE  FsData(D)'
<1>1. UNCHANGED <<fs, rw, i_size, fd_pos, ubuf, sb, before, nreq>> BY DEF fsVars
<1>2. CASE fs = "idle"
  <2>1. UNCHANGED disk BY <1>2
  <2>2. Fits' = Fits /\ ExactTransfer' = ExactTransfer /\ ConfinedTransfer' = ConfinedTransfer
    BY <1>1, <2>1 DEF Fits, ExactTransfer, ConfinedTransfer
  <2> QED BY <1>1, <1>2, <2>2 DEF FsData
<1>3. CASE fs # "idle"
  <2>1. ChunkBytes' = ChunkBytes BY <1>1 DEF ChunkBytes
  <2>2. Moved(D, rw, ubuf, before)' = Moved(D, rw, ubuf, before)
    BY <1>1 DEF Moved
  <2>3. Ending(rw, before)' = Ending(rw, before)
    BY <1>1 DEF Ending, InStep, PosEnd
  <2>4. CASE fs \in {"made", "written", "synced"}
    BY <1>1, <1>3, <2>1, <2>2, <2>3, <2>4 DEF FsData
  <2>5. CASE fs \notin {"made", "written", "synced"}
    BY <1>1, <1>3, <2>2, <2>3, <2>5 DEF FsData
  <2> QED BY <2>4, <2>5
<1> QED BY <1>2, <1>3

-----------------------------------------------------------------------------
(* hd_open(): the tables. *)

\* The state the steps of HD and of the drive keep.
ServiceSound(D) == HdServes /\ TablesSound /\ DataSound(D)

\* hd_identify(): the drive opens for the first time.
LEMMA IdentifyTables ==
    ASSUME NEW D, DriverSound, FsAsks, FilesSound, ServiceSound(D), UNCHANGED fs, hd_identify
    PROVE  ServiceSound(D)'
<1>1. hd.pc = "ident" /\ HdAt = "ident" /\ hd.pc # "recv" /\ HdAt \in TablePcs
  BY DEF hd_identify, HdAt, TablePcs
<1>2. chan.st = "taken" /\ chan.m.type = "DEV_OPEN" /\ fs = "opened"
  BY <1>1, Serving DEF ServiceSound
<1>3. UNCHANGED <<disk, chan, fsbuf>> /\ HdRecord BY DEF hd_identify, DriverSound
<1>4. hd_info.open_cnt = 0 BY <1>1, <1>2 DEF ServiceSound, TablesSound
<1>5. hd' = Command("read", 0, 1, "mbr") BY <1>4 DEF hd_identify
<1>6. hd'.pc = "cmd" /\ hd'.then = "mbr" BY <1>3, <1>5 DEF HdRecord, Command
<1>7. HdAt' = "mbr" BY <1>6 DEF HdAt
<1>8. PICK part : hd_info' = [hd_info EXCEPT !.primary[0] = part, !.open_cnt = @ + 1]
  BY DEF hd_identify
<1>9. TablesSound'
  <2>1. /\ hd_info = [open_cnt |-> hd_info.open_cnt, primary |-> hd_info.primary,
                      logical |-> hd_info.logical]
        /\ DOMAIN hd_info.primary = 0..4 /\ DOMAIN hd_info.logical = 0..(4 * NR_SUB - 1)
    BY DEF ServiceSound, TablesSound
  <2>2. /\ hd_info' = [open_cnt |-> hd_info'.open_cnt, primary |-> hd_info'.primary,
                       logical |-> hd_info'.logical]
        /\ DOMAIN hd_info'.primary = 0..4 /\ hd_info'.logical = hd_info.logical
    BY <1>8, <2>1
  <2> QED BY <1>2, <1>3, <1>7, <2>1, <2>2 DEF TablesSound
<1>10. HdServes' BY <1>1, <1>3, <1>6, <1>7, ServesFrame DEF ServiceSound, TablePcs
<1>11. DataSound(D)' BY <1>2, <1>3, DataFrame DEF ServiceSound
<1> QED BY <1>9, <1>10, <1>11 DEF ServiceSound

\* Either the next extended partition is begun, or the drive is open.
LEMMA NextPartition ==
    ASSUME HdRecord, NEW todo \in SUBSET (1..4), NEW info, hd' = get_part_table(todo, info)
    PROVE  /\ hd'.pc # "recv" /\ HdAt' = IF todo = {} THEN "reply" ELSE "ebr"
           /\ hd'.todo = todo
           /\ todo # {} => hd'.sub = 0 /\ hd'.s = info.primary[Min(todo)].base
<1>1. CASE todo = {}
  <2>1. hd' = [hd EXCEPT !.pc = "reply", !.todo = todo] BY <1>1 DEF get_part_table
  <2>2. hd'.pc = "reply" /\ hd'.todo = todo BY <2>1 DEF HdRecord
  <2> QED BY <1>1, <2>2 DEF HdAt
<1>2. CASE todo # {}
  <2>1. PICK start : /\ start = info.primary[Min(todo)].base
                     /\ hd' = [Command("read", start, 1, "ebr") EXCEPT !.todo = todo, !.sub = 0,
                                                                       !.s = start]
    BY <1>2, Zenon DEF get_part_table
  <2>2. hd'.pc = "cmd" /\ hd'.then = "ebr" /\ hd'.todo = todo /\ hd'.sub = 0 /\ hd'.s = start
    BY <2>1 DEF HdRecord, Command
  <2> QED BY <1>2, <2>1, <2>2 DEF HdAt
<1> QED BY <1>1, <1>2

\* The primary table names the extended partition of the root device.
LEMMA PrimaryTables ==
    ASSUME NEW D, DriverSound, FsAsks, FilesSound, ServiceSound(D), UNCHANGED fs, PartitionPrimary
    PROVE  ServiceSound(D)'
<1>1. hd.pc = "mbr" /\ HdAt = "mbr" /\ hd.pc # "recv" /\ HdAt \in TablePcs
  BY DEF PartitionPrimary, HdAt, TablePcs
<1>2. chan.st = "taken" /\ chan.m.type = "DEV_OPEN" /\ fs = "opened"
  BY <1>1, Serving DEF ServiceSound
<1>3. UNCHANGED <<disk, chan, fsbuf>> /\ HdRecord
  BY Zenon DEF PartitionPrimary, DriverSound
<1>4. PICK tbl : tbl = PartTbl[0] OBVIOUS
<1>5. TableAt(0) = tbl BY <1>4, HdAssumption DEF TableAt
<1>6. PICK used, todo, info :
        /\ used = {i \in 1..4 : tbl[i].sys # "NO_PART"}
        /\ todo = {d \in 1..4 : tbl[d].sys = "EXT_PART"}
        /\ info = [hd_info EXCEPT !.primary =
                     [d \in 0..4 |-> IF d \in used
                                     THEN [base |-> tbl[d].start, size |-> tbl[d].size]
                                     ELSE @[d]]]
        /\ hd_info' = info /\ hd' = get_part_table(todo, info)
  BY <1>5, Zenon DEF PartitionPrimary
<1>7. RootExt \in used /\ RootExt \in todo /\ todo \in SUBSET (1..4) /\ RootExt \in 0..4
  BY <1>4, <1>6, RootLayout
<1>8. PICK primary : primary = [d \in 0..4 |-> IF d \in used
                                               THEN [base |-> tbl[d].start, size |-> tbl[d].size]
                                               ELSE hd_info.primary[d]]
  OBVIOUS
<1>9. DOMAIN primary = 0..4 /\ primary[RootExt].base = tbl[RootExt].start BY <1>7, <1>8
<1>10. info = [hd_info EXCEPT !.primary = primary] BY <1>6, <1>8
<1>11. /\ hd_info = [open_cnt |-> hd_info.open_cnt, primary |-> hd_info.primary,
                     logical |-> hd_info.logical]
       /\ DOMAIN hd_info.logical = 0..(4 * NR_SUB - 1)
  BY DEF ServiceSound, TablesSound
<1>12. /\ hd_info' = [open_cnt |-> hd_info'.open_cnt, primary |-> hd_info'.primary,
                      logical |-> hd_info'.logical]
       /\ hd_info'.primary = primary /\ hd_info'.logical = hd_info.logical /\ info.primary = primary
  BY <1>6, <1>10, <1>11
<1>13. /\ hd'.pc # "recv" /\ HdAt' = "ebr" /\ hd'.todo = todo
       /\ hd'.sub = 0 /\ hd'.s = primary[Min(todo)].base
  <2>1. hd' = get_part_table(todo, info) BY <1>6, Zenon
  <2> QED BY <1>3, <1>7, <1>12, <2>1, NextPartition
<1>14. RootChain[0] = PartTbl[0][RootExt].start BY ChainLinks DEF RootChain
<1>15. 0 \in 0..(NR_SUB - 1) /\ 0 <= RootNth BY HdAssumption, RootLayout
<1>16. RootExt = Min(hd'.todo) =>
          IF hd'.sub <= RootNth THEN hd'.s = RootChain[hd'.sub] ELSE RootKnown'
  BY <1>4, <1>9, <1>13, <1>14, <1>15
<1>17. TablesSound'
  <2>1. hd'.todo \in (SUBSET (1..4)) \ {{}} /\ RootExt \in hd'.todo BY <1>7, <1>13
  <2>2. hd_info'.primary[RootExt].base = PartTbl[0][RootExt].start BY <1>4, <1>9, <1>12
  <2>3. hd'.sub \in 0..(NR_SUB - 1) BY <1>13, <1>15
  <2> QED BY <1>2, <1>3, <1>9, <1>11, <1>12, <1>13, <1>16, <2>1, <2>2, <2>3 DEF TablesSound
<1>18. HdServes' BY <1>1, <1>3, <1>13, ServesFrame DEF ServiceSound, TablePcs
<1>19. DataSound(D)' BY <1>2, <1>3, DataFrame DEF ServiceSound
<1> QED BY <1>17, <1>18, <1>19 DEF ServiceSound

\* Every place of hd_info.logical belongs to one link of one chain.
LEMMA LogicalIndex ==
    ASSUME NEW c \in 1..4, NEW sub \in 0..(NR_SUB - 1)
    PROVE  (c - 1) * NR_SUB + sub = ROOT_DEV <=> c = RootExt /\ sub = RootNth
<1>1. /\ NR_SUB \in Nat \ {0} /\ RootExt \in 1..4 /\ RootNth \in 0..(NR_SUB - 1)
      /\ ROOT_DEV = (RootExt - 1) * NR_SUB + RootNth
  BY HdAssumption, RootLayout
<1>2. PICK e, n : e = RootExt /\ n = RootNth OBVIOUS
<1>3. (c - 1) * NR_SUB = c * NR_SUB - NR_SUB /\ (e - 1) * NR_SUB = e * NR_SUB - NR_SUB
  BY <1>1, <1>2
<1>4. c < e => (e - c - 1) * NR_SUB >= 0 BY <1>1, <1>2
<1>5. c > e => (c - e - 1) * NR_SUB >= 0 BY <1>1, <1>2
<1>6. /\ (e - c - 1) * NR_SUB = e * NR_SUB - c * NR_SUB - NR_SUB
      /\ (c - e - 1) * NR_SUB = c * NR_SUB - e * NR_SUB - NR_SUB
  BY <1>1, <1>2
<1>7. c * NR_SUB \in Int /\ e * NR_SUB \in Int BY <1>1, <1>2
<1> QED BY <1>1, <1>2, <1>3, <1>4, <1>5, <1>6, <1>7

\* A link of the chain: the root device is found in its turn, and stays found.
LEMMA ExtendedTables ==
    ASSUME NEW D, DriverSound, FsAsks, FilesSound, ServiceSound(D), UNCHANGED fs, PartitionExtended
    PROVE  ServiceSound(D)'
<1>1. hd.pc = "ebr" /\ HdAt = "ebr" /\ hd.pc # "recv" /\ HdAt \in TablePcs
  BY DEF PartitionExtended, HdAt, TablePcs
<1>2. chan.st = "taken" /\ chan.m.type = "DEV_OPEN" /\ fs = "opened"
  BY <1>1, Serving DEF ServiceSound
<1>3. UNCHANGED <<disk, chan, fsbuf>> /\ HdRecord
  BY Zenon DEF PartitionExtended, DriverSound
<1>4. PICK c, sub, s, todo : c = Min(hd.todo) /\ sub = hd.sub /\ s = hd.s /\ todo = hd.todo
  OBVIOUS
<1>5. /\ todo \in SUBSET (1..4) /\ todo # {}
      /\ hd_info.primary[RootExt].base = PartTbl[0][RootExt].start
      /\ sub \in 0..(NR_SUB - 1)
      /\ RootExt \notin todo => RootKnown
      /\ RootExt = c => IF sub <= RootNth THEN s = RootChain[sub] ELSE RootKnown
  BY <1>1, <1>2, <1>4 DEF ServiceSound, TablesSound
<1>6. c \in todo /\ c \in 1..4 BY <1>4, <1>5, FirstInTodo
<1>7. PICK tbl, next, part, idx :
        /\ tbl = TableAt(s) /\ next = hd_info.primary[c].base + tbl[2].start
        /\ part = [base |-> s + tbl[1].start, size |-> tbl[1].size]
        /\ idx = (c - 1) * NR_SUB + sub
        /\ hd_info' = [hd_info EXCEPT !.logical[idx] = part]
        /\ hd' = IF tbl[2].sys = "NO_PART" \/ sub + 1 = NR_SUB
                 THEN get_part_table(todo \ {c}, hd_info)
                 ELSE [Command("read", next, 1, "ebr") EXCEPT !.s = next, !.sub = @ + 1]
  BY <1>4, Zenon DEF PartitionExtended, NextTable
<1>8. /\ hd_info = [open_cnt |-> hd_info.open_cnt, primary |-> hd_info.primary,
                    logical |-> hd_info.logical]
      /\ DOMAIN hd_info.primary = 0..4 /\ DOMAIN hd_info.logical = 0..(4 * NR_SUB - 1)
  BY DEF ServiceSound, TablesSound
<1>9. /\ hd_info' = [open_cnt |-> hd_info'.open_cnt, primary |-> hd_info'.primary,
                     logical |-> hd_info'.logical]
      /\ hd_info'.primary = hd_info.primary /\ DOMAIN hd_info'.logical = 0..(4 * NR_SUB - 1)
      /\ hd_info'.logical = [hd_info.logical EXCEPT ![idx] = part]
  <2>1. PICK logical : logical = [hd_info.logical EXCEPT ![idx] = part] OBVIOUS
  <2>2. hd_info' = [hd_info EXCEPT !.logical = logical] BY <1>7, <2>1
  <2>3. DOMAIN logical = 0..(4 * NR_SUB - 1) BY <1>8, <2>1
  <2> QED BY <1>8, <2>1, <2>2, <2>3

\* The root device is found at its place in the chain, and stays found.
<1>10. idx = ROOT_DEV <=> c = RootExt /\ sub = RootNth BY <1>5, <1>6, <1>7, LogicalIndex
<1>11. RootExt \in 1..4 /\ RootNth \in 0..(NR_SUB - 1) /\ ROOT_DEV \in 0..(4 * NR_SUB - 1)
  BY RootLayout
<1>12. c = RootExt /\ sub <= RootNth => s = RootChain[sub] /\ tbl = PartTbl[s]
  <2> SUFFICES ASSUME c = RootExt, sub <= RootNth PROVE s = RootChain[sub] /\ tbl = PartTbl[s]
    OBVIOUS
  <2>1. sub \in 0..RootNth BY <1>5, <1>11
  <2>2. s = RootChain[sub] /\ s \in DOMAIN PartTbl BY <1>5, <2>1, RootLayout
  <2> QED BY <1>7, <2>2 DEF TableAt
<1>13. c = RootExt /\ sub = RootNth => RootKnown'
  <2> SUFFICES ASSUME c = RootExt, sub = RootNth PROVE RootKnown' OBVIOUS
  <2>1. part = Root BY <1>7, <1>11, <1>12, RootLayout
  <2>2. hd_info'.logical[ROOT_DEV] = part BY <1>8, <1>9, <1>10, <1>11
  <2> QED BY <2>1, <2>2 DEF RootKnown
<1>14. RootKnown => RootKnown'
  <2>1. CASE idx = ROOT_DEV BY <1>10, <1>13, <2>1
  <2>2. CASE idx # ROOT_DEV BY <1>8, <1>9, <1>11, <2>2 DEF RootKnown
  <2> QED BY <2>1, <2>2
<1>15. CASE tbl[2].sys = "NO_PART" \/ sub + 1 = NR_SUB
  <2>1. PICK rest : rest = todo \ {c} OBVIOUS
  <2>2. rest \in SUBSET (1..4) BY <1>5, <2>1
  <2>3. hd' = get_part_table(rest, hd_info) BY <1>7, <1>15, <2>1
  <2>4. /\ hd'.pc # "recv" /\ HdAt' = IF rest = {} THEN "reply" ELSE "ebr"
        /\ hd'.todo = rest
        /\ rest # {} => hd'.sub = 0 /\ hd'.s = hd_info.primary[Min(rest)].base
    BY <1>3, <2>2, <2>3, NextPartition
  <2>5. RootExt \notin rest => RootKnown'
    <3>1. CASE RootExt \notin todo BY <1>5, <1>14, <3>1
    <3>2. CASE c = RootExt
      <4>1. CASE sub > RootNth BY <1>5, <1>11, <1>14, <3>2, <4>1
      <4>2. CASE sub = RootNth BY <1>13, <3>2, <4>2
      <4>3. CASE sub < RootNth
        <5>1. tbl[2].sys # "NO_PART"
          <6>1. sub \in 0..(RootNth - 1) BY <1>5, <1>11, <4>3
          <6> QED BY <1>11, <1>12, <3>2, <4>3, <6>1, RootLayout
        <5>2. sub + 1 # NR_SUB BY <1>5, <1>11, <4>3, HdAssumption
        <5> QED BY <1>15, <5>1, <5>2
      <4> QED BY <1>5, <1>11, <4>1, <4>2, <4>3
    <3> QED BY <2>1, <3>1, <3>2
  <2>6. ASSUME rest # {}, RootExt = Min(rest) PROVE hd'.s = RootChain[0] /\ 0 <= RootNth
    BY <1>5, <1>11, <2>4, <2>6, ChainLinks DEF RootChain
  <2>7. TablesSound'
    <3>1. CASE rest = {}
      <4>1. HdAt' = "reply" /\ RootKnown' BY <2>4, <2>5, <3>1
      <4> QED BY <1>2, <1>3, <1>8, <1>9, <4>1 DEF TablesSound
    <3>2. CASE rest # {}
      <4>1. HdAt' = "ebr" /\ hd'.todo = rest /\ hd'.sub = 0 BY <2>4, <3>2
      <4>2. hd'.todo \in (SUBSET (1..4)) \ {{}} BY <2>2, <3>2, <4>1
      <4>3. hd'.sub \in 0..(NR_SUB - 1) BY <4>1, HdAssumption
      <4>4. hd_info'.primary[RootExt].base = PartTbl[0][RootExt].start BY <1>5, <1>9
      <4>5. RootExt \notin hd'.todo => RootKnown' BY <2>5, <4>1
      <4>6. RootExt = Min(hd'.todo) =>
              IF hd'.sub <= RootNth THEN hd'.s = RootChain[hd'.sub] ELSE RootKnown'
        BY <2>6, <3>2, <4>1
      <4> QED BY <1>2, <1>3, <1>8, <1>9, <4>1, <4>2, <4>3, <4>4, <4>5, <4>6 DEF TablesSound
    <3> QED BY <3>1, <3>2
  <2>8. HdServes' BY <1>1, <1>3, <2>4, ServesFrame DEF ServiceSound, TablePcs
  <2> QED BY <1>2, <1>3, <2>7, <2>8, DataFrame DEF ServiceSound
<1>16. CASE ~(tbl[2].sys = "NO_PART" \/ sub + 1 = NR_SUB)
  <2>1. hd' = [Command("read", next, 1, "ebr") EXCEPT !.s = next, !.sub = @ + 1] BY <1>7, <1>16
  <2>2. /\ hd'.pc = "cmd" /\ hd'.then = "ebr" /\ hd'.s = next /\ hd'.sub = sub + 1
        /\ hd'.todo = todo
    BY <1>3, <1>4, <2>1 DEF HdRecord, Command
  <2>3. HdAt' = "ebr" BY <2>2 DEF HdAt
  <2>4. sub + 1 \in 1..(NR_SUB - 1) BY <1>5, <1>16, HdAssumption
  <2>5. ASSUME RootExt = c
        PROVE  IF sub + 1 <= RootNth THEN next = RootChain[sub + 1] ELSE RootKnown'
    <3>1. CASE sub + 1 <= RootNth
      <4>1. sub <= RootNth /\ (sub + 1) - 1 = sub BY <1>5, <1>11, <3>1
      <4>2. s = RootChain[sub] /\ tbl = PartTbl[s] BY <1>12, <2>5, <4>1
      <4>3. RootChain[sub + 1] = PartTbl[0][RootExt].start + PartTbl[RootChain[sub]][2].start
        BY <2>4, <4>1, ChainLinks DEF RootChain
      <4> QED BY <1>5, <1>7, <2>5, <3>1, <4>2, <4>3
    <3>2. CASE sub = RootNth BY <1>11, <1>13, <2>5, <3>2
    <3>3. CASE sub > RootNth BY <1>5, <1>11, <1>14, <2>5, <3>3
    <3> QED BY <1>5, <1>11, <3>1, <3>2, <3>3
  <2>6. TablesSound'
    <3>1. hd'.todo \in (SUBSET (1..4)) \ {{}} BY <1>5, <2>2
    <3>2. hd'.sub \in 0..(NR_SUB - 1) BY <2>2, <2>4
    <3>3. hd_info'.primary[RootExt].base = PartTbl[0][RootExt].start BY <1>5, <1>9
    <3>4. RootExt \notin hd'.todo => RootKnown' BY <1>5, <1>14, <2>2
    <3>5. RootExt = Min(hd'.todo) =>
              IF hd'.sub <= RootNth THEN hd'.s = RootChain[hd'.sub] ELSE RootKnown'
      BY <1>4, <2>2, <2>5
    <3> QED BY <1>2, <1>3, <1>8, <1>9, <2>3, <3>1, <3>2, <3>3, <3>4, <3>5 DEF TablesSound
  <2>7. HdServes' BY <1>1, <1>3, <2>2, <2>3, ServesFrame DEF ServiceSound, TablePcs
  <2> QED BY <1>2, <1>3, <2>6, <2>7, DataFrame DEF ServiceSound
<1> QED BY <1>15, <1>16

-----------------------------------------------------------------------------
(* hd_rdwt(): the sectors of a transfer. *)

\* A transfer under way, as a whole.
Transferring(D) ==
    \/ chan.m.type = "DEV_READ" /\ disk = D /\ Copied(D, chan.m.sect, hd.la)
    \/ /\ chan.m.type = "DEV_WRITE"
       /\ IF hd.pc = "wint" THEN Handed(D) ELSE Stored(D, chan.m.sect, hd.la)

\* A step inside a transfer.
LEMMA TransferKept ==
    ASSUME NEW D, DataSound(D), chan.st = "taken", UNCHANGED chan,
           DOMAIN fsbuf' = DOMAIN fsbuf, Progress', Transferring(D)'
    PROVE  DataSound(D)'
BY DEF DataSound, Transferring

\* The task takes a request: nothing is moved yet, and the command names the
\* first sector asked for, on the root device.
LEMMA TransferReceive ==
    ASSUME NEW D, DriverSound, FsAsks, FilesSound, ServiceSound(D), UNCHANGED fs, HdReceive,
           ChannelSound
    PROVE  ServiceSound(D)' /\ chan'.m = chan.m /\ chan'.st = "taken"
<1>1. /\ hd.pc = "recv" /\ chan.st = "request" /\ UNCHANGED <<disk, hd_info, fsbuf>> /\ HdRecord
      /\ chan = [st |-> chan.st, m |-> chan.m, geo |-> chan.geo] /\ disk = D
  BY DEF HdReceive, DriverSound, ChannelSound, ServiceSound, DataSound
<1>2. /\ chan'.m = chan.m /\ chan'.st = "taken"
      /\ chan.m.type = "DEV_IOCTL" => chan'.geo = hd_info.logical[chan.m.dev]
  <2>1. CASE chan.m.type = "DEV_IOCTL"
    <3>1. chan' = [chan EXCEPT !.st = "taken", !.geo = hd_ioctl(chan.m.dev)] BY <2>1 DEF HdReceive
    <3> QED BY <1>1, <3>1 DEF hd_ioctl
  <2>2. CASE chan.m.type # "DEV_IOCTL"
    <3>1. chan' = [chan EXCEPT !.st = "taken"] BY <2>2 DEF HdReceive
    <3> QED BY <1>1, <2>2, <3>1
  <2> QED BY <2>1, <2>2
<1>3. CASE chan.m.type = "DEV_OPEN"
  <2>1. fs = "opened" BY <1>1, <1>3, Requests
  <2>2. hd' = Command("identify", 0, 1, "ident") BY <1>3 DEF HdReceive
  <2>3. hd'.pc = "cmd" /\ hd'.then = "ident" BY <1>1, <2>2 DEF HdRecord, Command
  <2>4. HdAt' = "ident" BY <2>3 DEF HdAt
  <2>5. HdServes' BY <1>2, <1>3, <2>3, <2>4 DEF HdServes, TablePcs
  <2>6. TablesSound' BY <1>1, <1>2, <2>1, <2>4 DEF ServiceSound, TablesSound
  <2>7. DataSound(D)' BY <1>1, <1>2, <1>3, DataFrame DEF ServiceSound
  <2> QED BY <1>2, <2>5, <2>6, <2>7 DEF ServiceSound
<1>4. CASE chan.m.type = "DEV_IOCTL"
  <2>1. fs = "geo" /\ chan.m.dev = ROOT_DEV BY <1>1, <1>4, Requests
  <2>2. hd' = [hd EXCEPT !.pc = "reply"] BY <1>4 DEF HdReceive
  <2>3. hd'.pc = "reply" BY <1>1, <2>2 DEF HdRecord
  <2>4. HdAt' = "reply" BY <2>3 DEF HdAt
  <2>5. HdServes' BY <1>2, <1>4, <2>3, <2>4 DEF HdServes
  <2>6. RootKnown /\ RootKnown' BY <1>1, <2>1 DEF ServiceSound, TablesSound, RootKnown
  <2>7. chan'.geo = Root BY <1>2, <1>4, <2>1, <2>6 DEF RootKnown
  <2>8. TablesSound' BY <1>1, <2>1, <2>6, <2>7 DEF ServiceSound, TablesSound
  <2>9. DataSound(D)' BY <1>1, <1>2, <1>4, DataFrame DEF ServiceSound
  <2> QED BY <1>2, <2>5, <2>8, <2>9 DEF ServiceSound
<1>5. CASE chan.m.type \notin {"DEV_OPEN", "DEV_IOCTL"}
  <2>1. /\ chan.m.type \in {"DEV_READ", "DEV_WRITE"} /\ fs \notin {"boot", "opened", "geo"}
        /\ chan.m.cnt \in 1..FSBUF_SECTS /\ chan.m.sect \in Int /\ chan.m.dev = ROOT_DEV
    BY <1>1, <1>5, Requests
  <2>2. RootKnown /\ RootKnown' BY <1>1, <2>1 DEF ServiceSound, TablesSound, RootKnown
  <2>3. PICK op, lba, n, then, left :
          /\ hd' = [Command(op, lba, n, then) EXCEPT !.la = 0, !.left = left]
          /\ left = chan.m.cnt /\ lba = chan.m.sect + Root.base
          /\ then = IF chan.m.type = "DEV_READ" THEN "read" ELSE "drq"
    <3>1. hd' = hd_rdwt(chan.m) BY <1>5 DEF HdReceive
    <3> QED BY <2>1, <2>2, <3>1, Zenon DEF hd_rdwt, RootKnown
  <2>4. PICK c : c = [op |-> op, lba |-> lba, n |-> n, drq |-> FALSE, buf |-> <<>>] OBVIOUS
  <2>5. /\ hd'.pc = "cmd" /\ hd'.then = then /\ hd'.la = 0 /\ hd'.left = left /\ hd'.cmd = c
        /\ hd'.todo = hd.todo
    BY <1>1, <2>3, <2>4 DEF HdRecord, Command
  <2>6. HdAt' = then /\ hd'.cmd.lba = lba BY <2>4, <2>5 DEF HdAt
  <2>7. HdServes' BY <1>2, <2>1, <2>3, <2>5, <2>6 DEF HdServes
  <2>8. TablesSound' BY <1>1, <2>1, <2>2 DEF ServiceSound, TablesSound
  <2>9. Progress'
    <3>1. lba \in Int /\ lba * SECTOR_SIZE = At(chan.m.sect) + 0
      <4>1. lba = Root.base + chan.m.sect /\ Root.base \in Int BY <2>1, <2>3, RootLayout
      <4>2. At(chan.m.sect) = lba * SECTOR_SIZE BY <4>1 DEF At
      <4>3. lba \in Int /\ lba * SECTOR_SIZE \in Int BY <2>1, <4>1, Sizes
      <4> QED BY <4>2, <4>3
    <3>2. left * SECTOR_SIZE \in Int /\ 0 + left * SECTOR_SIZE = chan.m.cnt * SECTOR_SIZE
      BY <2>1, <2>3, Sizes
    <3> QED BY <1>2, <2>5, <2>6, <3>1, <3>2 DEF Progress, Reached
  <2>10. Copied(D, chan.m.sect, hd.la)' BY <2>5 DEF Copied
  <2>11. OnDrive(D) /\ DOMAIN fsbuf = Buffer BY DEF ServiceSound, DataSound
  <2>12. Stored(D, chan.m.sect, hd.la)'
    <3>1. PICK A : A = At(chan.m.sect) OBVIOUS
    <3>2. A \in Int /\ A..(A + 0 - 1) = {} BY <2>1, <3>1, AtSector
    <3>3. disk' = [b \in Drive |-> IF b \in A..(A + 0 - 1) THEN fsbuf'[b - A] ELSE D[b]]
      BY <1>1, <2>11, <3>2 DEF OnDrive
    <3> QED BY <1>2, <2>5, <3>1, <3>3 DEF Stored
  <2>13. DataSound(D)' BY <1>1, <1>2, <2>1, <2>5, <2>9, <2>10, <2>11, <2>12 DEF DataSound
  <2> QED BY <1>2, <2>7, <2>8, <2>13 DEF ServiceSound
<1> QED BY <1>3, <1>4, <1>5

\* The last sector is done when the task answers.
LEMMA TransferReply ==
    ASSUME NEW D, DriverSound, FsAsks, FilesSound, ServiceSound(D), UNCHANGED fs, HdReply,
           ChannelSound
    PROVE  ServiceSound(D)' /\ chan'.m = chan.m /\ chan'.st = "replied" /\ chan.st = "taken"
<1>1. /\ hd.pc = "reply" /\ UNCHANGED <<disk, hd_info, fsbuf>> /\ HdRecord
      /\ chan = [st |-> chan.st, m |-> chan.m, geo |-> chan.geo]
      /\ chan' = [chan EXCEPT !.st = "replied"] /\ hd' = [hd EXCEPT !.pc = "recv"]
  BY DEF HdReply, DriverSound, ChannelSound
<1>2. chan'.m = chan.m /\ chan'.st = "replied" /\ chan'.geo = chan.geo /\ hd'.pc = "recv"
  BY <1>1 DEF HdRecord
<1>3. chan.st = "taken" /\ HdAt = "reply" BY <1>1 DEF ServiceSound, HdServes, HdAt
<1>4. HdServes' BY <1>2 DEF HdServes
<1>5. TablesSound'
  <2>1. RootKnown' <=> RootKnown BY <1>1 DEF RootKnown
  <2> QED BY <1>1, <1>2, <1>3, <2>1 DEF ServiceSound, TablesSound
<1>6. DataSound(D)'
  <2>1. chan.m.type \in {"DEV_READ", "DEV_WRITE"} => hd.la = chan.m.cnt * SECTOR_SIZE
    <3>1. 0 * SECTOR_SIZE = 0 BY Sizes
    <3> QED BY <1>1, <1>3, <3>1 DEF ServiceSound, DataSound, Progress
  <2>2. chan.m.type = "DEV_READ" => Copied(D, chan.m.sect, chan.m.cnt * SECTOR_SIZE)'
    BY <1>1, <1>2, <1>3, <2>1 DEF ServiceSound, DataSound, Copied
  <2>3. chan.m.type = "DEV_WRITE" => Stored(D, chan.m.sect, chan.m.cnt * SECTOR_SIZE)'
    BY <1>1, <1>2, <1>3, <2>1 DEF ServiceSound, DataSound, Stored
  <2> QED BY <1>1, <1>2, <2>2, <2>3 DEF ServiceSound, DataSound
<1> QED BY <1>2, <1>3, <1>4, <1>5, <1>6 DEF ServiceSound

\* hd_cmd_out(): the drive begins where the command says.
LEMMA TransferCmdOut ==
    ASSUME NEW D, DriverSound, FsAsks, FilesSound, ServiceSound(D), UNCHANGED fs, hd_cmd_out
    PROVE  ServiceSound(D)'
<1>1. /\ hd.pc = "cmd" /\ hd.pc # "recv" /\ CmdSound /\ HdRecord /\ CmdRecord
      /\ UNCHANGED <<disk, hd_info, chan, fsbuf>> /\ hd' = [hd EXCEPT !.pc = hd.then]
  BY DEF hd_cmd_out, DriverSound, TablePcs
<1>2. PICK c, n : c = hd.cmd /\ ctl' = [c EXCEPT !.n = n] BY DEF hd_cmd_out
<1>3. c = [op |-> c.op, lba |-> c.lba, n |-> c.n, drq |-> c.drq, buf |-> c.buf]
  BY <1>1, <1>2, Zenon DEF CmdRecord
<1>4. ctl'.lba = hd.cmd.lba BY <1>2, <1>3
<1>5. /\ hd'.pc = hd.then /\ hd'.then = hd.then /\ hd'.todo = hd.todo /\ hd'.sub = hd.sub
      /\ hd'.s = hd.s /\ hd'.la = hd.la /\ hd'.left = hd.left
  BY <1>1 DEF HdRecord
<1>6. hd.then \in TablePcs \cup {"read", "drq"} /\ HdAt = hd.then BY <1>1 DEF CmdSound, HdAt
<1>7. HdAt' = HdAt /\ hd'.pc # "recv" BY <1>5, <1>6 DEF HdAt, TablePcs
<1>8. HdServes' BY <1>1, <1>7, ServesFrame DEF ServiceSound
<1>9. TablesSound' BY <1>1, <1>5, <1>7, TablesFrame DEF ServiceSound
<1>10. DataSound(D)'
  <2>1. CASE hd.then \in TablePcs
    <3>1. chan.m.type = "DEV_OPEN" BY <1>1, <1>6, <2>1, Serving DEF ServiceSound
    <3> QED BY <1>1, <3>1, DataFrame DEF ServiceSound
  <2>2. CASE hd.then \in {"read", "drq"}
    <3>1. /\ chan.st = "taken" /\ chan.m.type = IF hd.then = "read" THEN "DEV_READ" ELSE "DEV_WRITE"
      BY <1>1, <1>6, <2>2, Serving DEF ServiceSound
    <3>2. Progress BY <3>1 DEF ServiceSound, DataSound
    <3>3. Progress' BY <1>1, <1>4, <1>5, <2>2, <3>2 DEF Progress, Reached
    <3>4. Transferring(D)'
      BY <1>1, <1>5, <2>2, <3>1 DEF ServiceSound, DataSound, Transferring, Copied, Stored
    <3>5. DOMAIN fsbuf' = DOMAIN fsbuf /\ UNCHANGED chan BY <1>1
    <3> QED BY <3>1, <3>3, <3>4, <3>5, TransferKept DEF ServiceSound
  <2> QED BY <1>6, <2>1, <2>2
<1> QED BY <1>8, <1>9, <1>10 DEF ServiceSound

\* A transfer leaves the tables alone.
LEMMA TransferFrame ==
    ASSUME NEW D, HdServes, TablesSound, UNCHANGED <<fs, hd_info, chan>>, fs # "opened",
           hd.pc # "recv", hd'.pc # "recv", DataSound(D)',
           \/ HdAt' = HdAt \/ HdAt' = "reply"
           \/ HdAt \in {"drq", "wint"} /\ HdAt' \in {"drq", "wint"}
    PROVE  ServiceSound(D)'
BY ServesFrame, TablesFrame DEF ServiceSound

\* A sector is read: it is the next one, and goes behind those before it.
LEMMA TransferRead ==
    ASSUME NEW D, DriverSound, FsAsks, FilesSound, ServiceSound(D), UNCHANGED fs, ReadSector
    PROVE  ServiceSound(D)'
<1>1. /\ hd.pc = "read" /\ hd.pc # "recv" /\ HdAt = "read" /\ has_int_msg /\ port_read
      /\ hd' = SectorDone /\ CtlRecord /\ HdRecord /\ UNCHANGED <<disk, hd_info, chan>>
  BY DEF ReadSector, interrupt_wait, DriverSound, HdAt
<1>2. hd.then = "read" /\ Moving /\ ctl.op = "read" /\ ctl.n \in 1..hd.left
  BY <1>1 DEF DriverSound, TablePcs, ReadSound, Quiet, Awaited
<1>3. /\ chan.st = "taken" /\ chan.m.type = "DEV_READ" /\ fs \notin {"opened", "geo"}
      /\ chan.m.cnt \in 1..FSBUF_SECTS /\ chan.m.sect \in Int
  BY <1>1, Serving DEF ServiceSound
<1>4. Progress /\ Copied(D, chan.m.sect, hd.la) /\ disk = D /\ DOMAIN fsbuf = Buffer
  BY <1>3 DEF ServiceSound, DataSound
<1>5. PICK la, left, cnt, A, lba, size :
        /\ la = hd.la /\ left = hd.left /\ cnt = chan.m.cnt /\ A = At(chan.m.sect)
        /\ lba = ctl.lba /\ size = SECTOR_SIZE
  OBVIOUS
<1>6. /\ la \in Nat /\ left \in 1..FSBUF_SECTS /\ cnt \in 1..FSBUF_SECTS /\ A \in Int
      /\ lba \in Int /\ size \in Nat \ {0}
      /\ la + left * size = cnt * size /\ lba * size = A + la
  BY <1>1, <1>2, <1>3, <1>4, <1>5, AtSector, Sizes DEF Progress, Reached, Moving
<1>7. /\ (left - 1) * size = left * size - size /\ left * size \in Int /\ cnt * size \in Int
      /\ (lba + 1) * size = lba * size + size /\ left * size >= size
      /\ cnt * size <= FSBUF_SECTS * size /\ FSBUF_SECTS * size \in Int
  <2>1. 1 * size = size BY <1>6
  <2> QED BY <1>5, <1>6, <2>1, Sectors, Sizes
<1>8. la + size <= FSBUF_SECTS * size BY <1>6, <1>7
<1>9. /\ hd'.then = hd.then /\ hd'.left = left - 1 /\ hd'.la = la + size
      /\ left > 1 => hd'.pc = "read"
      /\ left = 1 => hd'.pc = "reply"
  BY <1>1, <1>2, <1>5, SectorDoneRecord
<1>10. /\ ctl.n = 1 => ctl'.op = "none"
       /\ ctl.n # 1 => ctl'.lba = lba + 1
  BY <1>1, <1>5, PortRead
<1>11. Progress'
  <2>1. la + size \in Nat /\ (la + size) + (left - 1) * size = cnt * size BY <1>6, <1>7
  <2>2. lba + 1 \in Int /\ (lba + 1) * size = A + (la + size) BY <1>6, <1>7
  <2>3. hd'.pc \in {"read", "reply"} /\ (hd'.pc = "reply" => left - 1 = 0) BY <1>6, <1>9
  <2> QED BY <1>1, <1>5, <1>9, <1>10, <2>1, <2>2, <2>3 DEF Progress, Reached
<1>12. fsbuf' = [b \in Buffer |-> IF b \in la..(la + size - 1) THEN D[A + la + b - la]
                                  ELSE fsbuf[b]]
  BY <1>4, <1>5, <1>6 DEF ReadSector
<1>13. Copied(D, chan.m.sect, hd.la)'
  <2>1. ASSUME NEW x \in 0..(la + size - 1) PROVE fsbuf'[x] = D[A + x]
    <3>1. x \in Buffer BY <1>5, <1>6, <1>8, Sizes DEF Buffer
    <3>2. CASE x >= la
      <4>1. x \in la..(la + size - 1) /\ A + la + x - la = A + x BY <1>6, <3>2
      <4> QED BY <1>12, <3>1, <4>1
    <3>3. CASE x < la
      <4>1. x \in 0..(la - 1) /\ x \notin la..(la + size - 1) BY <1>6, <3>3
      <4> QED BY <1>4, <1>5, <1>12, <3>1, <4>1 DEF Copied
    <3> QED BY <1>6, <3>2, <3>3
  <2>2. chan'.m.sect = chan.m.sect BY <1>1
  <2>3. \A x \in 0..(hd'.la - 1) : fsbuf'[x] = D[At(chan'.m.sect) + x]
    BY <1>5, <1>6, <1>9, <2>1, <2>2
  <2> QED BY <2>3 DEF Copied
<1>14. DOMAIN fsbuf' = DOMAIN fsbuf BY <1>4, <1>12
<1>15. Transferring(D)' BY <1>1, <1>3, <1>4, <1>13 DEF Transferring
<1>16. DataSound(D)' BY <1>1, <1>3, <1>11, <1>14, <1>15, TransferKept DEF ServiceSound
<1>17. hd'.pc \in {"read", "reply"} BY <1>6, <1>9
<1>18. HdAt' \in {"read", "reply"} /\ hd'.pc # "recv" BY <1>17 DEF HdAt
<1> QED BY <1>1, <1>3, <1>16, <1>18, TransferFrame DEF ServiceSound

\* The state of a transfer in the constants that a proof computes with.
LEMMA WriteFacts ==
    ASSUME NEW D, DriverSound, FsAsks, FilesSound, ServiceSound(D), hd.pc \in {"drq", "wint"}
    PROVE  /\ hd.pc # "recv" /\ HdAt = hd.pc /\ hd.then = "drq" /\ Moving
           /\ chan.st = "taken" /\ chan.m.type = "DEV_WRITE" /\ fs \notin {"opened", "geo"}
           /\ chan.m.cnt \in 1..FSBUF_SECTS /\ chan.m.sect \in Int /\ At(chan.m.sect) \in Int
           /\ Progress /\ hd.la \in Nat /\ DOMAIN fsbuf = Buffer
           /\ IF hd.pc = "wint" THEN Handed(D) ELSE Stored(D, chan.m.sect, hd.la)
<1>1. hd.pc # "recv" /\ HdAt = hd.pc BY DEF HdAt
<1>2. /\ chan.st = "taken" /\ chan.m.type = "DEV_WRITE" /\ fs \notin {"opened", "geo"}
      /\ chan.m.cnt \in 1..FSBUF_SECTS /\ chan.m.sect \in Int
  BY <1>1, Serving DEF ServiceSound
<1>3. hd.then = "drq" /\ Moving BY DEF DriverSound, TablePcs, DrqSound, WintSound
<1>4. /\ Progress /\ DOMAIN fsbuf = Buffer
      /\ IF hd.pc = "wint" THEN Handed(D) ELSE Stored(D, chan.m.sect, hd.la)
  BY <1>2 DEF ServiceSound, DataSound
<1>5. hd.la \in Nat BY <1>4 DEF Progress
<1> QED BY <1>1, <1>2, <1>3, <1>4, <1>5, AtSector

\* A sector is handed to the drive: the one its place in fsbuf names.
LEMMA TransferWrite ==
    ASSUME NEW D, DriverSound, FsAsks, FilesSound, ServiceSound(D), UNCHANGED fs, WriteSector
    PROVE  ServiceSound(D)'
<1>1. /\ hd.pc = "drq" /\ ctl.drq /\ CtlRecord /\ HdRecord /\ has_int_msg' = has_int_msg
      /\ hd' = [hd EXCEPT !.pc = "wint"] /\ UNCHANGED <<disk, hd_info, chan, fsbuf>>
  BY DEF WriteSector, DriverSound
<1>2. PICK bytes : /\ bytes = [b \in 1..SECTOR_SIZE |-> fsbuf[hd.la + b - 1]]
                   /\ ctl' = [ctl EXCEPT !.drq = FALSE, !.buf = bytes]
  BY DEF WriteSector, port_write
<1>3. ctl'.lba = ctl.lba /\ ctl'.buf = bytes /\ ctl'.op = ctl.op BY <1>1, <1>2 DEF CtlRecord
<1>4. hd'.pc = "wint" /\ hd'.la = hd.la /\ hd'.left = hd.left BY <1>1 DEF HdRecord
<1>5. DrqSound BY <1>1 DEF DriverSound, TablePcs
<1>6. ctl.op = "write" /\ has_int_msg = FALSE BY <1>1, <1>5 DEF DrqSound, Awaited, DriverSound
<1>7. /\ hd.pc # "recv" /\ HdAt = "drq" /\ chan.st = "taken" /\ chan.m.type = "DEV_WRITE"
      /\ fs # "opened" /\ Progress /\ Stored(D, chan.m.sect, hd.la)
  BY <1>1, WriteFacts
<1>8. Reached(ctl.lba, hd.la) BY <1>1, <1>6, <1>7 DEF Progress
<1>9. Handed(D)'
  <2>1. Reached(ctl.lba, hd.la)' BY <1>1, <1>3, <1>4, <1>8 DEF Reached
  <2>2. Stored(D, chan.m.sect, hd.la)' BY <1>1, <1>4, <1>7 DEF Stored
  <2>3. \A x \in 1..SECTOR_SIZE : ctl'.buf[x] = fsbuf'[hd'.la + x - 1] BY <1>1, <1>2, <1>3, <1>4
  <2> QED BY <1>1, <1>6, <2>1, <2>2, <2>3 DEF Handed
<1>10. Progress' BY <1>1, <1>4, <1>7 DEF Progress
<1>11. Transferring(D)' BY <1>1, <1>4, <1>7, <1>9 DEF Transferring
<1>12. DataSound(D)' BY <1>1, <1>7, <1>10, <1>11, TransferKept DEF ServiceSound
<1>13. HdAt' = "wint" /\ hd'.pc # "recv" BY <1>4 DEF HdAt
<1> QED BY <1>1, <1>7, <1>12, <1>13, TransferFrame DEF ServiceSound

\* Its interrupt came: it is on the disk.
LEMMA TransferWritten ==
    ASSUME NEW D, DriverSound, FsAsks, FilesSound, ServiceSound(D), UNCHANGED fs, SectorWritten
    PROVE  ServiceSound(D)'
<1>1. /\ hd.pc = "wint" /\ has_int_msg /\ HdRecord /\ hd' = SectorDone
      /\ UNCHANGED <<disk, ctl, hd_info, chan, fsbuf>>
  BY DEF SectorWritten, interrupt_wait, DriverSound
<1>2. /\ hd.pc # "recv" /\ HdAt = "wint" /\ chan.st = "taken" /\ chan.m.type = "DEV_WRITE"
      /\ fs # "opened" /\ Progress /\ Handed(D) /\ hd.then = "drq" /\ Moving
      /\ chan.m.cnt \in 1..FSBUF_SECTS
  BY <1>1, WriteFacts
<1>3. /\ Stored(D, chan.m.sect, hd.la + SECTOR_SIZE)
      /\ ctl.op # "none" => Reached(ctl.lba, hd.la + SECTOR_SIZE)
  BY <1>1, <1>2 DEF Handed
<1>4. /\ hd'.then = hd.then /\ hd'.left = hd.left - 1 /\ hd'.la = hd.la + SECTOR_SIZE
      /\ hd.left > 1 => hd'.pc = "drq"
      /\ hd.left = 1 => hd'.pc = "reply"
  BY <1>1, <1>2, SectorDoneRecord
<1>5. hd.left \in 1..FSBUF_SECTS /\ hd'.pc \in {"drq", "reply"} BY <1>2, <1>4, Sizes DEF Moving
<1>6. Progress'
  <2>1. PICK la, left, cnt, size : /\ la = hd.la /\ left = hd.left /\ cnt = chan.m.cnt
                                   /\ size = SECTOR_SIZE
    OBVIOUS
  <2>2. la \in Nat /\ la + left * size = cnt * size /\ left \in Int /\ size \in Nat /\ cnt \in Int
    BY <1>2, <1>5, <2>1, Sizes DEF Progress
  <2>3. 1 * size = size BY <2>2
  <2>4. (left - 1) * size = left * size - size /\ left * size \in Int /\ cnt * size \in Int
    BY <2>1, <2>2, <2>3, Sectors
  <2>5. la + size \in Nat /\ (la + size) + (left - 1) * size = cnt * size BY <2>2, <2>4
  <2>6. hd'.pc = "reply" => hd'.left = 0 BY <1>4, <1>5
  <2> QED BY <1>1, <1>3, <1>4, <1>5, <2>1, <2>5, <2>6 DEF Progress, Reached
<1>7. Stored(D, chan.m.sect, hd.la)' BY <1>1, <1>3, <1>4 DEF Stored
<1>8. Transferring(D)' BY <1>1, <1>2, <1>5, <1>7 DEF Transferring
<1>9. DataSound(D)' BY <1>1, <1>2, <1>6, <1>8, TransferKept DEF ServiceSound
<1>10. HdAt' \in {"drq", "reply"} /\ hd'.pc # "recv" BY <1>5 DEF HdAt
<1> QED BY <1>1, <1>2, <1>9, <1>10, TransferFrame DEF ServiceSound

-----------------------------------------------------------------------------
(* The drive. *)

\* A sector is ready to be read.
LEMMA DriveReading ==
    ASSUME NEW D, DriverSound, FsAsks, FilesSound, ServiceSound(D), UNCHANGED fs, CtlReadReady
    PROVE  ServiceSound(D)'
<1>1. /\ ctl.op \in {"read", "identify"} /\ ctl' = [ctl EXCEPT !.drq = TRUE]
      /\ UNCHANGED <<disk, hd, hd_info, chan, fsbuf>> /\ CtlRecord
  BY DEF CtlReadReady, DriverSound
<1>2. ctl'.op = ctl.op /\ ctl'.lba = ctl.lba BY <1>1 DEF CtlRecord
<1>3. hd.pc \in TablePcs \/ hd.pc = "read"
  BY <1>1 DEF DriverSound, CmdSound, Quiet, DrqSound, WintSound, Awaited
<1>4. hd.pc # "recv" /\ hd'.pc # "recv" /\ HdAt = hd.pc /\ HdAt' = HdAt
  BY <1>1, <1>3 DEF HdAt, TablePcs
<1>5. HdServes' /\ TablesSound' BY <1>1, <1>4, ServesFrame, TablesFrame DEF ServiceSound
<1>6. CASE hd.pc \in TablePcs
  <2>1. chan.m.type = "DEV_OPEN" BY <1>4, <1>6, Serving DEF ServiceSound
  <2> QED BY <1>1, <1>5, <2>1, DataFrame DEF ServiceSound
<1>7. CASE hd.pc = "read"
  <2>1. chan.st = "taken" /\ chan.m.type = "DEV_READ" BY <1>4, <1>7, Serving DEF ServiceSound
  <2>2. Progress /\ disk = D /\ Copied(D, chan.m.sect, hd.la)
    BY <2>1 DEF ServiceSound, DataSound
  <2>3. Progress' BY <1>1, <1>2, <2>2 DEF Progress, Reached
  <2>4. Transferring(D)' BY <1>1, <2>1, <2>2 DEF Transferring, Copied
  <2> QED BY <1>1, <1>5, <2>1, <2>3, <2>4, TransferKept DEF ServiceSound
<1> QED BY <1>3, <1>6, <1>7

\* The drive asks for a sector.
LEMMA DriveAsking ==
    ASSUME NEW D, DriverSound, FsAsks, FilesSound, ServiceSound(D), UNCHANGED fs, CtlWriteReady
    PROVE  ServiceSound(D)'
<1>1. /\ ctl.op = "write" /\ ctl.buf = <<>> /\ ctl.drq = FALSE /\ ctl' = [ctl EXCEPT !.drq = TRUE]
      /\ UNCHANGED <<disk, hd, hd_info, chan, fsbuf, has_int_msg>> /\ CtlRecord
  BY DEF CtlWriteReady, DriverSound, Busy
<1>2. ctl'.op = ctl.op /\ ctl'.lba = ctl.lba BY <1>1 DEF CtlRecord
<1>3. hd.pc = "drq"
  BY <1>1 DEF DriverSound, CmdSound, Quiet, TablePcs, ReadSound, WintSound, Awaited
<1>4. /\ hd.pc # "recv" /\ HdAt = "drq" /\ chan.st = "taken" /\ chan.m.type = "DEV_WRITE"
      /\ fs # "opened" /\ Progress /\ Stored(D, chan.m.sect, hd.la)
  BY <1>3, WriteFacts
<1>5. HdAt' = HdAt BY <1>1 DEF HdAt
<1>6. Progress' BY <1>1, <1>2, <1>4 DEF Progress, Reached
<1>7. Transferring(D)' BY <1>1, <1>3, <1>4 DEF Transferring, Stored
<1>8. DataSound(D)' BY <1>1, <1>4, <1>6, <1>7, TransferKept DEF ServiceSound
<1> QED BY <1>1, <1>4, <1>5, <1>8, TransferFrame DEF ServiceSound

\* The drive stores the sector it was handed, and no other byte.
LEMMA DriveStoring ==
    ASSUME NEW D, DriverSound, FsAsks, FilesSound, ServiceSound(D), UNCHANGED fs, CtlWriteDone
    PROVE  ServiceSound(D)'
<1>1. /\ ctl.op = "write" /\ ctl.buf # <<>> /\ ctl.drq = FALSE /\ has_int_msg' = TRUE
      /\ UNCHANGED <<hd, hd_info, chan, fsbuf>> /\ CtlRecord
  BY DEF CtlWriteDone, DriverSound, Busy, hd_handler
<1>2. /\ ctl.n = 1 => ctl' = Idle
      /\ ctl.n # 1 => ctl' = [ctl EXCEPT !.n = ctl.n - 1, !.lba = ctl.lba + 1,
                                         !.drq = TRUE, !.buf = <<>>]
  BY DEF CtlWriteDone
<1>3. ctl'.op # "none" => ctl'.lba = ctl.lba + 1
  <2>1. CASE ctl.n = 1 BY <1>2, <2>1 DEF Idle
  <2>2. CASE ctl.n # 1 BY <1>1, <1>2, <2>2 DEF CtlRecord
  <2> QED BY <2>1, <2>2
<1>4. hd.pc = "wint" /\ WintSound
  BY <1>1 DEF DriverSound, CmdSound, Quiet, TablePcs, ReadSound, DrqSound, Awaited
<1>5. ~has_int_msg BY <1>1, <1>4 DEF WintSound, Awaited
<1>6. /\ hd.pc # "recv" /\ HdAt = "wint" /\ chan.st = "taken" /\ chan.m.type = "DEV_WRITE"
      /\ fs # "opened" /\ Progress /\ Handed(D) /\ hd.la \in Nat /\ At(chan.m.sect) \in Int
  BY <1>4, WriteFacts
<1>7. /\ Reached(ctl.lba, hd.la) /\ Stored(D, chan.m.sect, hd.la)
      /\ \A x \in 1..SECTOR_SIZE : ctl.buf[x] = fsbuf[hd.la + x - 1]
  BY <1>5, <1>6 DEF Handed
<1>8. PICK la, A, lba, size, buf, N :
        /\ la = hd.la /\ A = At(chan.m.sect) /\ lba = ctl.lba /\ size = SECTOR_SIZE
        /\ buf = ctl.buf /\ N = Drive
  OBVIOUS
<1>9. /\ la \in Nat /\ A \in Int /\ lba \in Int /\ size \in Nat \ {0} /\ lba * size = A + la
      /\ \A x \in 1..size : buf[x] = fsbuf[la + x - 1]
      /\ disk = [b \in N |-> IF b \in A..(A + la - 1) THEN fsbuf[b - A] ELSE D[b]]
  BY <1>6, <1>7, <1>8, Sizes DEF Reached, Stored
<1>10. DOMAIN disk = N /\ \A b \in N : b \in Nat BY <1>8, <1>9, Sizes, HdAssumption DEF Drive
<1>11. disk' = [b \in N |-> IF b \div size = lba THEN buf[(b % size) + 1] ELSE disk[b]]
  BY <1>8, <1>10 DEF CtlWriteDone
<1>12. ASSUME NEW b \in N
       PROVE  disk'[b] = IF b \in A..(A + (la + size) - 1) THEN fsbuf[b - A] ELSE D[b]
  <2>1. /\ b \in Nat
        /\ b \div size = lba <=> b \in A + la .. A + la + size - 1
        /\ b \div size = lba => b % size = b - (A + la)
    <3>1. b \in Nat BY <1>10
    <3> QED BY <1>8, <1>9, <3>1, SectorOf
  <2>2. CASE b \div size = lba
    <3>1. PICK m : m = b % size OBVIOUS
    <3>2. b \in Nat /\ b \in A + la .. A + la + size - 1 /\ m = b - (A + la) BY <2>1, <2>2, <3>1
    <3>3. la \in Nat /\ A \in Int /\ size \in Nat \ {0} BY <1>9
    <3>4. b \in A..(A + (la + size) - 1) /\ m + 1 \in 1..size /\ la + (m + 1) - 1 = b - A
      BY <3>2, <3>3
    <3>5. disk'[b] = buf[m + 1] BY <1>11, <2>2, <3>1
    <3> QED BY <1>9, <3>4, <3>5
  <2>3. CASE b \div size # lba
    <3>1. b \in A..(A + la - 1) <=> b \in A..(A + (la + size) - 1) BY <1>9, <2>1, <2>3
    <3> QED BY <1>9, <1>11, <2>3, <3>1
  <2> QED BY <2>2, <2>3
<1>13. Stored(D, chan.m.sect, hd.la + SECTOR_SIZE)'
  <2>1. disk' = [b \in N |-> IF b \in A..(A + (la + size) - 1) THEN fsbuf[b - A] ELSE D[b]]
    BY <1>11, <1>12
  <2>2. chan' = chan /\ hd' = hd /\ fsbuf' = fsbuf BY <1>1
  <2> QED BY <1>8, <2>1, <2>2 DEF Stored
<1>14. Handed(D)'
  <2>1. lba + 1 \in Int /\ (lba + 1) * size = A + (la + size)
    <3>1. 1 * size = size BY <1>9
    <3> QED BY <1>8, <1>9, <3>1, Sectors
  <2>2. ctl'.op # "none" => Reached(ctl.lba, hd.la + SECTOR_SIZE)'
    BY <1>1, <1>3, <1>8, <2>1 DEF Reached
  <2> QED BY <1>1, <1>13, <2>2 DEF Handed
<1>15. Progress' BY <1>1, <1>4, <1>6 DEF Progress, Reached
<1>16. Transferring(D)' BY <1>1, <1>4, <1>6, <1>14 DEF Transferring
<1>17. DataSound(D)' BY <1>1, <1>6, <1>15, <1>16, TransferKept DEF ServiceSound
<1>18. HdAt' = HdAt BY <1>1 DEF HdAt
<1> QED BY <1>1, <1>6, <1>17, <1>18, TransferFrame DEF ServiceSound

-----------------------------------------------------------------------------
(* The steps of HD, of the drive and of the clock together. *)

\* Nothing happens.
LEMMA ServiceFrame ==
    ASSUME NEW D, ServiceSound(D),
           UNCHANGED <<fs, disk, ctl, has_int_msg, hd, hd_info, chan, fsbuf>>
    PROVE  ServiceSound(D)'
<1>1. HdAt' = HdAt BY DEF HdAt
<1>2. HdServes' /\ TablesSound' BY <1>1, TablesFrame DEF ServiceSound, HdServes
<1>3. /\ Progress' = Progress /\ Handed(D)' = Handed(D)
      /\ Copied(D, chan.m.sect, hd.la)' = Copied(D, chan.m.sect, hd.la)
      /\ Stored(D, chan.m.sect, hd.la)' = Stored(D, chan.m.sect, hd.la)
      /\ Copied(D, chan.m.sect, chan.m.cnt * SECTOR_SIZE)'
           = Copied(D, chan.m.sect, chan.m.cnt * SECTOR_SIZE)
      /\ Stored(D, chan.m.sect, chan.m.cnt * SECTOR_SIZE)'
           = Stored(D, chan.m.sect, chan.m.cnt * SECTOR_SIZE)
  BY DEF Progress, Handed, Copied, Stored, Reached
<1>4. DataSound(D)' BY <1>3 DEF ServiceSound, DataSound
<1> QED BY <1>2, <1>4 DEF ServiceSound

\* Any step of HD, of the drive, or a time-out of a status poll.
LEMMA ServiceStep ==
    ASSUME NEW D, DInv, FsAsks, ServiceSound(D), FsData(D), UNCHANGED fsVars,
           task_hd \/ controller \/ WaitforTimeout
    PROVE  FsAsks' /\ ServiceSound(D)' /\ FsData(D)'
<1>1. DriverSound /\ ChannelSound /\ FilesSound /\ UNCHANGED <<fs, rw>> /\ UNCHANGED fs
  BY DEF DInv, fsVars
<1>2. HdServes BY DEF ServiceSound
\* Between two requests HD and the drive have nothing to do.
<1>3. hd.pc # "recv" => fs # "idle" BY <1>1, <1>2, Serving
<1>4. ctl.op # "none" => hd.pc # "recv" BY <1>1 DEF DriverSound, Quiet, TablePcs
<1>5. chan.st = "request" => fs # "idle" BY DEF FsAsks
<1>6. UNCHANGED chan => FsAsks' BY <1>1, AsksFrame
<1>7. UNCHANGED fsbuf /\ fs # "idle" => FsData(D)' BY FsFrame
<1>8. CASE HdReceive
  <2>1. ServiceSound(D)' /\ chan'.m = chan.m /\ chan'.st = "taken" BY <1>1, <1>8, TransferReceive
  <2>2. chan.st = "request" /\ UNCHANGED fsbuf BY <1>8 DEF HdReceive
  <2>3. FsAsks' BY <1>1, <2>1, <2>2, AsksFrame
  <2> QED BY <1>5, <1>7, <2>1, <2>2, <2>3
<1>9. CASE HdReply
  <2>1. ServiceSound(D)' /\ chan'.m = chan.m /\ chan'.st = "replied" /\ chan.st = "taken"
    BY <1>1, <1>9, TransferReply
  <2>2. hd.pc = "reply" /\ UNCHANGED fsbuf BY <1>9 DEF HdReply
  <2>3. FsAsks' BY <1>1, <2>1, AsksFrame
  <2> QED BY <1>3, <1>7, <2>1, <2>2, <2>3
<1>10. CASE hd_cmd_out
  <2>1. hd.pc = "cmd" /\ UNCHANGED <<fsbuf, chan>> BY <1>10 DEF hd_cmd_out
  <2> QED BY <1>1, <1>3, <1>6, <1>7, <1>10, <2>1, TransferCmdOut
<1>11. CASE hd_identify
  <2>1. hd.pc = "ident" /\ UNCHANGED <<fsbuf, chan>> BY <1>11, Zenon DEF hd_identify
  <2> QED BY <1>1, <1>3, <1>6, <1>7, <1>11, <2>1, IdentifyTables
<1>12. CASE PartitionPrimary
  <2>1. hd.pc = "mbr" /\ UNCHANGED <<fsbuf, chan>> BY <1>12, Zenon DEF PartitionPrimary
  <2> QED BY <1>1, <1>3, <1>6, <1>7, <1>12, <2>1, PrimaryTables
<1>13. CASE PartitionExtended
  <2>1. hd.pc = "ebr" /\ UNCHANGED <<fsbuf, chan>> BY <1>13, Zenon DEF PartitionExtended
  <2> QED BY <1>1, <1>3, <1>6, <1>7, <1>13, <2>1, ExtendedTables
<1>14. CASE ReadSector
  <2>1. hd.pc = "read" /\ UNCHANGED <<disk, chan>> BY <1>14 DEF ReadSector
  <2>2. HdAt = "read" /\ hd.pc # "recv" BY <2>1 DEF HdAt
  <2>3. chan.st = "taken" /\ chan.m.type = "DEV_READ" BY <1>1, <1>2, <2>2, Serving
  <2>4. fs \notin {"made", "written", "synced"} BY <2>3 DEF FsAsks
  <2>5. FsData(D)' BY <2>1, <2>4, FsFrame
  <2> QED BY <1>1, <1>6, <1>14, <2>1, <2>5, TransferRead
<1>15. CASE WriteSector
  <2>1. hd.pc = "drq" /\ UNCHANGED <<fsbuf, chan>> BY <1>15 DEF WriteSector
  <2> QED BY <1>1, <1>3, <1>6, <1>7, <1>15, <2>1, TransferWrite
<1>16. CASE SectorWritten
  <2>1. hd.pc = "wint" /\ UNCHANGED <<fsbuf, chan>> BY <1>16 DEF SectorWritten
  <2> QED BY <1>1, <1>3, <1>6, <1>7, <1>16, <2>1, TransferWritten
<1>17. CASE CtlReadReady
  <2>1. ctl.op # "none" /\ UNCHANGED <<fsbuf, chan>> BY <1>17 DEF CtlReadReady
  <2> QED BY <1>1, <1>3, <1>4, <1>6, <1>7, <1>17, <2>1, DriveReading
<1>18. CASE CtlWriteReady
  <2>1. ctl.op # "none" /\ UNCHANGED <<fsbuf, chan>> BY <1>18 DEF CtlWriteReady
  <2> QED BY <1>1, <1>3, <1>4, <1>6, <1>7, <1>18, <2>1, DriveAsking
<1>19. CASE CtlWriteDone
  <2>1. ctl.op # "none" /\ UNCHANGED <<fsbuf, chan>> BY <1>19 DEF CtlWriteDone
  <2> QED BY <1>1, <1>3, <1>4, <1>6, <1>7, <1>19, <2>1, DriveStoring
<1>20. CASE WaitforTimeout
  <2>1. hd.pc \in {"cmd", "drq"} /\ UNCHANGED <<disk, ctl, has_int_msg, hd, hd_info, chan, fsbuf>>
    BY <1>20 DEF WaitforTimeout
  <2>2. ServiceSound(D)' BY <1>1, <2>1, ServiceFrame
  <2> QED BY <1>3, <1>6, <1>7, <2>1, <2>2
<1> QED BY <1>8, <1>9, <1>10, <1>11, <1>12, <1>13, <1>14, <1>15, <1>16, <1>17, <1>18, <1>19, <1>20
        DEF task_hd, controller

-----------------------------------------------------------------------------
(* do_rdwt(): the bytes of a request. *)

\* Whole sectors below a position.
LEMMA SectorsBelow ==
    ASSUME NEW e \in Nat, NEW q \in Int
    PROVE  /\ e \div SECTOR_SIZE \in Nat
           /\ e \div SECTOR_SIZE < q <=> e < q * SECTOR_SIZE
<1>1. PICK d, m : d = e \div SECTOR_SIZE /\ m = e % SECTOR_SIZE OBVIOUS
<1>2. d \in Nat /\ m \in 0..(SECTOR_SIZE - 1) /\ e = d * SECTOR_SIZE + m BY <1>1, SectorAndOffset
<1>3. d * SECTOR_SIZE \in Int /\ q * SECTOR_SIZE \in Int /\ 1 * SECTOR_SIZE = SECTOR_SIZE
  BY <1>2, Sizes
<1>4. (d + 1) * SECTOR_SIZE = d * SECTOR_SIZE + SECTOR_SIZE BY <1>2, <1>3, Sectors
<1>5. d + 1 <= q => (d + 1) * SECTOR_SIZE <= q * SECTOR_SIZE
  <2>1. d + 1 \in Int BY <1>2
  <2> QED BY <2>1, Sectors
<1>6. q <= d => q * SECTOR_SIZE <= d * SECTOR_SIZE BY <1>2, Sectors
<1> QED BY <1>1, <1>2, <1>3, <1>4, <1>5, <1>6, Sizes

\* The bytes of a file lie behind the sector of the inodes.
LEMMA FileBytes ==
    ASSUME NEW f \in Files, NEW k \in Int
    PROVE  /\ ByteOf(f, k) \in Int /\ ByteOf(f, k) = ByteOf(f, 0) + k
           /\ SizeCell(f) \in Int /\ SizeCell(f) < ByteOf(f, 0)
           /\ SizeCell(f) = At(InodeSect) + INode[f]
           /\ INode[f] \in 0..(SECTOR_SIZE - 1)
           /\ \A i \in Int : ByteOf(f, (i - Start[f]) * SECTOR_SIZE) = At(i)
<1>1. PICK base, start, ino, sect :
        base = Root.base /\ start = Start[f] /\ ino = INode[f] /\ sect = InodeSect
  OBVIOUS
<1>2. /\ base \in Nat /\ start \in Nat /\ ino \in 0..(SECTOR_SIZE - 1) /\ sect \in Nat
      /\ sect < start
  <2>1. Start[f] \in Nat /\ INode[f] \in Nat /\ InodeSect \in Nat
    BY ReadWriteAssumption, LayoutAssumption
  <2>2. InodeSect < Start[f] /\ INode[f] < SECTOR_SIZE BY LayoutAssumption
  <2> QED BY <1>1, <2>1, <2>2, RootLayout, Sizes
<1>3. /\ \A j \in Int : ByteOf(f, j) = (base + start) * SECTOR_SIZE + j
      /\ SizeCell(f) = (base + sect) * SECTOR_SIZE + ino
      /\ At(InodeSect) = (base + sect) * SECTOR_SIZE
  BY <1>1, Zenon DEF ByteOf, SizeCell, At, Root
<1>4. (base + start) * SECTOR_SIZE \in Int /\ (base + sect) * SECTOR_SIZE \in Int BY <1>2, Sizes
<1>5. (base + sect) * SECTOR_SIZE + SECTOR_SIZE <= (base + start) * SECTOR_SIZE
  <2>1. base + sect \in Int /\ base + start \in Int /\ base + sect + 1 <= base + start
        /\ base + sect + 1 \in Int /\ 1 * SECTOR_SIZE = SECTOR_SIZE
    BY <1>2, Sizes
  <2>2. (base + sect + 1) * SECTOR_SIZE = (base + sect) * SECTOR_SIZE + SECTOR_SIZE
    BY <2>1, Sectors
  <2>3. (base + sect + 1) * SECTOR_SIZE <= (base + start) * SECTOR_SIZE BY <2>1, Sectors
  <2> QED BY <2>2, <2>3
<1>6. ASSUME NEW i \in Int PROVE ByteOf(f, (i - Start[f]) * SECTOR_SIZE) = At(i)
  <2>1. i - start \in Int /\ (i - start) * SECTOR_SIZE \in Int /\ base + start \in Int
        /\ (base + start) + (i - start) = base + i
    BY <1>2, Sizes
  <2>2. (base + i) * SECTOR_SIZE = (base + start) * SECTOR_SIZE + (i - start) * SECTOR_SIZE
    BY <2>1, Sectors
  <2> QED BY <1>1, <1>3, <2>1, <2>2 DEF At
<1>7. ByteOf(f, k) \in Int /\ ByteOf(f, k) = ByteOf(f, 0) + k BY <1>3, <1>4
<1>8. SizeCell(f) \in Int /\ SizeCell(f) < ByteOf(f, 0) BY <1>2, <1>3, <1>4, <1>5, Sizes
<1>9. SizeCell(f) = At(InodeSect) + INode[f] /\ INode[f] \in 0..(SECTOR_SIZE - 1)
  BY <1>1, <1>2, <1>3
<1> QED BY <1>6, <1>7, <1>8, <1>9

\* The request is answered: what has been moved is what had to be, and of the
\* rest of the drive only the size of a file that grew has changed.
LEMMA Answered ==
    ASSUME NEW D, NEW M, NEW r, NEW u, NEW bf, NEW p, NEW size,
           disk' = D, rw' = r, ubuf' = u, before' = bf, fd_pos'[r.f] = p, i_size'[r.f] = size,
           Moved(M, r, u, bf), p = r.pos + r.bytes_rw,
           PosEnd(r, bf) = r.pos + r.len => r.bytes_rw = r.len,
           size = IF p > bf.size THEN p ELSE bf.size,
           OnDrive(M), OnDrive(D),
           \A b \in Drive : D[b] = IF b = SizeCell(r.f) /\ p > bf.size THEN p ELSE M[b]
    PROVE  (Fits => ExactTransfer)' /\ ConfinedTransfer'
<1>1. /\ r.f \in Files \ ReadOnly /\ r.type \in {"READ", "WRITE"}
      /\ r.pos \in Nat /\ r.len \in Nat /\ r.bytes_rw \in 0..r.len /\ bf.size \in Nat
  BY DEF Moved
<1>2. PICK f, pos, len, n, P, cell, limit :
        /\ f = r.f /\ pos = r.pos /\ len = r.len /\ n = r.bytes_rw /\ P = ByteOf(f, pos)
        /\ cell = SizeCell(f) /\ limit = (NrSects[f] + FSBUF_SECTS) * SECTOR_SIZE
  OBVIOUS
<1>3. /\ pos \in Nat /\ len \in Nat /\ n \in 0..len /\ P \in Int /\ cell \in Int /\ cell < P
      /\ p = pos + n /\ p \in Nat
  <2>1. pos \in Nat /\ len \in Nat /\ n \in 0..len /\ f \in Files BY <1>1, <1>2
  <2>2. ByteOf(f, pos) \in Int /\ ByteOf(f, pos) = ByteOf(f, 0) + pos /\ ByteOf(f, 0) \in Int
        /\ SizeCell(f) \in Int /\ SizeCell(f) < ByteOf(f, 0)
    <3>1. 0 \in Int /\ pos \in Int BY <2>1
    <3> QED BY <2>1, <3>1, FileBytes
  <2> QED BY <1>2, <2>1, <2>2
<1>4. \A k \in Int : ByteOf(f, pos + k) = P + k
  <2>1. ASSUME NEW k \in Int PROVE ByteOf(f, pos + k) = P + k
    <3>1. f \in Files /\ pos + k \in Int /\ pos \in Int BY <1>1, <1>2, <1>3
    <3>2. /\ ByteOf(f, pos + k) = ByteOf(f, 0) + (pos + k) /\ ByteOf(f, pos) = ByteOf(f, 0) + pos
          /\ ByteOf(f, 0) \in Int
      BY <3>1, FileBytes
    <3> QED BY <1>2, <1>3, <3>2
  <2> QED BY <2>1
<1>5. r.type = "READ" => M = bf.disk /\ \A k \in 0..(n - 1) : u[k] = M[P + k]
  <2>1. r.type = "READ" => M = bf.disk /\ \A k \in 0..(n - 1) : u[k] = M[ByteOf(f, pos + k)]
    BY <1>2, Zenon DEF Moved
  <2>2. \A k \in 0..(n - 1) : ByteOf(f, pos + k) = P + k BY <1>3, <1>4
  <2> QED BY <2>1, <2>2
<1>6. r.type = "WRITE" =>
        /\ M = [b \in Drive |-> IF b \in P..(P + n - 1) THEN UserByte(b - P) ELSE bf.disk[b]]
        /\ n = 0 \/ p <= limit
  <2>1. r.type = "WRITE" =>
          /\ M = [b \in Drive |-> IF b \in ByteOf(f, pos)..(ByteOf(f, pos + n) - 1)
                                 THEN UserByte(b - ByteOf(f, pos)) ELSE bf.disk[b]]
          /\ n = 0 \/ pos + n <= limit
    BY <1>2, Zenon DEF Moved
  <2>2. ByteOf(f, pos + n) = P + n /\ ByteOf(f, pos) = P BY <1>2, <1>3, <1>4
  <2> QED BY <1>3, <2>1, <2>2
<1>7. limit \in Int
  <2>1. NrSects[f] \in Nat BY <1>1, <1>2, ReadWriteAssumption
  <2> QED BY <1>2, <2>1, Sizes
<1>8. DOMAIN D = Drive BY DEF OnDrive
<1>9. ASSUME Fits' PROVE ExactTransfer'
  <2>1. PosEnd(r, bf) = r.pos + r.len
    <3>1. r.pos + r.len <= IF r.type = "READ" THEN bf.size ELSE NrSects[r.f] * SECTOR_SIZE
      BY <1>9 DEF Fits
    <3>2. NrSects[r.f] * SECTOR_SIZE \in Nat BY <1>1, ReadWriteAssumption, Sizes
    <3> QED BY <1>1, <3>1, <3>2 DEF PosEnd, Least
  <2>2. n = len /\ p = pos + len BY <1>2, <1>3, <2>1
  <2>3. r.type = "READ" => ~(p > bf.size) BY <1>1, <1>2, <1>3, <1>9, <2>2 DEF Fits
  <2>4. r.type = "READ" => D = bf.disk /\ \A k \in 0..(len - 1) : u[k] = D[ByteOf(f, pos + k)]
    <3> SUFFICES ASSUME r.type = "READ"
                 PROVE  D = bf.disk /\ \A k \in 0..(len - 1) : u[k] = D[ByteOf(f, pos + k)]
      OBVIOUS
    <3>1. D = M BY <2>3 DEF OnDrive
    <3>2. \A k \in 0..(len - 1) : u[k] = D[P + k] BY <1>5, <2>2, <3>1
    <3>3. \A k \in 0..(len - 1) : ByteOf(f, pos + k) = P + k BY <1>3, <1>4
    <3> QED BY <1>5, <3>1, <3>2, <3>3
  <2>5. ASSUME r.type = "WRITE", NEW b \in Drive
        PROVE  D[b] = IF b \in {ByteOf(f, pos + k) : k \in 0..(len - 1)}
                      THEN UserByte(b - ByteOf(f, pos))
                      ELSE IF b = SizeCell(f) /\ pos + len > bf.size THEN pos + len ELSE bf.disk[b]
    <3>1. b \in {ByteOf(f, pos + k) : k \in 0..(len - 1)} <=> b \in P..(P + n - 1)
      <4>1. b \in Int BY HdAssumption, Sizes DEF Drive
      <4>2. b \in P..(P + n - 1) => b - P \in 0..(len - 1) /\ b = P + (b - P)
        BY <1>3, <2>2, <4>1
      <4>3. \A k \in 0..(len - 1) : P + k \in P..(P + n - 1) BY <1>3, <2>2
      <4>4. ASSUME b \in P..(P + n - 1) PROVE b \in {ByteOf(f, pos + k) : k \in 0..(len - 1)}
        <5>1. PICK k \in 0..(len - 1) : b = P + k BY <4>2, <4>4
        <5>2. ByteOf(f, pos + k) = b BY <1>3, <1>4, <5>1
        <5> QED BY <5>2
      <4>5. ASSUME NEW k \in 0..(len - 1), b = ByteOf(f, pos + k) PROVE b \in P..(P + n - 1)
        BY <1>3, <1>4, <4>3, <4>5
      <4> QED BY <4>4, <4>5
    <3>2. M[b] = IF b \in P..(P + n - 1) THEN UserByte(b - P) ELSE bf.disk[b] BY <1>6, <2>5
    <3>3. D[b] = IF b = cell /\ p > bf.size THEN p ELSE M[b] BY <1>2
    <3>4. cell \notin P..(P + n - 1) BY <1>3
    <3>5. CASE b \in P..(P + n - 1)
      <4>1. b # cell BY <3>4, <3>5
      <4> QED BY <1>2, <3>1, <3>2, <3>3, <3>5, <4>1
    <3>6. CASE b \notin P..(P + n - 1) BY <1>2, <2>2, <3>1, <3>2, <3>3, <3>6
    <3> QED BY <3>5, <3>6
  <2>6. DOMAIN D = Drive BY DEF OnDrive
  <2>7. r.bytes_rw = r.len /\ fd_pos'[r.f] = r.pos + r.len
        /\ i_size'[r.f] = IF r.pos + r.len > bf.size THEN r.pos + r.len ELSE bf.size
    BY <1>2, <2>2
  <2>8. r.type = "READ" =>
          D = bf.disk /\ \A k \in 0..(r.len - 1) : u[k] = D[ByteOf(r.f, r.pos + k)]
    BY <1>2, <2>4
  <2>9. r.type = "WRITE" =>
          \A b \in DOMAIN D :
            D[b] = IF b \in {ByteOf(r.f, r.pos + k) : k \in 0..(r.len - 1)}
                   THEN UserByte(b - ByteOf(r.f, r.pos))
                   ELSE IF b = SizeCell(r.f) /\ r.pos + r.len > bf.size THEN r.pos + r.len
                   ELSE bf.disk[b]
    BY <1>2, <2>5, <2>6
  <2>10. /\ rw'.bytes_rw = rw'.len /\ fd_pos'[rw'.f] = rw'.pos + rw'.len
         /\ i_size'[rw'.f] = IF rw'.pos + rw'.len > before'.size THEN rw'.pos + rw'.len
                             ELSE before'.size
    BY <2>7
  <2>11. rw'.type = "READ" =>
          /\ disk' = before'.disk
          /\ \A k \in 0..(rw'.len - 1) : ubuf'[k] = disk'[ByteOf(rw'.f, rw'.pos + k)]
    BY <2>8
  <2>12. rw'.type = "WRITE" =>
          \A b \in DOMAIN disk' :
            disk'[b] = IF b \in {ByteOf(rw'.f, rw'.pos + k) : k \in 0..(rw'.len - 1)}
                       THEN UserByte(b - ByteOf(rw'.f, rw'.pos))
                       ELSE IF b = SizeCell(rw'.f) /\ rw'.pos + rw'.len > before'.size
                       THEN rw'.pos + rw'.len ELSE before'.disk[b]
    BY <2>9
  <2> QED BY <2>10, <2>11, <2>12, Zenon DEF ExactTransfer
<1>10. ConfinedTransfer'
  <2> SUFFICES ASSUME NEW b \in Drive, D[b] # bf.disk[b], b # cell
               PROVE  /\ r.type = "WRITE"
                      /\ b \in ByteOf(f, pos)..ByteOf(f, pos + len - 1)
                      /\ b < ByteOf(f, limit)
    BY <1>2, <1>8, Zenon DEF ConfinedTransfer
  <2>1. M[b] # bf.disk[b] BY <1>2
  <2>2. r.type = "WRITE" BY <1>1, <1>5, <2>1
  <2>3. b \in P..(P + n - 1) BY <1>6, <2>1, <2>2
  <2>4. n > 0 /\ p <= limit BY <1>3, <1>6, <2>2, <2>3
  <2>5. pos + len - 1 = pos + (len - 1) /\ len - 1 \in Int /\ limit = pos + (limit - pos)
        /\ limit - pos \in Int
    BY <1>3, <1>7
  <2>6. ByteOf(f, pos + len - 1) = P + (len - 1) /\ ByteOf(f, limit) = P + (limit - pos)
    BY <1>4, <2>5
  <2> QED BY <1>2, <1>3, <1>7, <2>2, <2>3, <2>4, <2>6
<1> QED BY <1>9, <1>10

\* The head of the loop: another chunk, the inode, or the answer.
LEMMA LoopHeadData ==
    ASSUME NEW D, NEW r, NEW pos, NEW u, NEW bf, LoopHead(r, pos),
           disk' = D, ubuf' = u, before' = bf, sb' = [dev |-> "ROOT_DEV", nr_sects |-> Root.size],
           i_size \in [Files -> Nat], fd_pos \in [Files -> Nat], i_size[r.f] = bf.size,
           OnDrive(D), OnDrive(bf.disk),
           Moved(D, r, u, bf), Ending(r, bf), pos = r.pos + r.bytes_rw, r.i \in Int, r.max \in Int
    PROVE  FsData(D)'
<1>1. /\ rw' = r /\ fd_pos' = [fd_pos EXCEPT ![r.f] = pos] BY DEF LoopHead
<1>2. r.f \in Files /\ r.f \notin ReadOnly /\ pos \in Nat /\ bf.size \in Nat BY DEF Moved
<1>3. fd_pos'[r.f] = pos BY <1>1, <1>2
<1>4. Moved(D, rw, ubuf, before)'
  <2>1. Moved(D, rw', ubuf', before') BY <1>1
  <2> QED BY <2>1 DEF Moved
<1>5. Ending(rw, before)'
  <2>1. Ending(rw', before') BY <1>1
  <2> QED BY <2>1 DEF Ending, InStep, PosEnd
<1>6. CASE r.i <= r.max /\ fs' = "read" /\ i_size' = i_size
  BY <1>1, <1>3, <1>4, <1>5, <1>6 DEF FsData
<1>7. CASE /\ r.i > r.max /\ pos > i_size[r.f] /\ fs' = "sync"
           /\ i_size' = [i_size EXCEPT ![r.f] = pos]
  <2>1. i_size'[r.f] = pos BY <1>2, <1>7
  <2> QED BY <1>1, <1>3, <1>4, <1>5, <1>7, <2>1 DEF FsData
<1>8. CASE r.i > r.max /\ pos <= i_size[r.f] /\ fs' = "idle" /\ i_size' = i_size
  <2>1. ~(pos > bf.size) BY <1>2, <1>8
  <2>2. \A b \in Drive : D[b] = IF b = SizeCell(r.f) /\ pos > bf.size THEN pos ELSE D[b] BY <2>1
  <2>3. PosEnd(r, bf) = r.pos + r.len => r.bytes_rw = r.len BY <1>8 DEF Ending
  <2>4. PICK size : size = i_size'[r.f] OBVIOUS
  <2>5. size = IF pos > bf.size THEN pos ELSE bf.size BY <1>8, <2>1, <2>4
  <2>6. (Fits => ExactTransfer)' /\ ConfinedTransfer'
    <3>1. rw' = r /\ disk' = D /\ ubuf' = u /\ before' = bf /\ fd_pos'[r.f] = pos BY <1>1, <1>3
    <3>2. i_size'[r.f] = size BY <2>4
    <3> QED BY <2>2, <2>3, <2>5, <3>1, <3>2, Answered
  <2> QED BY <1>1, <1>2, <1>8, <2>6 DEF FsData
<1> QED BY <1>6, <1>7, <1>8 DEF LoopHead

\* A request comes: the first chunk begins at its position.
LEMMA RequestData ==
    ASSUME NEW D, FilesSound, fs = "idle", D = disk, OnDrive(D), FsData(D),
           NEW f \in Files, NEW type \in {"READ", "WRITE"}, NEW len \in Lens, do_rdwt(f, type, len)
    PROVE  FsData(D)'
<1>1. /\ len \in Nat /\ UNCHANGED <<disk, sb>> /\ nreq' = nreq + 1
      /\ sb = [dev |-> "ROOT_DEV", nr_sects |-> Root.size]
  BY ReadWriteAssumption DEF do_rdwt, FsData, HdQuiet
<1>2. PICK bf, u : /\ bf = [disk |-> disk, size |-> i_size[f]] /\ before' = bf
                   /\ u = [k \in 0..(len - 1) |-> 0] /\ ubuf' = u
  BY DEF do_rdwt
<1>3. bf.disk = D /\ bf.size = i_size[f] /\ DOMAIN u = 0..(len - 1) BY <1>2
<1>4. PICK r : r = Request(f, type, len) OBVIOUS
<1>5. PICK pos, end :
        /\ pos = fd_pos[f]
        /\ end = Least(fd_pos[f] + len, IF type = "READ" THEN i_size[f]
                                        ELSE NrSects[f] * SECTOR_SIZE)
  OBVIOUS
<1>6. PICK min, max, off :
        /\ off = pos % SECTOR_SIZE
        /\ min = Start[f] + (pos \div SECTOR_SIZE)
        /\ max = Start[f] + (end \div SECTOR_SIZE)
  OBVIOUS
<1>7. PICK chunk : chunk = Least(max - min + 1, FSBUF_SECTS) OBVIOUS
<1>8. r = [type |-> type, f |-> f, pos |-> pos, len |-> len, off |-> off, i |-> min,
            max |-> max, chunk |-> chunk, bytes_rw |-> 0, left |-> len]
  BY <1>4, <1>5, <1>6, <1>7 DEF Request
<1>9. /\ r.type = type /\ r.f = f /\ r.pos = pos /\ r.len = len /\ r.off = off /\ r.i = min
      /\ r.max = max /\ r.bytes_rw = 0
  BY <1>8
<1>10. /\ i_size \in [Files -> Nat] /\ fd_pos \in [Files -> Nat] /\ pos \in Nat
      /\ i_size[f] \in Nat /\ Start[f] \in Nat /\ NrSects[f] \in Nat
  BY <1>5, <1>6, ReadWriteAssumption DEF FilesSound
<1>11. CASE f \in ReadOnly
  <2>1. rw' = [r EXCEPT !.bytes_rw = -1] /\ UNCHANGED fs BY <1>4, <1>11 DEF do_rdwt
  <2>2. rw'.f = f /\ rw'.bytes_rw = -1 BY <1>8, <2>1
  <2> QED BY <1>1, <1>2, <1>3, <1>11, <2>1, <2>2 DEF FsData
<1>12. CASE f \notin ReadOnly
  <2>1. LoopHead(r, pos)
    <3>1. LoopHead(Request(f, type, len), fd_pos[f]) BY <1>12 DEF do_rdwt
    <3> QED BY <1>4, <1>5, <1>6, <3>1 DEF LoopHead
  <2>2. end \in Nat /\ end = PosEnd(r, bf)
    <3>1. NrSects[f] * SECTOR_SIZE \in Nat BY <1>10, Sizes
    <3>2. end \in Nat BY <1>1, <1>5, <1>6, <1>10, <3>1 DEF Least
    <3> QED BY <1>3, <1>5, <1>6, <1>9, <3>2 DEF PosEnd
  <2>3. Moved(D, r, u, bf)
    <3>1. ByteOf(f, pos) \in Int /\ pos + 0 = pos BY <1>10, FileBytes
    <3>2. ByteOf(f, pos)..(ByteOf(f, pos) - 1) = {} BY <3>1
    <3>3. D = [b \in Drive |-> IF b \in ByteOf(f, pos)..(ByteOf(f, pos) - 1)
                               THEN UserByte(b - ByteOf(f, pos)) ELSE bf.disk[b]]
      BY <1>3, <3>2 DEF OnDrive
    <3>4. D = [b \in Drive |-> IF b \in ByteOf(r.f, r.pos)..(ByteOf(r.f, r.pos + r.bytes_rw) - 1)
                               THEN UserByte(b - ByteOf(r.f, r.pos)) ELSE bf.disk[b]]
      BY <1>9, <3>1, <3>3
    <3>5. /\ r.f \in Files \ ReadOnly /\ r.type \in {"READ", "WRITE"} /\ r.pos \in Nat
          /\ r.len \in Nat /\ r.bytes_rw \in 0..r.len /\ bf.size \in Nat
          /\ DOMAIN u = 0..(r.len - 1) /\ 0..(r.bytes_rw - 1) = {} /\ r.bytes_rw = 0
      BY <1>1, <1>3, <1>9, <1>10, <1>12
    <3> QED BY <1>3, <3>4, <3>5 DEF Moved
  <2>4. min \in Int /\ max \in Int /\ off \in Nat
    BY <1>5, <1>6, <1>10, <2>2, Sizes
  <2>5. Ending(r, bf)
    <3>1. (min - Start[f]) * SECTOR_SIZE + off = pos + 0
      <4>1. PICK q : q = pos \div SECTOR_SIZE OBVIOUS
      <4>2. q \in Int /\ pos = q * SECTOR_SIZE + off BY <1>6, <1>10, <4>1, SectorAndOffset
      <4>3. min - Start[f] = q BY <1>5, <1>6, <1>10, <4>1, <4>2
      <4> QED BY <1>10, <4>2, <4>3
    <3>2. end = pos + len => min <= max
      <4>1. PICK q, d : q = pos \div SECTOR_SIZE /\ d = end \div SECTOR_SIZE OBVIOUS
      <4>2. q \in Nat /\ d \in Nat BY <1>10, <2>2, <4>1, SectorsBelow
      <4>3. /\ d < q <=> end < q * SECTOR_SIZE
            /\ q < q <=> pos < q * SECTOR_SIZE
        BY <1>10, <2>2, <4>1, <4>2, SectorsBelow
      <4>4. q * SECTOR_SIZE \in Int BY <4>2, Sizes
      <4> QED BY <1>1, <1>5, <1>6, <1>10, <2>2, <4>1, <4>2, <4>3, <4>4
    <3>3. InStep(r) BY <1>9, <2>4, <3>1 DEF InStep
    <3> QED BY <1>5, <1>6, <1>9, <2>2, <2>4, <3>2, <3>3 DEF Ending
  <2>6. pos = r.pos + r.bytes_rw BY <1>9, <1>10
  <2>7. i_size[r.f] = bf.size /\ r.i \in Int /\ r.max \in Int BY <1>3, <1>9, <2>4
  <2>8. disk' = D /\ sb' = [dev |-> "ROOT_DEV", nr_sects |-> Root.size] BY <1>1
  <2>9. OnDrive(bf.disk) BY <1>3
  <2> QED BY <1>2, <1>10, <2>1, <2>3, <2>5, <2>6, <2>7, <2>8, <2>9, LoopHeadData
<1> QED BY <1>11, <1>12

\* The numbers of a chunk: where it lies on the drive, and how it ends.
LEMMA ChunkFacts ==
    ASSUME NEW D, FilesSound, fs \in {"read", "written"}, FsData(D), NEW n, n = ChunkBytes,
           NEW C, C = rw.chunk * SECTOR_SIZE
    PROVE  /\ rw.f \in Files /\ rw.i \in Int /\ rw.max \in Int /\ rw.off \in Nat /\ C \in Nat
           /\ rw.chunk \in 1..FSBUF_SECTS /\ rw.left \in Nat /\ rw.pos \in Nat /\ rw.len \in Nat
           /\ rw.bytes_rw \in Nat /\ rw.bytes_rw + rw.left = rw.len
           /\ n \in 0..rw.left /\ rw.off + n <= C /\ (n = rw.left \/ rw.off + n = C)
           /\ C <= FSBUF_SECTS * SECTOR_SIZE
           /\ At(rw.i) \in Int /\ ByteOf(rw.f, rw.pos) \in Int
           /\ At(rw.i) + rw.off = ByteOf(rw.f, rw.pos) + rw.bytes_rw
           /\ (rw.i - Start[rw.f]) * SECTOR_SIZE + rw.off = rw.pos + rw.bytes_rw
           /\ (rw.i - Start[rw.f]) * SECTOR_SIZE \in Int
<1>1. /\ rw.f \in Files /\ rw.off \in 0..(SECTOR_SIZE - 1) /\ rw.i \in Int /\ rw.max \in Int
      /\ rw.chunk \in 1..FSBUF_SECTS /\ rw.left \in Nat /\ rw.len \in Nat
      /\ rw.bytes_rw \in Nat /\ rw.bytes_rw + rw.left = rw.len
  BY Sizes DEF FilesSound, LoopSound
<1>2. rw.pos \in Nat /\ (rw.i - Start[rw.f]) * SECTOR_SIZE + rw.off = rw.pos + rw.bytes_rw
  BY DEF FsData, Moved, Ending, InStep
<1>3. C \in Nat /\ C >= SECTOR_SIZE /\ C <= FSBUF_SECTS * SECTOR_SIZE
  <2>1. rw.chunk \in Int /\ 1 \in Int /\ FSBUF_SECTS \in Int /\ 1 <= rw.chunk
        /\ rw.chunk <= FSBUF_SECTS /\ 1 * SECTOR_SIZE = SECTOR_SIZE
    BY <1>1, Sizes
  <2>2. SECTOR_SIZE <= C /\ C <= FSBUF_SECTS * SECTOR_SIZE BY <2>1, Sectors
  <2> QED BY <2>1, <2>2, Sizes
<1>4. n \in 0..rw.left /\ rw.off + n <= C /\ (n = rw.left \/ rw.off + n = C)
  <2>1. n = IF rw.left < C - rw.off THEN rw.left ELSE C - rw.off BY DEF ChunkBytes, Least
  <2> QED BY <1>1, <1>3, <2>1, Sizes
<1>5. Start[rw.f] \in Nat BY <1>1, ReadWriteAssumption
<1>6. PICK k : k = (rw.i - Start[rw.f]) * SECTOR_SIZE OBVIOUS
<1>7. k \in Int /\ k + rw.off = rw.pos + rw.bytes_rw BY <1>1, <1>2, <1>5, <1>6, Sizes
<1>8. /\ ByteOf(rw.f, k) = At(rw.i) /\ ByteOf(rw.f, k) = ByteOf(rw.f, 0) + k
      /\ ByteOf(rw.f, rw.pos) = ByteOf(rw.f, 0) + rw.pos /\ ByteOf(rw.f, 0) \in Int
  <2>1. rw.pos \in Int /\ 0 \in Int BY <1>2
  <2> QED BY <1>1, <1>6, <1>7, <2>1, FileBytes
<1>9. /\ At(rw.i) \in Int /\ ByteOf(rw.f, rw.pos) \in Int
      /\ At(rw.i) + rw.off = ByteOf(rw.f, rw.pos) + rw.bytes_rw
  BY <1>1, <1>2, <1>7, <1>8
<1> QED BY <1>1, <1>2, <1>3, <1>4, <1>6, <1>7, <1>9

\* A chunk is done: its bytes have joined those moved before, and the loop
\* goes on exactly when the request has bytes in the sectors that follow.
LEMMA LoopEndData ==
    ASSUME NEW D, NEW E, NEW u, NEW n, NEW A, FilesSound, fs \in {"read", "written"}, FsData(D),
           LoopEnd, n = ChunkBytes, A = At(rw.i) + rw.off,
           disk' = E, OnDrive(E), UNCHANGED <<sb, before>>, ubuf' = u, DOMAIN u = DOMAIN ubuf,
           rw.type = "READ" =>
             /\ E = D
             /\ \A k \in DOMAIN ubuf :
                  u[k] = IF k \in rw.bytes_rw..(rw.bytes_rw + n - 1)
                         THEN D[A + (k - rw.bytes_rw)] ELSE ubuf[k],
           rw.type = "WRITE" =>
             \A b \in Drive :
               E[b] = IF b \in A..(A + n - 1) THEN UserByte(rw.bytes_rw + (b - A)) ELSE D[b]
    PROVE  FsData(E)'
<1>1. PICK C, f, i, off, chunk, left, pos, len, bytes, P, start, size :
        /\ C = rw.chunk * SECTOR_SIZE /\ f = rw.f /\ i = rw.i /\ off = rw.off /\ chunk = rw.chunk
        /\ left = rw.left /\ pos = rw.pos /\ len = rw.len /\ bytes = rw.bytes_rw
        /\ P = ByteOf(f, pos) /\ start = Start[f] /\ size = SECTOR_SIZE
  OBVIOUS
<1>2. /\ f \in Files /\ i \in Int /\ rw.max \in Int /\ off \in Nat /\ C \in Nat
      /\ chunk \in 1..FSBUF_SECTS /\ left \in Nat /\ pos \in Nat /\ len \in Nat
      /\ bytes \in Nat /\ bytes + left = len
      /\ n \in 0..left /\ off + n <= C /\ (n = left \/ off + n = C)
      /\ P \in Int /\ A \in Int /\ A = P + bytes
      /\ (i - start) * size + off = pos + bytes /\ (i - start) * size \in Int
  <2>1. At(rw.i) \in Int /\ At(rw.i) + rw.off = ByteOf(rw.f, rw.pos) + rw.bytes_rw /\ rw.off \in Nat
    BY <1>1, ChunkFacts
  <2> QED BY <1>1, <2>1, ChunkFacts
<1>3. start \in Nat /\ NrSects[f] \in Nat /\ size \in Nat \ {0} /\ FSBUF_SECTS \in Nat
  BY <1>1, <1>2, ReadWriteAssumption, Sizes
<1>4. PICK r, bf : /\ r = [rw EXCEPT !.off = 0, !.i = i + chunk, !.left = left - n,
                                     !.bytes_rw = bytes + n]
                   /\ bf = before
  OBVIOUS
<1>5. /\ r.type = rw.type /\ r.f = f /\ r.pos = pos /\ r.len = len /\ r.off = 0
      /\ r.i = i + chunk /\ r.max = rw.max /\ r.bytes_rw = bytes + n
  BY <1>1, <1>4 DEF FilesSound, RwRecord
<1>6. fd_pos[f] = pos + bytes /\ Moved(D, rw, ubuf, bf) /\ Ending(rw, bf) /\ OnDrive(bf.disk)
      /\ i_size[f] = bf.size /\ rw.i <= rw.max
      /\ sb = [dev |-> "ROOT_DEV", nr_sects |-> Root.size]
  BY <1>1, <1>4 DEF FsData
<1>7. LoopHead(r, pos + bytes + n)
  <2>1. pos + bytes + n = fd_pos[rw.f] + n BY <1>1, <1>6
  <2> QED BY <1>1, <1>4, <2>1 DEF LoopEnd, LoopHead
<1>8. /\ f \in Files \ ReadOnly /\ rw.type \in {"READ", "WRITE"} /\ bf.size \in Nat
      /\ DOMAIN ubuf = 0..(len - 1)
  BY <1>1, <1>6 DEF Moved
<1>9. PICK end : end = PosEnd(rw, bf) OBVIOUS
<1>10. /\ end = PosEnd(r, bf) /\ end \in Nat /\ end <= pos + len
       /\ rw.type = "WRITE" => end <= NrSects[f] * SECTOR_SIZE
       /\ rw.max = start + (end \div SECTOR_SIZE)
  <2>1. NrSects[f] * SECTOR_SIZE \in Nat BY <1>3, Sizes
  <2>2. end = Least(pos + len, IF rw.type = "READ" THEN bf.size ELSE NrSects[f] * SECTOR_SIZE)
    BY <1>1, <1>9 DEF PosEnd
  <2>3. end = PosEnd(r, bf) BY <1>5, <2>2 DEF PosEnd
  <2>4. end \in Nat /\ end <= pos + len /\ (rw.type = "WRITE" => end <= NrSects[f] * SECTOR_SIZE)
    BY <1>2, <1>8, <2>1, <2>2, SMTT(20) DEF Least
  <2> QED BY <1>1, <1>6, <1>9, <2>3, <2>4 DEF Ending

\* The sector behind the chunk, and the end of the request.
<1>11. PICK q : q = i - start + chunk OBVIOUS
<1>12. /\ q \in Int /\ q * size \in Int /\ q * size = (i - start) * size + C
       /\ pos + bytes + n <= q * size
       /\ (n = left \/ pos + bytes + n = q * size)
       /\ r.i <= r.max <=> ~(end < q * size)
  <2>1. q \in Int /\ i - start \in Int /\ chunk \in Int BY <1>2, <1>3, <1>11
  <2>2. q * size = (i - start) * size + C BY <1>1, <1>11, <2>1, Sectors
  <2>3. end \div SECTOR_SIZE \in Nat /\ (end \div SECTOR_SIZE < q <=> end < q * SECTOR_SIZE)
    BY <1>10, <2>1, SectorsBelow
  <2>4. r.i <= r.max <=> ~(end \div SECTOR_SIZE < q)
    BY <1>2, <1>3, <1>5, <1>10, <1>11, <2>3
  <2>5. q * size \in Int BY <1>3, <2>1
  <2> QED BY <1>1, <1>2, <2>1, <2>2, <2>3, <2>4, <2>5
<1>13. Ending(r, bf)
  <2>1. ASSUME r.i <= r.max PROVE InStep(r)
    <3>1. n = left => pos + bytes + n = pos + len BY <1>2
    <3>2. pos + bytes + n = q * size
      <4>1. PICK Q : Q = q * size OBVIOUS
      <4>2. /\ Q \in Int /\ pos + bytes + n <= Q /\ (n = left \/ pos + bytes + n = Q)
            /\ ~(end < Q) /\ end \in Nat /\ end <= pos + len
        BY <1>10, <1>12, <2>1, <4>1
      <4> QED BY <1>2, <3>1, <4>1, <4>2
    <3>3. r.i - Start[r.f] = q BY <1>1, <1>2, <1>3, <1>5, <1>11
    <3>4. (r.i - Start[r.f]) * SECTOR_SIZE + r.off = r.pos + r.bytes_rw
      BY <1>1, <1>2, <1>5, <1>12, <3>2, <3>3
    <3> QED BY <1>2, <1>5, <3>4 DEF InStep
  <2>2. ASSUME r.i > r.max, end = r.pos + r.len PROVE r.bytes_rw = r.len
    <3>1. end < q * size BY <1>2, <1>5, <1>12, <2>2
    <3>2. n = left BY <1>2, <1>5, <1>12, <2>2, <3>1
    <3> QED BY <1>2, <1>5, <3>2
  <2> QED BY <1>1, <1>5, <1>10, <2>1, <2>2 DEF Ending
<1>14. \A k \in Int : ByteOf(f, pos + k) = P + k
  <2>1. ASSUME NEW k \in Int PROVE ByteOf(f, pos + k) = P + k
    <3>1. pos + k \in Int /\ pos \in Int BY <1>2
    <3>2. /\ ByteOf(f, pos + k) = ByteOf(f, 0) + (pos + k) /\ ByteOf(f, pos) = ByteOf(f, 0) + pos
          /\ ByteOf(f, 0) \in Int
      BY <1>2, <3>1, FileBytes
    <3> QED BY <1>1, <1>2, <3>2
  <2> QED BY <2>1
<1>15. Moved(E, r, u, bf)
  <2>1. /\ r.f \in Files \ ReadOnly /\ r.type \in {"READ", "WRITE"} /\ r.pos \in Nat
        /\ r.len \in Nat /\ r.bytes_rw \in 0..r.len /\ bf.size \in Nat
        /\ DOMAIN u = 0..(r.len - 1)
    BY <1>2, <1>5, <1>8
  <2>2. ASSUME r.type = "READ"
        PROVE  E = bf.disk /\ \A k \in 0..(r.bytes_rw - 1) : u[k] = E[ByteOf(r.f, r.pos + k)]
    <3>1. D = bf.disk /\ E = D /\ \A k \in 0..(bytes - 1) : ubuf[k] = D[ByteOf(f, pos + k)]
      BY <1>1, <1>5, <1>6, <2>2 DEF Moved
    <3>2. ASSUME NEW k \in 0..(bytes + n - 1) PROVE u[k] = D[P + k]
      <4>1. k \in DOMAIN ubuf /\ k \in Int BY <1>2, <1>8
      <4>2. CASE k < bytes
        <5>1. k \in 0..(bytes - 1) /\ k \notin bytes..(bytes + n - 1) BY <1>2, <4>2
        <5>2. u[k] = ubuf[k] BY <1>1, <1>5, <2>2, <4>1, <5>1
        <5> QED BY <1>14, <3>1, <4>1, <5>1, <5>2
      <4>3. CASE k >= bytes
        <5>1. k \in bytes..(bytes + n - 1) /\ A + (k - bytes) = P + k BY <1>2, <4>3
        <5> QED BY <1>1, <1>5, <2>2, <4>1, <5>1
      <4> QED BY <1>2, <4>2, <4>3
    <3>3. \A k \in 0..(bytes + n - 1) : ByteOf(f, pos + k) = P + k BY <1>2, <1>14
    <3>4. \A k \in 0..(bytes + n - 1) : u[k] = E[ByteOf(f, pos + k)] BY <3>1, <3>2, <3>3
    <3>5. E = bf.disk BY <3>1
    <3>6. /\ 0..(r.bytes_rw - 1) = 0..(bytes + n - 1)
          /\ \A k \in Int : ByteOf(r.f, r.pos + k) = ByteOf(f, pos + k)
      <4>1. r.f = f /\ r.pos = pos /\ r.bytes_rw = bytes + n BY <1>5
      <4>2. 0..(r.bytes_rw - 1) = 0..(bytes + n - 1) BY <1>2, <4>1
      <4>3. \A k \in Int : ByteOf(r.f, r.pos + k) = ByteOf(f, pos + k) BY <4>1
      <4> QED BY <4>2, <4>3
    <3>7. \A k \in 0..(bytes + n - 1) : k \in Int BY <1>2
    <3> QED BY <3>4, <3>5, <3>6, <3>7
  <2>3. ASSUME r.type = "WRITE"
        PROVE  /\ E = [b \in Drive |->
                         IF b \in ByteOf(r.f, r.pos)..(ByteOf(r.f, r.pos + r.bytes_rw) - 1)
                         THEN UserByte(b - ByteOf(r.f, r.pos)) ELSE bf.disk[b]]
               /\ \/ r.bytes_rw = 0
                  \/ r.pos + r.bytes_rw <= (NrSects[r.f] + FSBUF_SECTS) * SECTOR_SIZE
    <3>1. D = [b \in Drive |-> IF b \in ByteOf(f, pos)..(ByteOf(f, pos + bytes) - 1)
                               THEN UserByte(b - ByteOf(f, pos)) ELSE bf.disk[b]]
      BY <1>1, <1>5, <1>6, <2>3, Zenon DEF Moved
    <3>2. /\ ByteOf(f, pos + bytes) = P + bytes /\ ByteOf(f, pos) = P
          /\ ByteOf(f, pos + (bytes + n)) = P + (bytes + n)
      BY <1>1, <1>2, <1>14
    <3>3. ASSUME NEW b \in Drive
          PROVE  E[b] = IF b \in P..(P + (bytes + n) - 1) THEN UserByte(b - P) ELSE bf.disk[b]
      <4>1. b \in Int BY HdAssumption, Sizes DEF Drive
      <4>2. D[b] = IF b \in P..(P + bytes - 1) THEN UserByte(b - P) ELSE bf.disk[b]
        <5>1. D[b] = IF b \in ByteOf(f, pos)..(ByteOf(f, pos + bytes) - 1)
                     THEN UserByte(b - ByteOf(f, pos)) ELSE bf.disk[b]
          BY <3>1, Zenon
        <5>2. ByteOf(f, pos)..(ByteOf(f, pos + bytes) - 1) = P..(P + bytes - 1) BY <1>2, <3>2
        <5>3. b - ByteOf(f, pos) = b - P BY <3>2
        <5> QED BY <5>1, <5>2, <5>3, Zenon
      <4>3. E[b] = IF b \in A..(A + n - 1) THEN UserByte(bytes + (b - A)) ELSE D[b]
        BY <1>1, <1>5, <2>3
      <4>4. CASE b \in A..(A + n - 1)
        <5>1. b \in P..(P + (bytes + n) - 1) /\ bytes + (b - A) = b - P BY <1>2, <4>1, <4>4
        <5> QED BY <4>3, <4>4, <5>1
      <4>5. CASE b \notin A..(A + n - 1)
        <5>1. b \in P..(P + (bytes + n) - 1) <=> b \in P..(P + bytes - 1) BY <1>2, <4>1, <4>5
        <5> QED BY <4>2, <4>3, <4>5, <5>1
      <4> QED BY <4>4, <4>5
    <3>4. E = [b \in Drive |-> IF b \in P..(P + (bytes + n) - 1) THEN UserByte(b - P)
                               ELSE bf.disk[b]]
      BY <3>3 DEF OnDrive
    <3>5. pos + (bytes + n) <= (NrSects[f] + FSBUF_SECTS) * SECTOR_SIZE
      <4>1. end \div SECTOR_SIZE <= NrSects[f]
        <5>1. end <= NrSects[f] * SECTOR_SIZE BY <1>5, <1>10, <2>3
        <5>2. /\ NrSects[f] + 1 \in Int
              /\ (NrSects[f] + 1) * SECTOR_SIZE = NrSects[f] * SECTOR_SIZE + SECTOR_SIZE
          <6>1. PICK m : m = NrSects[f] OBVIOUS
          <6>2. m \in Int /\ 1 \in Int /\ 1 * SECTOR_SIZE = SECTOR_SIZE BY <1>3, <6>1, Sizes
          <6>3. (m + 1) * SECTOR_SIZE = m * SECTOR_SIZE + 1 * SECTOR_SIZE BY <6>2, Sectors
          <6> QED BY <6>1, <6>2, <6>3
        <5>3. NrSects[f] * SECTOR_SIZE \in Int BY <1>3, Sizes
        <5>4. end < (NrSects[f] + 1) * SECTOR_SIZE BY <1>10, <5>1, <5>2, <5>3, Sizes
        <5>5. end \div SECTOR_SIZE \in Nat /\ end \div SECTOR_SIZE < NrSects[f] + 1
          BY <1>10, <5>2, <5>4, SectorsBelow
        <5> QED BY <1>3, <5>5
      <4>2. q <= NrSects[f] + FSBUF_SECTS /\ NrSects[f] + FSBUF_SECTS \in Int
        <5>1. end \div SECTOR_SIZE \in Int BY <1>10, Sizes
        <5> QED BY <1>1, <1>2, <1>3, <1>6, <1>10, <1>11, <4>1, <5>1
      <4>3. q * SECTOR_SIZE <= (NrSects[f] + FSBUF_SECTS) * SECTOR_SIZE
        BY <1>12, <4>2, Sectors
      <4>4. (NrSects[f] + FSBUF_SECTS) * SECTOR_SIZE \in Int BY <1>3, Sizes
      <4> QED BY <1>1, <1>2, <1>12, <4>3, <4>4
    <3>6. /\ ByteOf(r.f, r.pos)..(ByteOf(r.f, r.pos + r.bytes_rw) - 1) = P..(P + (bytes + n) - 1)
          /\ ByteOf(r.f, r.pos) = P
      BY <1>2, <1>5, <3>2
    <3> QED BY <1>5, <3>4, <3>5, <3>6
  <2> QED BY <2>1, <2>2, <2>3 DEF Moved
<1>16. i_size \in [Files -> Nat] /\ fd_pos \in [Files -> Nat] /\ i_size[r.f] = bf.size
  BY <1>5, <1>6 DEF FilesSound
<1>17. pos + bytes + n = r.pos + r.bytes_rw /\ r.i \in Int /\ r.max \in Int BY <1>2, <1>5
<1>18. before' = bf /\ sb' = [dev |-> "ROOT_DEV", nr_sects |-> Root.size] BY <1>4, <1>6
<1> QED BY <1>6, <1>7, <1>13, <1>15, <1>16, <1>17, <1>18, LoopHeadData

-----------------------------------------------------------------------------
(* The steps of FS. *)

\* A message goes to the driver.
LEMMA SentMessage ==
    ASSUME ChannelSound, NEW type, NEW sect, NEW cnt, rw_sector(type, sect, cnt)
    PROVE  /\ chan'.st = "request" /\ chan'.m.type = type /\ chan'.m.dev = ROOT_DEV
           /\ chan'.m.sect = sect /\ chan'.m.cnt = cnt
<1>1. PICK m : m = [type |-> type, dev |-> ROOT_DEV, sect |-> sect, cnt |-> cnt] OBVIOUS
<1>2. m.type = type /\ m.dev = ROOT_DEV /\ m.sect = sect /\ m.cnt = cnt BY <1>1
<1>3. chan' = [chan EXCEPT !.st = "request", !.m = m] BY <1>1, Zenon DEF rw_sector
<1>4. chan'.st = "request" /\ chan'.m = m BY <1>3 DEF ChannelSound
<1> QED BY <1>2, <1>4

\* FS has its answer and waits for a caller.
LEMMA EndedExchange ==
    ASSUME ChannelSound, NoMessage
    PROVE  chan'.st = "none"
BY DEF ChannelSound, NoMessage

\* While HD waits for FS, the disk has all its bytes.
LEMMA DiskShape ==
    ASSUME NEW D, FsAsks, FilesSound, ServiceSound(D), chan.st \in {"none", "replied"}
    PROVE  OnDrive(disk)
<1>1. CASE chan.st = "none" BY <1>1 DEF ServiceSound, DataSound
<1>2. CASE chan.st = "replied" /\ chan.m.type # "DEV_WRITE"
  <2>1. chan.m.type \in {"DEV_OPEN", "DEV_IOCTL", "DEV_READ"} BY <1>2, Requests
  <2> QED BY <2>1 DEF ServiceSound, DataSound
<1>3. CASE chan.st = "replied" /\ chan.m.type = "DEV_WRITE"
  <2>1. PICK n : n = chan.m.cnt * SECTOR_SIZE OBVIOUS
  <2>2. Stored(D, chan.m.sect, n) BY <1>3, <2>1 DEF ServiceSound, DataSound
  <2> QED BY <2>2 DEF Stored, OnDrive
<1> QED BY <1>1, <1>2, <1>3

\* A step of FS finds HD waiting and leaves it so.
LEMMA FsService ==
    ASSUME NEW D, NEW E, FsAsks, ServiceSound(D), chan.st \in {"none", "replied"},
           chan'.st \in {"none", "request"}, UNCHANGED <<hd, hd_info>>,
           disk' = E, OnDrive(E), DOMAIN fsbuf' = Buffer,
           fs' # "boot", fs = "boot" => fs' = "opened", fs' = "opened" => fs = "boot"
    PROVE  ServiceSound(E)'
<1>1. HdServes' BY DEF ServiceSound, HdServes
<1>2. TablesSound'
  <2>1. /\ hd_info = [open_cnt |-> hd_info.open_cnt, primary |-> hd_info.primary,
                      logical |-> hd_info.logical]
        /\ DOMAIN hd_info.primary = 0..4
        /\ DOMAIN hd_info.logical = 0..(4 * NR_SUB - 1)
        /\ fs = "boot" => hd_info.open_cnt = 0
        /\ fs # "boot" => RootKnown
    BY DEF ServiceSound, TablesSound, FsAsks
  <2>2. fs' # "opened" => RootKnown' BY <2>1 DEF RootKnown
  <2> QED BY <2>1, <2>2 DEF TablesSound
<1>3. DataSound(E)' BY DEF DataSound
<1> QED BY <1>1, <1>2, <1>3 DEF ServiceSound

\* What the head of the loop asks for.
LEMMA LoopHeadAsks ==
    ASSUME ChannelSound, NEW r, NEW pos, LoopHead(r, pos)
    PROVE  FsAsks' /\ chan'.st \in {"none", "request"} /\ fs' \in {"read", "sync", "idle"}
<1>1. rw' = r BY DEF LoopHead
<1>2. CASE fs' = "read" /\ rw_sector("DEV_READ", r.i, r.chunk)
  <2>1. /\ chan'.st = "request" /\ chan'.m.type = "DEV_READ" /\ chan'.m.dev = ROOT_DEV
        /\ chan'.m.sect = r.i /\ chan'.m.cnt = r.chunk
    BY <1>2, SentMessage
  <2> QED BY <1>1, <1>2, <2>1 DEF FsAsks
<1>3. CASE fs' = "sync" /\ rw_sector("DEV_READ", InodeSect, 1)
  <2>1. /\ chan'.st = "request" /\ chan'.m.type = "DEV_READ" /\ chan'.m.dev = ROOT_DEV
        /\ chan'.m.sect = InodeSect /\ chan'.m.cnt = 1
    BY <1>3, SentMessage
  <2> QED BY <1>3, <2>1 DEF FsAsks
<1>4. CASE fs' = "idle" /\ NoMessage
  <2>1. chan'.st = "none" BY <1>4, EndedExchange
  <2> QED BY <1>4, <2>1 DEF FsAsks
<1> QED BY <1>2, <1>3, <1>4 DEF LoopHead

\* Booting: the super block written is the one read back.
LEMMA BootStep ==
    ASSUME NEW D, DInv, FsAsks, ServiceSound(D), FsData(D),
           init_fs \/ mkfs_geo \/ mkfs_super \/ read_super_block \/ get_super_block
    PROVE  \E E : FsAsks' /\ ServiceSound(E)' /\ FsData(E)'
<1>1. ChannelSound /\ FilesSound BY DEF DInv
<1>2. /\ chan.st \in {"none", "replied"} /\ UNCHANGED <<disk, hd, hd_info, rw>> /\ nreq' = 0
      /\ fs \in {"boot", "opened", "geo", "made", "loaded"}
      /\ fs = "boot" \/ chan.st = "replied"
  BY DEF init_fs, mkfs_geo, mkfs_super, read_super_block, get_super_block, Replied, HdQuiet,
         BootQuiet, FsAsks, FsData
<1>3. PICK E : E = disk OBVIOUS
<1>4. OnDrive(E) /\ disk' = E /\ DOMAIN fsbuf = Buffer
  BY <1>1, <1>2, <1>3, DiskShape DEF ServiceSound, DataSound
<1>5. 1 \in Buffer /\ 1 \in 0..(1 * SECTOR_SIZE - 1)
  <2>1. SECTOR_SIZE > 1 BY LayoutAssumption
  <2>2. FSBUF_SECTS \in Int /\ 1 \in Int /\ 1 <= FSBUF_SECTS /\ 1 * SECTOR_SIZE = SECTOR_SIZE
    BY Sizes
  <2>3. 1 * SECTOR_SIZE <= FSBUF_SECTS * SECTOR_SIZE /\ FSBUF_SECTS * SECTOR_SIZE \in Int
    BY <2>2, Sectors
  <2> QED BY <2>1, <2>2, <2>3, Sizes DEF Buffer
<1>6. CASE init_fs
  <2>1. fs = "boot" /\ fs' = "opened" /\ UNCHANGED fsbuf /\ rw_sector("DEV_OPEN", 0, 0)
    BY <1>6 DEF init_fs
  <2>2. chan'.st = "request" /\ chan'.m.type = "DEV_OPEN" /\ chan'.m.dev = ROOT_DEV
    BY <1>1, <2>1, SentMessage
  <2>3. FsAsks' BY <2>1, <2>2 DEF FsAsks
  <2>4. ServiceSound(E)' BY <1>2, <1>4, <2>1, <2>2, FsService
  <2>5. FsData(E)' BY <1>2, <2>1 DEF FsData
  <2> QED BY <2>3, <2>4, <2>5
<1>7. CASE mkfs_geo
  <2>1. fs = "opened" /\ fs' = "geo" /\ UNCHANGED fsbuf /\ rw_sector("DEV_IOCTL", 0, 0)
    BY <1>7 DEF mkfs_geo, Replied
  <2>2. chan'.st = "request" /\ chan'.m.type = "DEV_IOCTL" /\ chan'.m.dev = ROOT_DEV
    BY <1>1, <2>1, SentMessage
  <2>3. FsAsks' BY <2>1, <2>2 DEF FsAsks
  <2>4. ServiceSound(E)' BY <1>2, <1>4, <2>1, <2>2, FsService
  <2>5. FsData(E)' BY <1>2, <2>1 DEF FsData
  <2> QED BY <2>3, <2>4, <2>5
<1>8. CASE mkfs_super
  <2>1. /\ fs = "geo" /\ chan.st = "replied" /\ fs' = "made" /\ rw_sector("DEV_WRITE", 1, 1)
        /\ fsbuf' = [fsbuf EXCEPT ![0] = MAGIC, ![1] = chan.geo.size]
    BY <1>8 DEF mkfs_super, Replied
  <2>2. /\ chan'.st = "request" /\ chan'.m.type = "DEV_WRITE" /\ chan'.m.dev = ROOT_DEV
        /\ chan'.m.sect = 1 /\ chan'.m.cnt = 1
    BY <1>1, <2>1, SentMessage
  <2>3. FsAsks' BY <2>1, <2>2 DEF FsAsks
  <2>4. DOMAIN fsbuf' = Buffer /\ fsbuf'[1] = chan.geo.size BY <1>4, <1>5, <2>1
  <2>5. ServiceSound(E)' BY <1>2, <1>4, <2>1, <2>2, <2>4, FsService
  <2>6. chan.geo = Root BY <2>1 DEF ServiceSound, TablesSound
  <2>7. FsData(E)' BY <1>2, <2>1, <2>4, <2>6 DEF FsData
  <2> QED BY <2>3, <2>5, <2>7
<1>9. CASE read_super_block
  <2>1. /\ fs = "made" /\ chan.st = "replied" /\ fs' = "loaded" /\ UNCHANGED fsbuf
        /\ rw_sector("DEV_READ", 1, 1)
    BY <1>9 DEF read_super_block, Replied
  <2>2. /\ chan'.st = "request" /\ chan'.m.type = "DEV_READ" /\ chan'.m.dev = ROOT_DEV
        /\ chan'.m.sect = 1 /\ chan'.m.cnt = 1
    BY <1>1, <2>1, SentMessage
  <2>3. FsAsks' BY <2>1, <2>2 DEF FsAsks
  <2>4. ServiceSound(E)' BY <1>2, <1>4, <2>1, <2>2, FsService
  <2>5. chan.m.type = "DEV_WRITE" /\ chan.m.sect = 1 /\ chan.m.cnt = 1 /\ fsbuf[1] = Root.size
    BY <2>1 DEF FsAsks, FsData
  <2>6. PICK a, n : a = At(1) /\ n = 1 * SECTOR_SIZE OBVIOUS
  <2>7. Stored(D, 1, n) BY <2>1, <2>5, <2>6 DEF ServiceSound, DataSound
  <2>8. a \in Int /\ a + 1 \in Drive
    <3>1. PICK base : base = Root.base OBVIOUS
    <3>2. base \in Nat /\ base + 1 < NSECTS BY <3>1, RootLayout, LayoutAssumption DEF Root
    <3>3. a = (base + 1) * SECTOR_SIZE BY <2>6, <3>1 DEF At
    <3>4. /\ (base + 1) + 1 \in Int /\ base + 1 \in Int /\ NSECTS \in Int
          /\ 1 * SECTOR_SIZE = SECTOR_SIZE /\ 0 * SECTOR_SIZE = 0 /\ 1 \in Int /\ 0 \in Int
      BY <3>2, HdAssumption, Sizes
    <3>5. ((base + 1) + 1) * SECTOR_SIZE = a + SECTOR_SIZE BY <3>3, <3>4, Sectors
    <3>6. ((base + 1) + 1) * SECTOR_SIZE <= NSECTS * SECTOR_SIZE
      <4>1. (base + 1) + 1 <= NSECTS BY <3>2, <3>4
      <4> QED BY <3>4, <4>1, Sectors
    <3>7. 0 * SECTOR_SIZE <= a /\ a \in Int
      <4>1. 0 <= base + 1 BY <3>2
      <4> QED BY <3>3, <3>4, <4>1, Sectors
    <3>8. NSECTS * SECTOR_SIZE \in Int BY <3>4, Sizes
    <3>9. SECTOR_SIZE > 1 BY LayoutAssumption
    <3> QED BY <3>4, <3>5, <3>6, <3>7, <3>8, <3>9, Sizes DEF Drive
  <2>9. E[a + 1] = fsbuf[1]
    <3>1. disk[a + 1] = IF a + 1 \in a..(a + n - 1) THEN fsbuf[(a + 1) - a] ELSE D[a + 1]
      BY <2>6, <2>7, <2>8 DEF Stored
    <3>2. a + 1 \in a..(a + n - 1) /\ (a + 1) - a = 1 BY <1>5, <2>6, <2>8, Sizes
    <3> QED BY <1>3, <3>1, <3>2
  <2>10. FsData(E)' BY <1>2, <2>1, <2>5, <2>6, <2>9 DEF FsData
  <2> QED BY <2>3, <2>4, <2>10
<1>10. CASE get_super_block
  <2>1. /\ fs = "loaded" /\ chan.st = "replied" /\ fs' = "idle" /\ UNCHANGED fsbuf /\ NoMessage
        /\ sb' = [dev |-> "ROOT_DEV", nr_sects |-> fsbuf[1]]
    BY <1>10 DEF get_super_block, Replied
  <2>2. chan'.st = "none" BY <1>1, <2>1, EndedExchange
  <2>3. FsAsks' BY <2>1, <2>2 DEF FsAsks
  <2>4. ServiceSound(E)' BY <1>2, <1>4, <2>1, <2>2, FsService
  <2>5. chan.m.type = "DEV_READ" /\ chan.m.sect = 1 /\ chan.m.cnt = 1 /\ D[At(1) + 1] = Root.size
    BY <2>1 DEF FsAsks, FsData
  <2>6. PICK n : n = 1 * SECTOR_SIZE OBVIOUS
  <2>7. Copied(D, 1, n) BY <2>1, <2>5, <2>6 DEF ServiceSound, DataSound
  <2>8. fsbuf[1] = Root.size BY <1>5, <2>5, <2>6, <2>7 DEF Copied
  <2>9. FsData(E)' BY <1>2, <2>1, <2>8 DEF FsData
  <2> QED BY <2>3, <2>4, <2>9
<1> QED BY <1>6, <1>7, <1>8, <1>9, <1>10

\* A request comes.
LEMMA RequestStep ==
    ASSUME NEW D, DInv, FsAsks, ServiceSound(D), FsData(D),
           NEW f \in Files, NEW type \in {"READ", "WRITE"}, NEW len \in Lens, do_rdwt(f, type, len)
    PROVE  FsAsks' /\ ServiceSound(D)' /\ FsData(D)'
<1>1. ChannelSound /\ FilesSound BY DEF DInv
<1>2. fs = "idle" /\ chan.st = "none" /\ UNCHANGED <<disk, hd, hd_info, fsbuf>>
  BY DEF do_rdwt, HdQuiet, FsAsks
<1>3. D = disk /\ OnDrive(D) /\ DOMAIN fsbuf = Buffer BY <1>2 DEF ServiceSound, DataSound
<1>4. FsData(D)' BY <1>1, <1>2, <1>3, RequestData
<1>5. FsAsks' /\ chan'.st \in {"none", "request"} /\ fs' \in {"read", "sync", "idle"}
  <2>1. CASE f \in ReadOnly
    <3>1. UNCHANGED <<fs, chan>> BY <2>1 DEF do_rdwt
    <3> QED BY <1>2, <3>1 DEF FsAsks
  <2>2. CASE f \notin ReadOnly
    <3>1. LoopHead(Request(f, type, len), fd_pos[f]) BY <2>2 DEF do_rdwt
    <3> QED BY <1>1, <3>1, LoopHeadAsks
  <2> QED BY <2>1, <2>2
<1>6. ServiceSound(D)' BY <1>2, <1>3, <1>5, FsService
<1> QED BY <1>4, <1>5, <1>6

\* READ: the bytes of the chunk go on to the caller.
LEMMA CopyToUserStep ==
    ASSUME NEW D, DInv, FsAsks, ServiceSound(D), FsData(D), CopyToUser
    PROVE  FsAsks' /\ ServiceSound(D)' /\ FsData(D)'
<1>1. ChannelSound /\ FilesSound BY DEF DInv
<1>2. /\ fs = "read" /\ chan.st = "replied" /\ rw.type = "READ" /\ LoopEnd
      /\ UNCHANGED <<disk, hd, hd_info, fsbuf, sb, before>>
  BY DEF CopyToUser, Replied, HdQuiet
<1>3. chan.m.type = "DEV_READ" /\ chan.m.sect = rw.i /\ chan.m.cnt = rw.chunk BY <1>2 DEF FsAsks
<1>4. D = disk /\ OnDrive(D) /\ DOMAIN fsbuf = Buffer BY <1>3 DEF ServiceSound, DataSound
<1>5. PICK n, C, A, a, off, bytes, u :
        /\ n = ChunkBytes /\ C = rw.chunk * SECTOR_SIZE /\ A = At(rw.i) + rw.off /\ a = At(rw.i)
        /\ off = rw.off /\ bytes = rw.bytes_rw /\ u = ubuf'
  OBVIOUS
<1>6. /\ off \in Nat /\ C \in Nat /\ bytes \in Nat /\ a \in Int /\ n \in Nat /\ off + n <= C
      /\ A = a + off
  BY <1>1, <1>2, <1>5, ChunkFacts
<1>7. \A x \in 0..(C - 1) : fsbuf[x] = D[a + x]
  <2>1. Copied(D, rw.i, C) BY <1>2, <1>3, <1>5 DEF ServiceSound, DataSound
  <2> QED BY <1>5, <2>1 DEF Copied
<1>8. /\ DOMAIN u = DOMAIN ubuf
      /\ \A k \in DOMAIN ubuf : u[k] = IF k \in bytes..(bytes + n - 1) THEN fsbuf[off + k - bytes]
                                       ELSE ubuf[k]
  BY <1>5 DEF CopyToUser
<1>9. ASSUME NEW k \in DOMAIN ubuf
      PROVE  u[k] = IF k \in bytes..(bytes + n - 1) THEN D[A + (k - bytes)] ELSE ubuf[k]
  <2>1. CASE k \in bytes..(bytes + n - 1)
    <3>1. PICK x : x = off + k - bytes OBVIOUS
    <3>2. x \in 0..(C - 1) /\ a + x = A + (k - bytes) BY <1>6, <2>1, <3>1
    <3> QED BY <1>7, <1>8, <2>1, <3>1, <3>2
  <2>2. CASE k \notin bytes..(bytes + n - 1) BY <1>8, <2>2
  <2> QED BY <2>1, <2>2
<1>10. FsData(D)'
  <2>1. \A k \in DOMAIN ubuf : u[k] = IF k \in rw.bytes_rw..(rw.bytes_rw + n - 1)
                                      THEN D[A + (k - rw.bytes_rw)] ELSE ubuf[k]
    BY <1>5, <1>9
  <2> QED BY <1>1, <1>2, <1>4, <1>5, <1>8, <2>1, LoopEndData
<1>11. FsAsks' /\ chan'.st \in {"none", "request"} /\ fs' \in {"read", "sync", "idle"}
  BY <1>1, <1>2, LoopHeadAsks DEF LoopEnd
<1>12. ServiceSound(D)' BY <1>2, <1>4, <1>11, FsService
<1> QED BY <1>10, <1>11, <1>12

\* WRITE: the bytes of the caller replace theirs in the chunk.
LEMMA CopyFromUserStep ==
    ASSUME NEW D, DInv, FsAsks, ServiceSound(D), FsData(D), CopyFromUser
    PROVE  FsAsks' /\ ServiceSound(D)' /\ FsData(D)'
<1>1. ChannelSound /\ FilesSound BY DEF DInv
<1>2. /\ fs = "read" /\ chan.st = "replied" /\ rw.type = "WRITE" /\ fs' = "written"
      /\ UNCHANGED <<disk, hd, hd_info, rw, i_size, fd_pos, ubuf, sb, before, nreq>>
      /\ rw_sector("DEV_WRITE", rw.i, rw.chunk)
  BY DEF CopyFromUser, Replied, HdQuiet
<1>3. chan.m.type = "DEV_READ" /\ chan.m.sect = rw.i /\ chan.m.cnt = rw.chunk BY <1>2 DEF FsAsks
<1>4. D = disk /\ OnDrive(D) /\ DOMAIN fsbuf = Buffer BY <1>3 DEF ServiceSound, DataSound
<1>5. PICK n, C, a : n = ChunkBytes /\ C = rw.chunk * SECTOR_SIZE /\ a = At(rw.i) OBVIOUS
<1>6. C \in Nat /\ C <= FSBUF_SECTS * SECTOR_SIZE BY <1>1, <1>2, <1>5, ChunkFacts
<1>7. \A x \in 0..(C - 1) : fsbuf[x] = D[a + x] /\ x \in Buffer
  <2>1. Copied(D, rw.i, C) BY <1>2, <1>3, <1>5 DEF ServiceSound, DataSound
  <2>2. FSBUF_SECTS * SECTOR_SIZE \in Int BY Sizes
  <2> QED BY <1>5, <1>6, <2>1, <2>2 DEF Copied, Buffer
<1>8. fsbuf' = [b \in Buffer |-> IF b \in rw.off..(rw.off + n - 1)
                                 THEN UserByte(rw.bytes_rw + b - rw.off) ELSE fsbuf[b]]
  BY <1>4, <1>5 DEF CopyFromUser
<1>9. \A x \in 0..(C - 1) : fsbuf'[x] = IF x \in rw.off..(rw.off + n - 1)
                                        THEN UserByte(rw.bytes_rw + x - rw.off) ELSE D[a + x]
  BY <1>7, <1>8
<1>10. /\ chan'.st = "request" /\ chan'.m.type = "DEV_WRITE" /\ chan'.m.dev = ROOT_DEV
       /\ chan'.m.sect = rw.i /\ chan'.m.cnt = rw.chunk
  BY <1>1, <1>2, SentMessage
<1>11. FsAsks' BY <1>2, <1>10 DEF FsAsks
<1>12. ServiceSound(D)'
  <2>1. DOMAIN fsbuf' = Buffer BY <1>8
  <2> QED BY <1>2, <1>4, <1>10, <2>1, FsService
<1>13. FsData(D)'
  <2>1. /\ sb = [dev |-> "ROOT_DEV", nr_sects |-> Root.size]
        /\ Moved(D, rw, ubuf, before) /\ Ending(rw, before)
        /\ fd_pos[rw.f] = rw.pos + rw.bytes_rw /\ OnDrive(before.disk)
        /\ rw.i <= rw.max /\ i_size[rw.f] = before.size
    BY <1>2 DEF FsData
  <2>2. Moved(D, rw, ubuf, before)'
    <3>1. Moved(D, rw', ubuf', before') BY <1>2, <2>1
    <3> QED BY <3>1 DEF Moved
  <2>3. Ending(rw, before)'
    <3>1. Ending(rw', before') BY <1>2, <2>1
    <3> QED BY <3>1 DEF Ending, InStep, PosEnd
  <2>4. ChunkBytes' = n BY <1>2, <1>5 DEF ChunkBytes
  <2>5. \A x \in 0..(rw'.chunk * SECTOR_SIZE - 1) :
          fsbuf'[x] = IF x \in rw'.off..(rw'.off + ChunkBytes' - 1)
                      THEN UserByte(rw'.bytes_rw + x - rw'.off) ELSE D[At(rw'.i) + x]
    BY <1>2, <1>5, <1>9, <2>4
  <2> QED BY <1>2, <2>1, <2>2, <2>3, <2>5 DEF FsData
<1> QED BY <1>11, <1>12, <1>13

\* The chunk is back on the disk, changed where the caller's bytes are.
LEMMA ChunkWrittenStep ==
    ASSUME NEW D, DInv, FsAsks, ServiceSound(D), FsData(D), ChunkWritten
    PROVE  \E E : FsAsks' /\ ServiceSound(E)' /\ FsData(E)'
<1>1. ChannelSound /\ FilesSound BY DEF DInv
<1>2. /\ fs = "written" /\ chan.st = "replied" /\ LoopEnd
      /\ UNCHANGED <<disk, hd, hd_info, fsbuf, ubuf, sb, before>>
  BY DEF ChunkWritten, Replied, HdQuiet
<1>3. chan.m.type = "DEV_WRITE" /\ chan.m.sect = rw.i /\ chan.m.cnt = rw.chunk BY <1>2 DEF FsAsks
<1>4. PICK E : E = disk OBVIOUS
<1>5. OnDrive(E) /\ disk' = E /\ DOMAIN fsbuf = Buffer
  BY <1>1, <1>2, <1>4, DiskShape DEF ServiceSound, DataSound
<1>6. PICK n, C, A, a, off, bytes :
        /\ n = ChunkBytes /\ C = rw.chunk * SECTOR_SIZE /\ A = At(rw.i) + rw.off /\ a = At(rw.i)
        /\ off = rw.off /\ bytes = rw.bytes_rw
  OBVIOUS
<1>7. /\ off \in Nat /\ C \in Nat /\ bytes \in Nat /\ a \in Int /\ n \in Nat /\ off + n <= C
      /\ A = a + off
  BY <1>1, <1>2, <1>6, ChunkFacts
<1>8. \A b \in Drive : E[b] = IF b \in a..(a + C - 1) THEN fsbuf[b - a] ELSE D[b]
  <2>1. Stored(D, rw.i, C) BY <1>2, <1>3, <1>6 DEF ServiceSound, DataSound
  <2> QED BY <1>4, <1>6, <2>1 DEF Stored
<1>9. rw.type = "WRITE" /\ \A x \in 0..(C - 1) :
        fsbuf[x] = IF x \in off..(off + n - 1) THEN UserByte(bytes + x - off) ELSE D[a + x]
  BY <1>2, <1>6 DEF FsData
<1>10. ASSUME NEW b \in Drive
       PROVE  E[b] = IF b \in A..(A + n - 1) THEN UserByte(bytes + (b - A)) ELSE D[b]
  <2>1. b \in Int BY HdAssumption, Sizes DEF Drive
  <2>2. CASE b \in a..(a + C - 1)
    <3>1. PICK x : x = b - a OBVIOUS
    <3>2. /\ x \in 0..(C - 1) /\ a + x = b /\ bytes + x - off = bytes + (b - A)
          /\ x \in off..(off + n - 1) <=> b \in A..(A + n - 1)
      BY <1>7, <2>1, <2>2, <3>1
    <3>3. E[b] = fsbuf[x] BY <1>8, <2>2, <3>1
    <3> QED BY <1>9, <3>2, <3>3
  <2>3. CASE b \notin a..(a + C - 1)
    <3>1. b \notin A..(A + n - 1) BY <1>7, <2>1, <2>3
    <3> QED BY <1>8, <2>3, <3>1
  <2> QED BY <2>2, <2>3
<1>11. FsData(E)'
  <2>1. \A b \in Drive :
          E[b] = IF b \in A..(A + n - 1) THEN UserByte(rw.bytes_rw + (b - A)) ELSE D[b]
    BY <1>6, <1>10
  <2>2. PICK u : u = ubuf OBVIOUS
  <2>3. ubuf' = u /\ DOMAIN u = DOMAIN ubuf BY <1>2, <2>2
  <2>4. rw.type = "READ" =>
          /\ E = D
          /\ \A k \in DOMAIN ubuf :
               u[k] = IF k \in rw.bytes_rw..(rw.bytes_rw + n - 1)
                      THEN D[A + (k - rw.bytes_rw)] ELSE ubuf[k]
    BY <1>9
  <2>5. fs \in {"read", "written"} /\ UNCHANGED <<sb, before>> /\ LoopEnd BY <1>2
  <2>6. n = ChunkBytes /\ A = At(rw.i) + rw.off /\ disk' = E /\ OnDrive(E) BY <1>5, <1>6
  <2> QED BY <1>1, <2>1, <2>3, <2>4, <2>5, <2>6, LoopEndData
<1>12. FsAsks' /\ chan'.st \in {"none", "request"} /\ fs' \in {"read", "sync", "idle"}
  BY <1>1, <1>2, LoopHeadAsks DEF LoopEnd
<1>13. ServiceSound(E)' BY <1>2, <1>5, <1>12, FsService
<1> QED BY <1>11, <1>12, <1>13

\* sync_inode(): the size goes into the inode's sector and nowhere else.
LEMMA SyncStep ==
    ASSUME NEW D, DInv, FsAsks, ServiceSound(D), FsData(D), sync_inode
    PROVE  FsAsks' /\ ServiceSound(D)' /\ FsData(D)'
<1>1. ChannelSound /\ FilesSound BY DEF DInv
<1>2. /\ fs = "sync" /\ chan.st = "replied" /\ fs' = "synced"
      /\ UNCHANGED <<disk, hd, hd_info, rw, i_size, fd_pos, ubuf, sb, before, nreq>>
      /\ fsbuf' = [fsbuf EXCEPT ![INode[rw.f]] = i_size[rw.f]]
      /\ rw_sector("DEV_WRITE", InodeSect, 1)
  BY DEF sync_inode, Replied, HdQuiet
<1>3. chan.m.type = "DEV_READ" /\ chan.m.sect = InodeSect /\ chan.m.cnt = 1 BY <1>2 DEF FsAsks
<1>4. D = disk /\ OnDrive(D) /\ DOMAIN fsbuf = Buffer BY <1>3 DEF ServiceSound, DataSound
<1>5. /\ sb = [dev |-> "ROOT_DEV", nr_sects |-> Root.size]
      /\ Moved(D, rw, ubuf, before) /\ Ending(rw, before)
      /\ fd_pos[rw.f] = rw.pos + rw.bytes_rw /\ OnDrive(before.disk)
      /\ rw.i > rw.max /\ i_size[rw.f] = fd_pos[rw.f] /\ i_size[rw.f] > before.size
  BY <1>2 DEF FsData
<1>6. PICK n : n = 1 * SECTOR_SIZE OBVIOUS
<1>7. n = SECTOR_SIZE /\ n <= FSBUF_SECTS * SECTOR_SIZE /\ FSBUF_SECTS * SECTOR_SIZE \in Int
  <2>1. FSBUF_SECTS \in Int /\ 1 \in Int /\ 1 <= FSBUF_SECTS /\ 1 * SECTOR_SIZE = SECTOR_SIZE
    BY Sizes
  <2> QED BY <1>6, <2>1, Sectors
<1>8. \A x \in 0..(SECTOR_SIZE - 1) : fsbuf[x] = D[At(InodeSect) + x] /\ x \in Buffer
  <2>1. Copied(D, InodeSect, n) BY <1>2, <1>3, <1>6 DEF ServiceSound, DataSound
  <2> QED BY <1>7, <2>1, Sizes DEF Copied, Buffer
<1>9. /\ DOMAIN fsbuf' = Buffer
      /\ \A x \in 0..(SECTOR_SIZE - 1) :
           fsbuf'[x] = IF x = INode[rw.f] THEN i_size[rw.f] ELSE D[At(InodeSect) + x]
  BY <1>2, <1>4, <1>8
<1>10. /\ chan'.st = "request" /\ chan'.m.type = "DEV_WRITE" /\ chan'.m.dev = ROOT_DEV
       /\ chan'.m.sect = InodeSect /\ chan'.m.cnt = 1
  BY <1>1, <1>2, SentMessage
<1>11. FsAsks' BY <1>2, <1>10 DEF FsAsks
<1>12. ServiceSound(D)' BY <1>2, <1>4, <1>9, <1>10, FsService
<1>13. FsData(D)'
  <2>1. Moved(D, rw, ubuf, before)'
    <3>1. Moved(D, rw', ubuf', before') BY <1>2, <1>5
    <3> QED BY <3>1 DEF Moved
  <2>2. Ending(rw, before)'
    <3>1. Ending(rw', before') BY <1>2, <1>5
    <3> QED BY <3>1 DEF Ending, InStep, PosEnd
  <2> QED BY <1>2, <1>5, <1>9, <2>1, <2>2 DEF FsData
<1> QED BY <1>11, <1>12, <1>13

\* The inode is on the disk: the request is answered.
LEMMA SyncedStep ==
    ASSUME NEW D, DInv, FsAsks, ServiceSound(D), FsData(D), Synced
    PROVE  \E E : FsAsks' /\ ServiceSound(E)' /\ FsData(E)'
<1>1. ChannelSound /\ FilesSound BY DEF DInv
<1>2. /\ fs = "synced" /\ chan.st = "replied" /\ fs' = "idle" /\ NoMessage
      /\ UNCHANGED <<disk, hd, hd_info, fsbuf, rw, i_size, fd_pos, ubuf, sb, before, nreq>>
  BY DEF Synced, Replied, HdQuiet
<1>3. chan.m.type = "DEV_WRITE" /\ chan.m.sect = InodeSect /\ chan.m.cnt = 1 BY <1>2 DEF FsAsks
<1>4. PICK E : E = disk OBVIOUS
<1>5. OnDrive(E) /\ disk' = E /\ DOMAIN fsbuf = Buffer /\ OnDrive(D)
  BY <1>1, <1>2, <1>4, DiskShape DEF ServiceSound, DataSound
<1>6. PICK r, u, bf, p, a, n : /\ r = rw /\ u = ubuf /\ bf = before /\ p = i_size[rw.f]
                               /\ a = At(InodeSect) /\ n = 1 * SECTOR_SIZE
  OBVIOUS
<1>7. /\ sb = [dev |-> "ROOT_DEV", nr_sects |-> Root.size]
      /\ Moved(D, r, u, bf) /\ Ending(r, bf) /\ p = r.pos + r.bytes_rw
      /\ r.i > r.max /\ fd_pos[r.f] = p /\ p > bf.size
      /\ \A x \in 0..(SECTOR_SIZE - 1) : fsbuf[x] = IF x = INode[r.f] THEN p ELSE D[a + x]
  BY <1>2, <1>6 DEF FsData
<1>8. r.f \in Files /\ r.f \notin ReadOnly BY <1>7 DEF Moved
<1>9. /\ a \in Int /\ INode[r.f] \in 0..(SECTOR_SIZE - 1) /\ SizeCell(r.f) = a + INode[r.f]
      /\ n = SECTOR_SIZE
  <2>1. InodeSect \in Int /\ 0 \in Int BY LayoutAssumption
  <2> QED BY <1>6, <1>8, <2>1, AtSector, FileBytes, Sizes
<1>10. \A b \in Drive : E[b] = IF b \in a..(a + n - 1) THEN fsbuf[b - a] ELSE D[b]
  <2>1. Stored(D, InodeSect, n) BY <1>2, <1>3, <1>6 DEF ServiceSound, DataSound
  <2> QED BY <1>4, <1>6, <2>1 DEF Stored
<1>11. ASSUME NEW b \in Drive
       PROVE  E[b] = IF b = SizeCell(r.f) /\ p > bf.size THEN p ELSE D[b]
  <2>1. b \in Int BY HdAssumption, Sizes DEF Drive
  <2>2. CASE b \in a..(a + n - 1)
    <3>1. PICK x : x = b - a OBVIOUS
    <3>2. PICK ino : ino = INode[r.f] OBVIOUS
    <3>3. /\ x \in 0..(SECTOR_SIZE - 1) /\ a + x = b
          /\ x = ino <=> b = a + ino
      BY <1>9, <2>1, <2>2, <3>1, <3>2, Sizes
    <3>4. E[b] = fsbuf[x] BY <1>10, <2>2, <3>1
    <3> QED BY <1>7, <1>9, <3>2, <3>3, <3>4
  <2>3. CASE b \notin a..(a + n - 1)
    <3>1. b # SizeCell(r.f) BY <1>9, <2>1, <2>3, Sizes
    <3> QED BY <1>10, <2>3, <3>1
  <2> QED BY <2>2, <2>3
<1>12. (Fits => ExactTransfer)' /\ ConfinedTransfer'
  <2>1. /\ rw' = r /\ ubuf' = u /\ before' = bf /\ fd_pos'[r.f] = p /\ i_size'[r.f] = p
    BY <1>2, <1>6, <1>7
  <2>2. PosEnd(r, bf) = r.pos + r.len => r.bytes_rw = r.len BY <1>7 DEF Ending
  <2>3. p = IF p > bf.size THEN p ELSE bf.size BY <1>7
  <2> QED BY <1>5, <1>7, <1>11, <2>1, <2>2, <2>3, Answered
<1>13. FsData(E)' BY <1>2, <1>6, <1>7, <1>8, <1>12 DEF FsData
<1>14. chan'.st = "none" BY <1>1, <1>2, EndedExchange
<1>15. FsAsks' BY <1>2, <1>14 DEF FsAsks
<1>16. ServiceSound(E)' BY <1>2, <1>5, <1>14, FsService
<1> QED BY <1>13, <1>15, <1>16

-----------------------------------------------------------------------------
\* FS has asked for what its place says, HD serves that, and the bytes moved so
\* far are exactly those of the request, on the disk as well as in the buffers.
THEOREM TransferInvariant == Spec => []TInv
<1>1. Init => TInv
  <2> SUFFICES ASSUME Init PROVE TInv OBVIOUS
  <2>1. PICK m : m = [type |-> "none", dev |-> 0, sect |-> 0, cnt |-> 0] OBVIOUS
  <2>2. chan = [st |-> "none", m |-> m, geo |-> NoPart] BY <2>1, Zenon DEF Init
  <2>3. chan.st = "none" /\ chan.m.type = "none" BY <2>1, <2>2
  <2>4. fs = "boot" /\ nreq = 0 /\ disk = InitDisk /\ hd.pc = "recv" BY DEF Init, InitHd
  <2>5. FsAsks /\ HdServes BY <2>3, <2>4 DEF FsAsks, HdServes
  <2>6. TablesSound
    <3>1. hd_info = [open_cnt |-> 0, primary |-> [d \in 0..4 |-> NoPart],
                     logical |-> [d \in 0..(4 * NR_SUB - 1) |-> NoPart]]
      BY DEF Init, InitHd
    <3>2. PICK primary, logical : /\ primary = [d \in 0..4 |-> NoPart]
                                  /\ logical = [d \in 0..(4 * NR_SUB - 1) |-> NoPart]
      OBVIOUS
    <3>3. DOMAIN primary = 0..4 /\ DOMAIN logical = 0..(4 * NR_SUB - 1) BY <3>2
    <3>4. hd_info = [open_cnt |-> 0, primary |-> primary, logical |-> logical] BY <3>1, <3>2
    <3>5. /\ hd_info.open_cnt = 0 /\ hd_info.primary = primary /\ hd_info.logical = logical
          /\ hd_info = [open_cnt |-> hd_info.open_cnt, primary |-> hd_info.primary,
                        logical |-> hd_info.logical]
      BY <3>4
    <3> QED BY <2>4, <3>3, <3>5 DEF TablesSound
  <2>7. PICK D : D = disk OBVIOUS
  <2>8. OnDrive(D) BY <2>4, <2>7 DEF InitDisk, OnDrive, Drive
  <2>9. DOMAIN fsbuf = Buffer BY DEF Init, Buffer
  <2>10. DataSound(D) BY <2>3, <2>7, <2>8, <2>9 DEF DataSound
  <2>11. FsData(D) BY <2>4 DEF FsData
  <2> QED BY <2>5, <2>6, <2>10, <2>11 DEF TInv
<1>2. DInv /\ TInv /\ [Next]_vars => TInv'
  <2> SUFFICES ASSUME DInv, TInv, [Next]_vars PROVE TInv' OBVIOUS
  <2>1. PICK D : FsAsks /\ ServiceSound(D) /\ FsData(D) BY DEF TInv, ServiceSound
  <2>2. \E E : FsAsks' /\ ServiceSound(E)' /\ FsData(E)'
    <3>1. CASE \E f \in Files, type \in {"READ", "WRITE"}, len \in Lens : do_rdwt(f, type, len)
      BY <2>1, <3>1, RequestStep
    <3>2. CASE task_fs
      <4>1. CASE init_fs \/ mkfs_geo \/ mkfs_super \/ read_super_block \/ get_super_block
        BY <2>1, <4>1, BootStep
      <4>2. CASE CopyToUser BY <2>1, <4>2, CopyToUserStep
      <4>3. CASE CopyFromUser BY <2>1, <4>3, CopyFromUserStep
      <4>4. CASE ChunkWritten BY <2>1, <4>4, ChunkWrittenStep
      <4>5. CASE sync_inode BY <2>1, <4>5, SyncStep
      <4>6. CASE Synced BY <2>1, <4>6, SyncedStep
      <4> QED BY <3>2, <4>1, <4>2, <4>3, <4>4, <4>5, <4>6 DEF task_fs
    <3>3. CASE (task_hd \/ controller \/ WaitforTimeout) /\ UNCHANGED fsVars
      BY <2>1, <3>3, ServiceStep
    <3>4. CASE UNCHANGED vars
      <4>1. /\ UNCHANGED <<disk, ctl, has_int_msg, hd, hd_info, chan, fsbuf>>
            /\ UNCHANGED <<fs, rw>> /\ UNCHANGED fsVars
        BY <3>4 DEF vars, hdVars, fsVars
      <4> QED BY <2>1, <4>1, AsksFrame, ServiceFrame, FsFrame
    <3> QED BY <3>1, <3>2, <3>3, <3>4 DEF Next
  <2>3. PICK E : FsAsks' /\ ServiceSound(E)' /\ FsData(E)' BY <2>2
  <2> QED BY <2>3 DEF TInv, ServiceSound
<1> QED BY <1>1, <1>2, DiskInvariant, PTL DEF Spec

\* For any size of sectors, of fsbuf and of the count register, any partition
\* tables that lead to the root device and any files behind the inodes, a
\* request that fits is a plain copy of its bytes, and no request damages
\* anything outside the bytes it named (read_write.c:29-148, hd.c:148-194 and
\* 298-347).
THEOREM TransfersAreSound == Spec => []TransferSound
<1>1. TInv => TransferSound
  <2> SUFFICES ASSUME TInv, fs = "idle"
               PROVE  /\ sb = [dev |-> "ROOT_DEV", nr_sects |-> LogicalAt(ROOT_DEV).size]
                      /\ nreq > 0 =>
                           \/ rw.f \in ReadOnly /\ rw.bytes_rw = -1 /\ disk = before.disk
                           \/ rw.f \notin ReadOnly /\ (Fits => ExactTransfer) /\ ConfinedTransfer
    BY DEF TransferSound
  <2>1. PICK D : DataSound(D) /\ FsData(D) BY DEF TInv
  <2>2. D = disk BY <2>1 DEF TInv, FsAsks, DataSound
  <2> QED BY <2>1, <2>2 DEF FsData, Root
<1> QED BY <1>1, TransferInvariant, PTL
=============================================================================
