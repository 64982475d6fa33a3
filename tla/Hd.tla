-------------------------------- MODULE Hd --------------------------------
(***************************************************************************)
(* The disk driver (kernel/hd.c), task HD, and the ATA controller it       *)
(* programs.  HD serves one request of FS at a time: DEV_OPEN identifies   *)
(* the drive and walks its partition tables, DEV_IOCTL reports a           *)
(* partition, DEV_READ and DEV_WRITE move whole sectors between a          *)
(* partition and the buffer of FS.  Every sector costs one interrupt,      *)
(* which hd_handler() turns into has_int_msg; every status poll may time   *)
(* out, and then the system panics.  The controller is external.           *)
(***************************************************************************)
EXTENDS Integers, FiniteSetsExt

CONSTANTS SECTOR_SIZE,   \* bytes of a sector
          NSECTS,        \* sectors of the drive
          COUNT,         \* values of the count register: 256
          NR_SUB,        \* NR_SUB_PER_PART
          FSBUF_SECTS,   \* sectors of fsbuf
          PartTbl        \* sector -> the partition table found there

ASSUME HdAssumption ==
    /\ {SECTOR_SIZE, NSECTS, COUNT, NR_SUB, FSBUF_SECTS} \subseteq Nat \ {0}
    /\ 0 \in DOMAIN PartTbl
    /\ DOMAIN PartTbl \subseteq Nat
    /\ \A s \in DOMAIN PartTbl : /\ DOMAIN PartTbl[s] = 1..4
                                 /\ \A i \in 1..4 : PartTbl[s][i].start \in Nat

VARIABLES disk,          \* the drive, byte by byte
          ctl,           \* the controller
          has_int_msg,   \* proc_table[TASK_HD].has_int_msg
          hd,            \* the task: where it is and its local variables
          hd_info,       \* hd_info[0]
          chan,          \* the message FS and HD exchange
          fsbuf,         \* the buffer of FS
          panicked       \* panic() or assert() has stopped the system

hdVars == <<disk, ctl, has_int_msg, hd, hd_info, chan, fsbuf, panicked>>

NoPart == [base |-> 0, size |-> 0]
Idle == [op |-> "none", lba |-> 0, n |-> 0, drq |-> FALSE, buf |-> <<>>]

\* BSY: a command is under way and no data is requested or offered.
Busy == ctl.op # "none" /\ ~ctl.drq

InitHd ==
    /\ ctl = Idle
    /\ has_int_msg = FALSE
    /\ hd = [pc |-> "recv", cmd |-> Idle, then |-> "recv", la |-> 0, left |-> 0,
             todo |-> {}, sub |-> 0, s |-> 0]
    /\ hd_info = [open_cnt |-> 0,
                  primary |-> [d \in 0..4 |-> NoPart],
                  logical |-> [d \in 0..(4 * NR_SUB - 1) |-> NoPart]]
    /\ panicked = FALSE

-----------------------------------------------------------------------------
(* hd_cmd_out(), interrupt_wait() and the data port. *)

\* Hand a command to hd_cmd_out(); `then' is where its caller goes on.
Command(op, lba, count, then) ==
    [hd EXCEPT !.pc = "cmd", !.then = then,
               !.cmd = [op |-> op, lba |-> lba, n |-> count, drq |-> FALSE, buf |-> <<>>]]

\* waitfor(STATUS_BSY, 0) succeeded: load the registers, write the command.
\* A count of zero asks the drive for COUNT sectors.
hd_cmd_out ==
    /\ hd.pc = "cmd" /\ ~Busy
    /\ ctl' = [hd.cmd EXCEPT !.n = IF @ = 0 THEN COUNT ELSE @]
    /\ hd' = [hd EXCEPT !.pc = hd.then]
    /\ UNCHANGED <<disk, has_int_msg, hd_info, chan, fsbuf, panicked>>

\* waitfor() ran out of time: the drive was too slow, or HD was not scheduled.
WaitforTimeout ==
    /\ hd.pc \in {"cmd", "drq"}
    /\ panicked' = TRUE
    /\ UNCHANGED <<disk, ctl, has_int_msg, hd, hd_info, chan, fsbuf>>

\* interrupt_wait() returns: the pending interrupt is consumed.
interrupt_wait == has_int_msg /\ has_int_msg' = FALSE

\* The drive's side of reading one sector from REG_DATA.
port_read ==
    ctl' = IF ctl.n = 1 THEN Idle
           ELSE [ctl EXCEPT !.n = @ - 1, !.lba = @ + 1, !.drq = FALSE]

\* The drive's side of writing one sector to REG_DATA.
port_write(bytes) == ctl' = [ctl EXCEPT !.drq = FALSE, !.buf = bytes]

-----------------------------------------------------------------------------
(* The controller (external). *)

\* hd_handler(): status read, inform_int(TASK_HD).
hd_handler == has_int_msg' = TRUE

\* A sector (or the identification) is ready to be read.
CtlReadReady ==
    /\ ctl.op \in {"read", "identify"} /\ Busy
    /\ ctl' = [ctl EXCEPT !.drq = TRUE]
    /\ hd_handler
    /\ UNCHANGED <<disk, hd, hd_info, chan, fsbuf, panicked>>

\* The drive is ready for the first sector of a write: no interrupt.
CtlWriteReady ==
    /\ ctl.op = "write" /\ Busy /\ ctl.buf = <<>>
    /\ ctl' = [ctl EXCEPT !.drq = TRUE]
    /\ UNCHANGED <<disk, has_int_msg, hd, hd_info, chan, fsbuf, panicked>>

\* A sector is on the disk; the drive asks for the next one or is idle.
CtlWriteDone ==
    /\ ctl.op = "write" /\ Busy /\ ctl.buf # <<>>
    /\ disk' = [b \in DOMAIN disk |->
                  IF b \div SECTOR_SIZE = ctl.lba
                  THEN ctl.buf[(b % SECTOR_SIZE) + 1] ELSE disk[b]]
    /\ ctl' = IF ctl.n = 1 THEN Idle
              ELSE [ctl EXCEPT !.n = @ - 1, !.lba = @ + 1, !.drq = TRUE, !.buf = <<>>]
    /\ hd_handler
    /\ UNCHANGED <<hd, hd_info, chan, fsbuf, panicked>>

-----------------------------------------------------------------------------
(* hd_open(): identify the drive; on the first open read its partitions. *)

hd_identify ==
    /\ hd.pc = "ident" /\ interrupt_wait /\ port_read
    /\ hd_info' = [hd_info EXCEPT !.primary[0] = [base |-> 0, size |-> NSECTS],
                                  !.open_cnt = @ + 1]
    /\ hd' = IF hd_info.open_cnt = 0 THEN Command("read", 0, 1, "mbr")
             ELSE [hd EXCEPT !.pc = "reply"]
    /\ UNCHANGED <<disk, chan, fsbuf, panicked>>

\* What the sector read holds where a partition table would be.
TableAt(s) == IF s \in DOMAIN PartTbl THEN PartTbl[s]
              ELSE [i \in 1..4 |-> [sys |-> "NO_PART", start |-> 0, size |-> 0]]

\* Extended partitions still to be walked, in the order of their numbers: read
\* the table at the start of the first, or answer the open.
get_part_table(todo, info) ==
    IF todo = {} THEN [hd EXCEPT !.pc = "reply", !.todo = todo]
    ELSE LET start == info.primary[Min(todo)].base
         IN  [Command("read", start, 1, "ebr") EXCEPT !.todo = todo, !.sub = 0,
                                                     !.s = start]

\* partition(device, P_PRIMARY), the table in sector 0.
PartitionPrimary ==
    /\ hd.pc = "mbr" /\ interrupt_wait /\ port_read
    /\ LET tbl == TableAt(0)
           used == {i \in 1..4 : tbl[i].sys # "NO_PART"}
           info == [hd_info EXCEPT !.primary =
                      [d \in 0..4 |-> IF d \in used
                                      THEN [base |-> tbl[d].start, size |-> tbl[d].size]
                                      ELSE @[d]]]
       IN  /\ hd_info' = info
           /\ hd' = get_part_table({d \in 1..4 : tbl[d].sys = "EXT_PART"}, info)
           /\ panicked' = (used = {})     \* assert(nr_prim_parts != 0)
    /\ UNCHANGED <<disk, chan, fsbuf>>

\* Mutant: the next table is looked for from the current one on.
NextTable_FromCurrent(ext_start, s, tbl) == s + tbl[2].start

\* Where partition() finds the next table of an extended partition.
NextTable(ext_start, s, tbl) == ext_start + tbl[2].start

\* partition(device, P_EXTENDED), one link of the chain of tables.
PartitionExtended ==
    /\ hd.pc = "ebr" /\ interrupt_wait /\ port_read
    /\ LET tbl == TableAt(hd.s)
           ext_start == hd_info.primary[Min(hd.todo)].base
           next == NextTable(ext_start, hd.s, tbl)
       IN  /\ hd_info' = [hd_info EXCEPT
                 !.logical[(Min(hd.todo) - 1) * NR_SUB + hd.sub] =
                     [base |-> hd.s + tbl[1].start, size |-> tbl[1].size]]
           /\ hd' = IF tbl[2].sys = "NO_PART" \/ hd.sub + 1 = NR_SUB
                    THEN get_part_table(hd.todo \ {Min(hd.todo)}, hd_info)
                    ELSE [Command("read", next, 1, "ebr") EXCEPT !.s = next,
                                                                !.sub = @ + 1]
    /\ UNCHANGED <<disk, chan, fsbuf, panicked>>

-----------------------------------------------------------------------------
(* hd_rdwt(), a sector at a time. *)

SectorDone == [hd EXCEPT !.la = @ + SECTOR_SIZE, !.left = @ - 1,
                         !.pc = IF hd.left > 1 THEN hd.then ELSE "reply"]

\* DEV_READ: wait for the interrupt, take the sector, copy it to FS.
ReadSector ==
    /\ hd.pc = "read" /\ interrupt_wait /\ port_read
    /\ fsbuf' = [b \in DOMAIN fsbuf |->
                   IF b \in hd.la .. hd.la + SECTOR_SIZE - 1
                   THEN disk[ctl.lba * SECTOR_SIZE + b - hd.la] ELSE fsbuf[b]]
    /\ hd' = SectorDone
    /\ UNCHANGED <<disk, hd_info, chan, panicked>>

\* Mutant: the interrupt of the sector is not waited for.
WriteSector_NoWait ==
    /\ hd.pc = "drq" /\ ctl.drq
    /\ port_write([b \in 1..SECTOR_SIZE |-> fsbuf[hd.la + b - 1]])
    /\ hd' = SectorDone
    /\ UNCHANGED <<disk, has_int_msg, hd_info, chan, fsbuf, panicked>>

\* DEV_WRITE: waitfor(STATUS_DRQ) succeeded, the sector goes to the drive.
WriteSector ==
    /\ hd.pc = "drq" /\ ctl.drq
    /\ port_write([b \in 1..SECTOR_SIZE |-> fsbuf[hd.la + b - 1]])
    /\ hd' = [hd EXCEPT !.pc = "wint"]
    /\ UNCHANGED <<disk, has_int_msg, hd_info, chan, fsbuf, panicked>>

\* ... and its interrupt is waited for.
SectorWritten ==
    /\ hd.pc = "wint" /\ interrupt_wait
    /\ hd' = SectorDone
    /\ UNCHANGED <<disk, ctl, hd_info, chan, fsbuf, panicked>>

-----------------------------------------------------------------------------
(* task_hd(): one request at a time. *)

\* The partition a minor device number names: `d' is an index of logical[].
hd_ioctl(d) == hd_info.logical[d]

\* The registers of a transfer: the count register keeps cnt modulo COUNT.
hd_rdwt(m) ==
    [Command(IF m.type = "DEV_READ" THEN "read" ELSE "write",
             m.sect + hd_info.logical[m.dev].base, m.cnt % COUNT,
             IF m.type = "DEV_READ" THEN "read" ELSE "drq")
       EXCEPT !.la = 0, !.left = m.cnt]

\* RECEIVE ANY: a pending interrupt would be taken before a request.
HdReceive ==
    /\ hd.pc = "recv" /\ ~has_int_msg
    /\ chan.st = "request"
    /\ chan' = IF chan.m.type = "DEV_IOCTL"
               THEN [chan EXCEPT !.st = "taken", !.geo = hd_ioctl(chan.m.dev)]
               ELSE [chan EXCEPT !.st = "taken"]
    /\ hd' = CASE chan.m.type = "DEV_OPEN"  -> Command("identify", 0, 1, "ident")
               [] chan.m.type = "DEV_IOCTL" -> [hd EXCEPT !.pc = "reply"]
               [] OTHER                     -> hd_rdwt(chan.m)
    /\ UNCHANGED <<disk, ctl, has_int_msg, hd_info, fsbuf, panicked>>

HdReply ==
    /\ hd.pc = "reply"
    /\ chan' = [chan EXCEPT !.st = "replied"]
    /\ hd' = [hd EXCEPT !.pc = "recv"]
    /\ UNCHANGED <<disk, ctl, has_int_msg, hd_info, fsbuf, panicked>>

task_hd ==
    \/ HdReceive \/ hd_cmd_out \/ hd_identify \/ PartitionPrimary \/ PartitionExtended
    \/ ReadSector \/ WriteSector \/ SectorWritten \/ HdReply

controller == CtlReadReady \/ CtlWriteReady \/ CtlWriteDone

-----------------------------------------------------------------------------
(* Properties. *)

\* A request costs as many interrupts as HD waits for: when task_hd() is back
\* at RECEIVE ANY the drive is idle and no interrupt is left over.  One left
\* over would be received as a request of an unknown type, and the driver
\* would spin for ever (hd.c:74-77).
NoStrayInterrupt ==
    hd.pc = "recv" => ~has_int_msg /\ ctl.op = "none"
=============================================================================
