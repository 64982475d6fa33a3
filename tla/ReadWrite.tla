----------------------------- MODULE ReadWrite -----------------------------
(***************************************************************************)
(* Reading and writing files: do_rdwt() of FS (fs/read_write.c) on top of  *)
(* the disk driver.  A file is a fixed extent of sectors; a request is cut *)
(* into chunks of at most FSBUF_SECTS sectors, each read into fsbuf, and   *)
(* for a write changed there and written back; the inode goes to disk when *)
(* the file has grown.  FS boots first: it opens the drive, asks for the   *)
(* geometry, writes the super block and loads it again (init_fs(), mkfs(), *)
(* read_super_block()).  FS has one request under way at a time.           *)
(***************************************************************************)
EXTENDS Hd, FiniteSets

CONSTANTS Files,         \* open regular files, one descriptor each
          ReadOnly,      \* files opened without O_RDWR
          Start, NrSects,\* i_start_sect and i_nr_sects of every file
          InitSize,      \* i_size of every file at the start
          INode,         \* place of a file's i_size in the inode sector
          InodeSect,     \* the sector of the inode array
          ROOT_DEV,      \* index of the root partition in hd_info.logical
          MAGIC,         \* MAGIC_V1
          Lens,          \* lengths asked for
          MaxReqs        \* bound on the number of requests

ASSUME ReadWriteAssumption ==
    /\ ReadOnly \subseteq Files
    /\ {Start, NrSects, InitSize, INode} \subseteq [Files -> Nat]
    /\ Lens \subseteq Nat /\ MaxReqs \in Nat

\* Reference: the chain of tables of an extended partition (the k-th link lies
\* at the start of the partition plus the offset its predecessor names), and
\* where a logical partition is, straight from it.
TableChain(ext) ==
    LET link[k \in 0..(NR_SUB - 1)] ==
            IF k = 0 THEN ext ELSE ext + PartTbl[link[k - 1]][2].start
    IN  link

LogicalAt(d) ==
    LET s == TableChain(PartTbl[0][(d \div NR_SUB) + 1].start)[d % NR_SUB]
    IN  [base |-> s + PartTbl[s][1].start, size |-> PartTbl[s][1].size]

\* The root device exists and has room for a super block, and on it the inodes
\* come before the data (mkfs()).
ASSUME LayoutAssumption ==
    /\ ROOT_DEV \in 0..(4 * NR_SUB - 1)
    /\ LET ext == PartTbl[0][(ROOT_DEV \div NR_SUB) + 1]
           n == ROOT_DEV % NR_SUB
           chain == TableChain(ext.start)
       IN  /\ ext.sys = "EXT_PART"
           /\ \A k \in 0..n : chain[k] \in DOMAIN PartTbl
           /\ \A k \in 0..(n - 1) : PartTbl[chain[k]][2].sys # "NO_PART"
    /\ SECTOR_SIZE > 1 /\ LogicalAt(ROOT_DEV).base + 1 < NSECTS
    /\ InodeSect \in Nat
    /\ \A f \in Files : InodeSect < Start[f] /\ INode[f] < SECTOR_SIZE

VARIABLES fs,            \* where FS is in its code
          rw,            \* the request and the local variables of do_rdwt()
          i_size,        \* inode_table[].i_size
          fd_pos,        \* f_desc_table[].fd_pos
          ubuf,          \* the caller's buffer of a read
          sb,            \* super_block[0]
          before,        \* history: the disk and the size when the request came
          nreq           \* history: requests so far

fsVars == <<fs, rw, i_size, fd_pos, ubuf, sb, before, nreq>>
vars == <<hdVars, fsVars>>

\* The byte a caller has at offset k of the buffer it writes from.
UserByte(k) == 1000 + k

InitDisk == [b \in 0..(NSECTS * SECTOR_SIZE - 1) |-> b]

Init ==
    /\ InitHd
    /\ disk = InitDisk
    /\ fsbuf = [b \in 0..(FSBUF_SECTS * SECTOR_SIZE - 1) |-> 0]
    /\ chan = [st |-> "none", m |-> [type |-> "none", dev |-> 0, sect |-> 0, cnt |-> 0],
               geo |-> NoPart]
    /\ fs = "boot"
    /\ rw = [type |-> "none", f |-> CHOOSE f \in Files : TRUE, pos |-> 0, len |-> 0,
             off |-> 0, i |-> 0, max |-> 0, chunk |-> 0, bytes_rw |-> 0, left |-> 0]
    /\ i_size = InitSize
    /\ fd_pos = [f \in Files |-> 0]
    /\ ubuf = <<>>
    /\ sb = [dev |-> "NO_DEV", nr_sects |-> 0]
    /\ before = [disk |-> <<>>, size |-> 0]
    /\ nreq = 0

Least(a, b) == IF a < b THEN a ELSE b

\* rw_sector() and the messages like it: send_recv(BOTH, HD), whose reply is
\* awaited in the state of FS that the sender goes to.
rw_sector(type, sect, cnt) ==
    chan' = [chan EXCEPT !.st = "request",
                         !.m = [type |-> type, dev |-> ROOT_DEV, sect |-> sect, cnt |-> cnt]]

Replied(pc) == fs = pc /\ chan.st = "replied"
NoMessage == chan' = [chan EXCEPT !.st = "none"]
HdQuiet == UNCHANGED <<disk, ctl, has_int_msg, hd, hd_info, panicked>>
-----------------------------------------------------------------------------
(* Booting FS. *)

BootQuiet == UNCHANGED <<rw, i_size, fd_pos, ubuf, before, nreq>>

\* init_fs(): DEV_OPEN to the driver of the root device.
init_fs ==
    /\ fs = "boot" /\ fs' = "opened"
    /\ rw_sector("DEV_OPEN", 0, 0)
    /\ UNCHANGED <<fsbuf, sb>> /\ HdQuiet /\ BootQuiet

\* mkfs(): the geometry of the root device ...
mkfs_geo ==
    /\ Replied("opened") /\ fs' = "geo"
    /\ rw_sector("DEV_IOCTL", 0, 0)
    /\ UNCHANGED <<fsbuf, sb>> /\ HdQuiet /\ BootQuiet

\* ... goes into the super block, written to sector 1.
mkfs_super ==
    /\ Replied("geo") /\ fs' = "made"
    /\ fsbuf' = [fsbuf EXCEPT ![0] = MAGIC, ![1] = chan.geo.size]
    /\ rw_sector("DEV_WRITE", 1, 1)
    /\ UNCHANGED sb /\ HdQuiet /\ BootQuiet

\* read_super_block(): read sector 1 back ...
read_super_block ==
    /\ Replied("made") /\ fs' = "loaded"
    /\ rw_sector("DEV_READ", 1, 1)
    /\ UNCHANGED <<fsbuf, sb>> /\ HdQuiet /\ BootQuiet

\* ... into the slot get_super_block() finds; init_fs() asserts its magic.
get_super_block ==
    /\ Replied("loaded") /\ fs' = "idle"
    /\ sb' = [dev |-> "ROOT_DEV", nr_sects |-> fsbuf[1]]
    /\ panicked' = (fsbuf[0] # MAGIC)
    /\ NoMessage
    /\ UNCHANGED <<disk, ctl, has_int_msg, hd, hd_info, fsbuf>> /\ BootQuiet

-----------------------------------------------------------------------------
(* do_rdwt() on a regular file. *)

\* The head of the loop: read the next chunk, or finish.  A file whose
\* position has passed its size grows, and its inode is synchronised.
LoopHead(r, pos) ==
    /\ rw' = r
    /\ fd_pos' = [fd_pos EXCEPT ![r.f] = pos]
    /\ \/ /\ r.i <= r.max
          /\ fs' = "read"
          /\ rw_sector("DEV_READ", r.i, r.chunk)
          /\ UNCHANGED i_size
       \/ /\ r.i > r.max /\ pos > i_size[r.f]
          /\ fs' = "sync"
          /\ i_size' = [i_size EXCEPT ![r.f] = pos]
          /\ rw_sector("DEV_READ", InodeSect, 1)
       \/ /\ r.i > r.max /\ pos <= i_size[r.f]
          /\ fs' = "idle"
          /\ NoMessage
          /\ UNCHANGED i_size

\* The sectors a request covers and the chunk they are moved in.
Request(f, type, len) ==
    LET pos == fd_pos[f]
        pos_end == Least(pos + len, IF type = "READ" THEN i_size[f]
                                    ELSE NrSects[f] * SECTOR_SIZE)
        rw_sect_min == Start[f] + (pos \div SECTOR_SIZE)
        rw_sect_max == Start[f] + (pos_end \div SECTOR_SIZE)
    IN  [type |-> type, f |-> f, pos |-> pos, len |-> len,
         off |-> pos % SECTOR_SIZE, i |-> rw_sect_min, max |-> rw_sect_max,
         chunk |-> Least(rw_sect_max - rw_sect_min + 1, FSBUF_SECTS),
         bytes_rw |-> 0, left |-> len]

do_rdwt(f, type, len) ==
    /\ fs = "idle" /\ nreq < MaxReqs
    /\ nreq' = nreq + 1
    /\ before' = [disk |-> disk, size |-> i_size[f]]
    /\ ubuf' = [k \in 0..(len - 1) |-> 0]
    /\ IF f \in ReadOnly
       THEN /\ rw' = [Request(f, type, len) EXCEPT !.bytes_rw = -1]
            /\ UNCHANGED <<fs, chan, i_size, fd_pos>>
       ELSE LoopHead(Request(f, type, len), fd_pos[f])
    /\ UNCHANGED <<fsbuf, sb>> /\ HdQuiet

\* Mutant: bytes_left is forgotten.
ChunkBytes_WholeChunk == rw.chunk * SECTOR_SIZE - rw.off

\* How many bytes this chunk moves, and the end of the loop's body.
ChunkBytes == Least(rw.left, rw.chunk * SECTOR_SIZE - rw.off)

\* Mutant: the loop does not step to the next chunk.
LoopEnd_SameChunk ==
    LoopHead([rw EXCEPT !.off = 0, !.left = @ - ChunkBytes, !.bytes_rw = @ + ChunkBytes],
             fd_pos[rw.f] + ChunkBytes)

LoopEnd ==
    LoopHead([rw EXCEPT !.off = 0, !.i = @ + rw.chunk, !.left = @ - ChunkBytes,
                        !.bytes_rw = @ + ChunkBytes],
             fd_pos[rw.f] + ChunkBytes)

\* READ: from fsbuf to the caller.
CopyToUser ==
    /\ Replied("read") /\ rw.type = "READ"
    /\ ubuf' = [k \in DOMAIN ubuf |->
                  IF k \in rw.bytes_rw .. rw.bytes_rw + ChunkBytes - 1
                  THEN fsbuf[rw.off + k - rw.bytes_rw] ELSE ubuf[k]]
    /\ LoopEnd
    /\ UNCHANGED <<fsbuf, sb, before, nreq>> /\ HdQuiet

\* WRITE: from the caller to fsbuf, and the chunk back to the disk.
CopyFromUser ==
    /\ Replied("read") /\ rw.type = "WRITE"
    /\ fsbuf' = [b \in DOMAIN fsbuf |->
                   IF b \in rw.off .. rw.off + ChunkBytes - 1
                   THEN UserByte(rw.bytes_rw + b - rw.off) ELSE fsbuf[b]]
    /\ rw_sector("DEV_WRITE", rw.i, rw.chunk)
    /\ fs' = "written"
    /\ UNCHANGED <<rw, i_size, fd_pos, ubuf, sb, before, nreq>> /\ HdQuiet

ChunkWritten ==
    /\ Replied("written")
    /\ LoopEnd
    /\ UNCHANGED <<fsbuf, ubuf, sb, before, nreq>> /\ HdQuiet

\* sync_inode(): the inode's sector has been read, change it and write it.
sync_inode ==
    /\ Replied("sync") /\ fs' = "synced"
    /\ fsbuf' = [fsbuf EXCEPT ![INode[rw.f]] = i_size[rw.f]]
    /\ rw_sector("DEV_WRITE", InodeSect, 1)
    /\ UNCHANGED <<rw, i_size, fd_pos, ubuf, sb, before, nreq>> /\ HdQuiet

Synced ==
    /\ Replied("synced") /\ fs' = "idle"
    /\ NoMessage
    /\ UNCHANGED <<fsbuf, rw, i_size, fd_pos, ubuf, sb, before, nreq>> /\ HdQuiet

task_fs ==
    \/ init_fs \/ mkfs_geo \/ mkfs_super \/ read_super_block \/ get_super_block
    \/ CopyToUser \/ CopyFromUser \/ ChunkWritten \/ sync_inode \/ Synced

Next ==
    /\ ~panicked
    /\ \/ \E f \in Files, type \in {"READ", "WRITE"}, len \in Lens : do_rdwt(f, type, len)
       \/ task_fs
       \/ (task_hd \/ controller \/ WaitforTimeout) /\ UNCHANGED fsVars

\* FS, HD and the drive go on when they can; callers need not, and a status
\* poll need not time out.
Spec ==
    /\ Init /\ [][Next]_vars
    /\ WF_vars(~panicked /\ task_fs)
    /\ WF_vars(~panicked /\ task_hd /\ UNCHANGED fsVars)
    /\ WF_vars(~panicked /\ controller /\ UNCHANGED fsVars)

-----------------------------------------------------------------------------
(* Properties. *)

TypeOK ==
    /\ disk \in [DOMAIN InitDisk -> Int]
    /\ ctl.op \in {"none", "read", "write", "identify"}
    /\ ctl.n \in 0..COUNT /\ ctl.drq \in BOOLEAN
    /\ ctl.op # "none" => ctl.lba \in 0..(NSECTS - 1)
    /\ has_int_msg \in BOOLEAN /\ panicked \in BOOLEAN
    /\ hd.pc \in {"recv", "cmd", "ident", "mbr", "ebr", "read", "drq", "wint", "reply"}
    /\ hd.left \in 0..FSBUF_SECTS
    /\ fs \in {"boot", "opened", "geo", "made", "loaded", "idle", "read", "written",
               "sync", "synced"}
    /\ chan.st \in {"none", "request", "taken", "replied"}
    /\ i_size \in [Files -> Nat] /\ fd_pos \in [Files -> Nat]
    /\ rw.bytes_rw \in -1..rw.len
    /\ \A f \in Files : fd_pos[f] <= i_size[f] \/ (rw.f = f /\ fs # "idle")

\* Byte number k of a file, and the place of its i_size, on the drive.
ByteOf(f, k) == (LogicalAt(ROOT_DEV).base + Start[f]) * SECTOR_SIZE + k
SizeCell(f) == (LogicalAt(ROOT_DEV).base + InodeSect) * SECTOR_SIZE + INode[f]

\* The request ends inside the file (READ) or inside its extent (WRITE).
Fits == rw.pos + rw.len <= IF rw.type = "READ" THEN before.size
                           ELSE NrSects[rw.f] * SECTOR_SIZE

\* What a request that fits must have done: exactly the bytes asked for are
\* moved, every other byte of the drive is as it was, and the size is on disk.
ExactTransfer ==
    LET moved == {ByteOf(rw.f, rw.pos + k) : k \in 0..(rw.len - 1)}
        end == rw.pos + rw.len
    IN  /\ rw.bytes_rw = rw.len
        /\ fd_pos[rw.f] = end
        /\ i_size[rw.f] = IF end > before.size THEN end ELSE before.size
        /\ rw.type = "READ" =>
              /\ disk = before.disk
              /\ \A k \in 0..(rw.len - 1) : ubuf[k] = disk[ByteOf(rw.f, rw.pos + k)]
        /\ rw.type = "WRITE" =>
              \A b \in DOMAIN disk :
                 disk[b] = IF b \in moved THEN UserByte(b - ByteOf(rw.f, rw.pos))
                           ELSE IF b = SizeCell(rw.f) /\ end > before.size THEN end
                           ELSE before.disk[b]

\* What any request must have left alone: only bytes of the range asked for
\* (less than a buffer past the end of the extent) and the file's i_size.
ConfinedTransfer ==
    \A b \in DOMAIN disk : disk[b] # before.disk[b] =>
       \/ b = SizeCell(rw.f)
       \/ /\ rw.type = "WRITE"
          /\ b \in ByteOf(rw.f, rw.pos) .. ByteOf(rw.f, rw.pos + rw.len - 1)
          /\ b < ByteOf(rw.f, (NrSects[rw.f] + FSBUF_SECTS) * SECTOR_SIZE)

\* do_rdwt() computes sector ranges, chunks and offsets, HD adds the base of
\* the partition and moves sectors one interrupt at a time: when FS answers, a
\* request that fits has been a plain copy of its bytes, whatever its
\* alignment, and one that runs past the end has damaged nothing outside the
\* bytes it named.  Before the first request the super block read back is the
\* one written (read_write.c:29-148, hd.c:148-194 and 298-347).
TransferSound ==
    fs = "idle" =>
       /\ sb = [dev |-> "ROOT_DEV", nr_sects |-> LogicalAt(ROOT_DEV).size]
       /\ nreq > 0 =>
            \/ rw.f \in ReadOnly /\ rw.bytes_rw = -1 /\ disk = before.disk
            \/ /\ rw.f \notin ReadOnly
               /\ Fits => ExactTransfer
               /\ ConfinedTransfer

\* A request whose chunk the count register can hold (read_write.c:94,
\* hd.c:166) is answered: the interrupts HD waits for are the ones the drive
\* raises, unless a status poll times out and panic() stops the system.  (A
\* larger chunk is not: the drive is asked for fewer sectors than HD awaits.)
RequestAnswered ==
    (fs # "idle" /\ rw.chunk <= COUNT) ~> (fs = "idle" \/ panicked)
=============================================================================
