--------------------------------- MODULE Fs ---------------------------------
(***************************************************************************)
(* The task FS: fs/main.c, fs/open.c, fs/link.c, fs/misc.c, and of          *)
(* fs/read_write.c what a process does to the directory.                   *)
(*                                                                         *)
(* On the disk: the map of used i-nodes, the map of used sectors, the      *)
(* i-nodes and the one directory, `/'.  In memory: inode_table[], the      *)
(* i-nodes in use; f_desc_table[], the open files; and filp[] of every     *)
(* process table entry, its file descriptors.  Each table points to the    *)
(* one before and counts how often it is pointed to.                       *)
(*                                                                         *)
(* FS serves one request at a time and talks to nobody but the disk        *)
(* driver meanwhile, so a request is one step.  A fork is two: MM copies   *)
(* the entry of the parent with its filp[], and tells FS later.            *)
(*                                                                         *)
(* i-nodes are written back whenever they change, so the copy in           *)
(* inode_table[] and the one on the disk are one here.  mkfs() formats the *)
(* disk at every boot.  Reading and writing a regular file (do_rdwt())     *)
(* changes none of these tables and is left out.  Reading and writing `/'  *)
(* does: do_rdwt() takes a directory as it takes a file.                   *)
(***************************************************************************)
EXTENDS Integers, FiniteSets, FiniteSetsExt

CONSTANTS
    Proc,        \* processes that use files
    InitProc,    \* the first of them, which never exits
    Name,        \* names of regular files
    NR_FILES, NR_FILE_DESC, NR_INODE,    \* sizes of the three tables
    FileSects,   \* NR_DEFAULT_FILE_SECTS: how many sectors every file is given
    ByteBits,    \* bits per byte of the sector map
    NrBits,      \* bits of the sector map
    MaxIno,      \* i-nodes on the disk
    DirMax,      \* entries that the first sector of the directory holds
    CntMax,      \* bound on i_cnt, which lost references would let grow
    DirWrites,   \* <<i, e>>: a process may write e, with some i-node's number, as entry i
    MaxDirWrites \* bound on how many entries are written

ROOT_INODE == 1
TTY_INODE == 2       \* stands for the three terminals dev_tty0 .. dev_tty2

ASSUME FsAssumption ==
    /\ InitProc \in Proc /\ IsFiniteSet(Proc)
    /\ NR_FILES \in Nat \ {0} /\ NR_FILE_DESC \in Nat \ {0} /\ NR_INODE \in Nat \ {0}
    /\ FileSects \in Nat \ {0} /\ ByteBits \in Nat \ {0}
    /\ NrBits \in Nat /\ NrBits > FileSects
    /\ MaxIno \in Nat /\ MaxIno > 2 + NrBits \div FileSects   \* sectors run out first
    /\ DirMax \in Nat /\ DirMax >= 2 /\ CntMax \in Nat \ {0}
    /\ DirWrites \subseteq (0 .. DirMax - 1)
           \X [ino : 0 .. MaxIno, name : Name \cup {".", "dev_tty", "none"}]
    /\ MaxDirWrites \in Nat

Fd == 0 .. NR_FILES - 1
Desc == 1 .. NR_FILE_DESC           \* 0 stands for a null pointer
Slot == 1 .. NR_INODE               \* of inode_table[]
Ino == 1 .. MaxIno

VARIABLES
    imap,     \* the i-nodes in use
    smap,     \* the bits set in the sector map
    inode,    \* inode[n]: mode and first sector (from the first data sector on)
    dir,      \* dir[i]: entry i of the directory, also of those past its end
    nent,     \* i_size of the directory, in entries
    dirwr,    \* history: how many entries processes have written themselves
    itab,     \* inode_table[]: i-node number and i_cnt
    fdtab,    \* f_desc_table[]: fd_inode and fd_cnt
    filp,     \* filp[p][fd]
    alive,    \* the processes that exist
    forking,  \* {<<p, c>>} from the time MM copies p to c until FS knows of it
    halted    \* FS has panicked or failed an assertion

disk == <<imap, smap, inode, dir, nent, dirwr>>
procs == <<alive, forking>>
vars == <<disk, itab, fdtab, filp, procs, halted>>

NoEntry == [ino |-> 0, name |-> "none"]
NoInode == [mode |-> "none", start |-> 0]

(* mkfs(): the directory has `.' and the terminals; bit 0 of the sector map  *)
(* is reserved, the next are those of the directory.                        *)
mkfs ==
    /\ imap = {ROOT_INODE, TTY_INODE}
    /\ smap = 0 .. FileSects
    /\ inode = [n \in Ino |-> CASE n = ROOT_INODE -> [mode |-> "dir", start |-> 0]
                                [] n = TTY_INODE -> [mode |-> "char", start |-> 0]
                                [] OTHER -> NoInode]
    /\ dir = [i \in 0 .. DirMax |-> CASE i = 0 -> [ino |-> ROOT_INODE, name |-> "."]
                                      [] i = 1 -> [ino |-> TTY_INODE, name |-> "dev_tty"]
                                      [] OTHER -> NoEntry]
    /\ nent = 2 /\ dirwr = 0

(* init_fs(): a reference to the root is taken, for ever. *)
Init ==
    /\ mkfs
    /\ itab = [s \in Slot |-> IF s = 1 THEN [num |-> ROOT_INODE, cnt |-> 1]
                                       ELSE [num |-> 0, cnt |-> 0]]
    /\ fdtab = [d \in Desc |-> [ino |-> 0, cnt |-> 0]]
    /\ filp = [p \in Proc |-> [fd \in Fd |-> 0]]
    /\ alive = {InitProc}
    /\ forking = {}
    /\ halted = FALSE

(* panic(), and assertions that fail. *)
Halt == halted' = TRUE /\ UNCHANGED <<disk, itab, fdtab, filp, procs>>

-----------------------------------------------------------------------------
(* The tables in memory.                                                    *)

(* get_inode(): the slot that holds i-node n already, or the first free one; *)
(* 0 if the table is full.                                                  *)
SlotOf(n) ==
    LET held == {s \in Slot : itab[s].cnt > 0 /\ itab[s].num = n}
        free == {s \in Slot : itab[s].cnt = 0}
    IN  IF held # {} THEN Min(held) ELSE IF free # {} THEN Min(free) ELSE 0

(* inode_table[] after get_inode(). *)
Got(n) ==
    LET s == SlotOf(n)
    IN  [itab EXCEPT ![s] = [num |-> n, cnt |-> IF itab[s].cnt > 0 THEN itab[s].cnt + 1 ELSE 1]]

(* Mutant: released twice. *)
put_inode_Twice(t, s) == [t EXCEPT ![s].cnt = @ - 2]

put_inode(t, s) == [t EXCEPT ![s].cnt = @ - 1]

FreeFd(p) == {fd \in Fd : filp[p][fd] = 0}
FreeDesc == {d \in Desc : fdtab[d].ino = 0}

-----------------------------------------------------------------------------
(* The directory.                                                           *)

(* search_file(): the loop looks at the name before it counts the entry, so  *)
(* that it also sees the one past the end.                                  *)
search_file(name) ==
    IF name = "/" THEN ROOT_INODE
    ELSE LET hits == {i \in 0 .. nent : dir[i].name = name}
         IN  IF hits = {} THEN 0 ELSE dir[Min(hits)].ino

(* new_dir_entry(): the first unused entry, or the one past the end. *)
NewEntry ==
    LET unused == {i \in 0 .. nent - 1 : dir[i].ino = 0}
    IN  IF unused # {} THEN Min(unused) ELSE nent

(* Mutant: the entry is not compared with n. *)
EntriesOf_AnyUsed(n) == {i \in 0 .. nent - 1 : dir[i].ino # 0}

(* do_unlink(): the entries that name i-node n; the loop stops at the first. *)
EntriesOf(n) == {i \in 0 .. nent - 1 : dir[i].ino = n}

-----------------------------------------------------------------------------
(* The maps.                                                                *)

alloc_imap_bit == Min(Ino \ imap)

(* alloc_smap_bit(): from the first free bit on. *)
FirstFree == Min((0 .. NrBits) \ smap)
AllocBits == FirstFree .. FirstFree + FileSects - 1
CanAlloc == \A b \in AllocBits : b < NrBits /\ b \notin smap

(* Mutant: byte_cnt does not leave out the first byte. *)
ClearedBits_AllBytes(bit_idx, n) ==
    LET second == (bit_idx \div ByteBits + 1) * ByteBits
    IN  (bit_idx .. second - 1) \cup (second .. second + n - 1)

(* do_unlink() clears n bits from bit_idx on: the rest of the first byte,    *)
(* byte_cnt whole bytes, and what is left in the last one.                  *)
ClearedBits(bit_idx, n) ==
    LET room     == ByteBits - (bit_idx % ByteBits)
        first    == IF n < room THEN n ELSE room
        byte_cnt == IF n < room THEN 0 ELSE (n - room) \div ByteBits
        second   == (bit_idx \div ByteBits + 1) * ByteBits
        last     == second + byte_cnt * ByteBits
    IN  (bit_idx .. bit_idx + first - 1) \cup (second .. last - 1)
            \cup (last .. last + n - first - byte_cnt * ByteBits - 1)

-----------------------------------------------------------------------------
(* do_open()                                                                *)

(* Connect filp[], the descriptor and the i-node. *)
Connect(p, s) ==
    LET fd == Min(FreeFd(p))
        d  == Min(FreeDesc)
    IN  /\ filp' = [filp EXCEPT ![p][fd] = d]
        /\ fdtab' = [fdtab EXCEPT ![d] = [ino |-> s, cnt |-> 1]]

OpenPanic(p) == (FreeFd(p) = {} \/ FreeDesc = {}) /\ Halt

OpenExisting(p, name) ==
    /\ search_file(name) # 0
    /\ LET n == search_file(name) IN
       IF SlotOf(n) = 0 \/ inode[n].mode = "none" THEN Halt
       ELSE /\ itab[SlotOf(n)].cnt < CntMax
            /\ itab' = Got(n)
            /\ Connect(p, SlotOf(n))
            /\ UNCHANGED <<disk, procs, halted>>

(* new_inode() *)
NewInode(start_sect) == [mode |-> "regular", start |-> start_sect]

(* create_file(): a bit in each map, the i-node, the directory entry. *)
Create(p, name) ==
    /\ search_file(name) = 0
    /\ LET n == alloc_imap_bit
           i == NewEntry
       IN  IF ~CanAlloc \/ SlotOf(n) = 0 THEN Halt
           ELSE /\ i < DirMax
                /\ imap' = imap \cup {n}
                /\ smap' = smap \cup AllocBits
                /\ inode' = [inode EXCEPT ![n] = NewInode(FirstFree - 1)]
                /\ dir' = [dir EXCEPT ![i] = [ino |-> n, name |-> name]]
                /\ nent' = IF i = nent THEN nent + 1 ELSE nent
                /\ itab' = [itab EXCEPT ![SlotOf(n)] = [num |-> n, cnt |-> 1]]
                /\ Connect(p, SlotOf(n))
                /\ UNCHANGED <<dirwr, procs, halted>>

(* A file that exists is not created, one that does not is not opened: -1. *)
Open(p, name) ==
    \/ OpenPanic(p)
    \/ FreeFd(p) # {} /\ FreeDesc # {} /\ (OpenExisting(p, name) \/ Create(p, name))

-----------------------------------------------------------------------------
(* do_close(): one reference less to the i-node and to the descriptor. *)

(* Mutant: fd_inode is reset although the entry is still in use. *)
Release_Always(d, t) == [t EXCEPT ![d] = [ino |-> 0, cnt |-> 0]]

Release(d, t) == IF t[d].cnt = 1 THEN [t EXCEPT ![d] = [ino |-> 0, cnt |-> 0]]
                                 ELSE [t EXCEPT ![d].cnt = @ - 1]

Close(p, fd) ==
    /\ filp[p][fd] # 0
    /\ LET d == filp[p][fd] IN
       /\ itab' = put_inode(itab, fdtab[d].ino)
       /\ fdtab' = Release(d, fdtab)
    /\ filp' = [filp EXCEPT ![p][fd] = 0]
    /\ UNCHANGED <<disk, procs, halted>>

-----------------------------------------------------------------------------
(* do_unlink()                                                              *)

(* Not a regular file, or open: -1, and the reference that get_inode() has   *)
(* taken is kept.                                                           *)
UnlinkRefused(n, s) ==
    /\ inode[n].mode # "regular" \/ itab[s].cnt > 0
    /\ itab[s].cnt < CntMax
    /\ itab' = Got(n)
    /\ UNCHANGED <<disk, fdtab, filp, procs, halted>>

(* The bits in both maps, the i-node and the directory entry are cleared.   *)
(* If the entry was the last, the directory shrinks to as many entries as   *)
(* are used before it.                                                      *)
UnlinkDone(n, s) ==
    /\ inode[n].mode = "regular" /\ itab[s].cnt = 0
    /\ LET bits == ClearedBits(inode[n].start + 1, FileSects)
           hits == EntriesOf(n)
       IN  IF n \notin imap \/ ~(bits \subseteq smap) \/ hits = {} THEN Halt
           ELSE /\ imap' = imap \ {n}
                /\ smap' = smap \ bits
                /\ inode' = [inode EXCEPT ![n] = NoInode]
                /\ dir' = [dir EXCEPT ![Min(hits)] = NoEntry]
                /\ nent' = IF Min(hits) = nent - 1
                             THEN Cardinality({i \in 0 .. nent - 2 : dir[i].ino # 0})
                             ELSE nent
                /\ itab' = put_inode(Got(n), s)
                /\ UNCHANGED <<dirwr, fdtab, filp, procs, halted>>

Unlink(name) ==
    /\ name # "/" /\ search_file(name) # 0
    /\ LET n == search_file(name) IN
       IF SlotOf(n) = 0 THEN Halt ELSE UnlinkRefused(n, SlotOf(n)) \/ UnlinkDone(n, SlotOf(n))

-----------------------------------------------------------------------------
(* do_rdwt() of `/', an entry at a time.  The position is not kept: it is    *)
(* where earlier calls have left it, in the directory or, if that has shrunk *)
(* since, behind its end.                                                   *)

OpensDir(p, fd) == filp[p][fd] # 0 /\ inode[itab[fdtab[filp[p][fd]].ino].num].mode = "dir"

(* A read goes on to the end of the sector; i_size follows the position. *)
ReadDir(p, fd) ==
    /\ OpensDir(p, fd)
    /\ nent' \in nent .. DirMax
    /\ UNCHANGED <<imap, smap, inode, dir, dirwr, itab, fdtab, filp, procs, halted>>

(* A write replaces entries, whatever they are. *)
WriteDir(p, fd) ==
    /\ OpensDir(p, fd) /\ dirwr < MaxDirWrites
    /\ \E w \in DirWrites :
         /\ dir' = [dir EXCEPT ![w[1]] = w[2]]
         /\ nent' = IF w[1] < nent THEN nent ELSE w[1] + 1
    /\ dirwr' = dirwr + 1
    /\ UNCHANGED <<imap, smap, inode, itab, fdtab, filp, procs, halted>>

-----------------------------------------------------------------------------
(* fork and exit.  MM serves one of them at a time and waits for FS.        *)

(* do_fork() of MM copies the entry, filp[] included. *)
ForkCopy(p, c) ==
    /\ forking = {} /\ c \notin alive
    /\ filp' = [filp EXCEPT ![c] = filp[p]]
    /\ alive' = alive \cup {c}
    /\ forking' = {<<p, c>>}
    /\ UNCHANGED <<disk, itab, fdtab, halted>>

(* How many descriptors of p lead to i-node slot s, or to descriptor d. *)
LeadsTo(p, fd, s) == filp[p][fd] # 0 /\ fdtab[filp[p][fd]].ino = s
RefsTo(p, s) == Cardinality({fd \in Fd : LeadsTo(p, fd, s)})
DescRefs(p, d) == Cardinality({fd \in Fd : filp[p][fd] = d})

(* Mutant: the references to the i-nodes are not counted. *)
fs_fork_NoInode(c) ==
    /\ ~halted
    /\ fdtab' = [d \in Desc |-> [fdtab[d] EXCEPT !.cnt = @ + DescRefs(c, d)]]
    /\ forking' = {}
    /\ UNCHANGED <<disk, itab, filp, alive, halted>>

(* FS counts what the child has inherited. *)
fs_fork(c) ==
    /\ ~halted
    /\ \A s \in Slot : itab[s].cnt + RefsTo(c, s) <= CntMax
    /\ fdtab' = [d \in Desc |-> [fdtab[d] EXCEPT !.cnt = @ + DescRefs(c, d)]]
    /\ itab' = [s \in Slot |-> [itab[s] EXCEPT !.cnt = @ + RefsTo(c, s)]]
    /\ forking' = {}
    /\ UNCHANGED <<disk, filp, alive, halted>>

(* FS closes what p has open. *)
fs_exit(p) ==
    /\ p # InitProc /\ forking = {}
    /\ itab' = [s \in Slot |-> [itab[s] EXCEPT !.cnt = @ - RefsTo(p, s)]]
    /\ fdtab' = [d \in Desc |-> IF fdtab[d].cnt = DescRefs(p, d)
                                  THEN [ino |-> 0, cnt |-> 0]
                                  ELSE [fdtab[d] EXCEPT !.cnt = @ - DescRefs(p, d)]]
    /\ filp' = [filp EXCEPT ![p] = [fd \in Fd |-> 0]]
    /\ alive' = alive \ {p}
    /\ UNCHANGED <<disk, forking, halted>>

-----------------------------------------------------------------------------

(* The parent and the child of a fork under way are blocked. *)
Blocked == UNION {{f[1], f[2]} : f \in forking}

Ready == IF halted THEN {} ELSE alive \ Blocked

(* The messages that task_fs() serves; FORK and EXIT come from MM. *)
Next ==
    \/ \E p \in Ready, name \in Name \cup {"/", ".", "dev_tty"} : Open(p, name)
    \/ \E p \in Ready, fd \in Fd : Close(p, fd) \/ ReadDir(p, fd) \/ WriteDir(p, fd)
    \/ \E p \in Ready, name \in Name \cup {".", "dev_tty"} : Unlink(name)
    \/ \E p \in Ready, c \in Proc : ForkCopy(p, c)
    \/ \E f \in forking : fs_fork(f[2])
    \/ \E p \in Ready : fs_exit(p)

Spec == Init /\ [][Next]_vars

-----------------------------------------------------------------------------
(* Properties.                                                              *)

TypeOK ==
    /\ imap \subseteq Ino /\ smap \subseteq 0 .. NrBits - 1
    /\ inode \in [Ino -> [mode : {"none", "dir", "char", "regular"}, start : 0 .. NrBits]]
    /\ dir \in [0 .. DirMax -> [ino : Ino \cup {0}, name : Name \cup {".", "dev_tty", "none"}]]
    /\ nent \in 0 .. DirMax /\ dirwr \in 0 .. MaxDirWrites
    /\ itab \in [Slot -> [num : Ino \cup {0}, cnt : 0 .. CntMax]]
    /\ fdtab \in [Desc -> [ino : Slot \cup {0}, cnt : Nat]]
    /\ filp \in [Proc -> [Fd -> Desc \cup {0}]]
    /\ alive \subseteq Proc /\ forking \subseteq Proc \X Proc /\ halted \in BOOLEAN

(* The processes whose descriptors are counted. *)
Counted == alive \ {f[2] : f \in forking}

(* fd_cnt is the number of file descriptors that point to the entry, in all  *)
(* processes whose fork FS has been told of, and fd_inode is null exactly    *)
(* when there are none: do_open(), do_close(), fs_fork() and fs_exit()       *)
(* together neither lose an entry of f_desc_table[] nor give one away that   *)
(* is still in use.                                                         *)
DescCounts ==
    \A d \in Desc :
        /\ fdtab[d].cnt = Cardinality({r \in Counted \X Fd : filp[r[1]][r[2]] = d})
        /\ (fdtab[d].ino = 0) <=> (fdtab[d].cnt = 0)
        /\ fdtab[d].cnt = 0 => \A p \in alive : DescRefs(p, d) = 0

(* An i-node that is open has a slot of inode_table[] of its own that counts *)
(* every file descriptor leading to it, and it is on the disk: it is not     *)
(* overwritten in the table and do_unlink() does not remove it, even if its  *)
(* only user is being forked or has shared it and exited.                   *)
OpenFileHeld ==
    /\ \A s \in Slot :
          /\ Cardinality({r \in Counted \X Fd : LeadsTo(r[1], r[2], s)}) <= itab[s].cnt
          /\ \A t \in Slot \ {s} : itab[s].cnt > 0 /\ itab[t].cnt > 0 => itab[s].num # itab[t].num
    /\ \A p \in alive, fd \in Fd : filp[p][fd] # 0 =>
          LET e == itab[fdtab[filp[p][fd]].ino]
          IN  e.cnt > 0 /\ e.num \in imap /\ inode[e.num].mode # "none"

(* The bits of the sector map are the reserved one, those of the directory   *)
(* and those of the files that exist, no sector in two of them: do_unlink()  *)
(* frees, byte by byte, what alloc_smap_bit() has taken bit by bit.          *)
Extent(n) == inode[n].start + 1 .. inode[n].start + FileSects
Files == {n \in imap : inode[n].mode = "regular"}
SectorsAccounted ==
    /\ smap = 0 .. FileSects \cup UNION {Extent(n) : n \in Files}
    /\ \A m, n \in Files \cup {ROOT_INODE} : m # n => Extent(m) \cap Extent(n) = {}

(* An entry of the directory is unused or points to an i-node in use, to     *)
(* which no other entry points: create_file() and do_unlink() keep the       *)
(* directory, the i-node map and the i-nodes in step, also in the entries    *)
(* they leave behind the end and a read of `/' brings back.  It lasts until  *)
(* a process writes to the directory, which nothing prevents                 *)
(* (read_write.c:74); the other properties do not depend on what it holds.   *)
DirPointsToFiles ==
    dirwr = 0 => \A i \in 0 .. nent - 1 : dir[i].ino # 0 =>
        /\ dir[i].ino \in imap /\ inode[dir[i].ino].mode # "none"
        /\ \A j \in 0 .. nent - 1 : j # i => dir[j].ino # dir[i].ino

(* link.c:162: i_size of the directory counts its entries, "including unused *)
(* slots (the file has been deleted but the slot is still there)".  So every *)
(* entry that is in use lies before the end.                                *)
SizeCoversEntries == \A i \in nent .. DirMax : dir[i].ino = 0
=============================================================================
