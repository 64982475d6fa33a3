------------------------------ MODULE FsProofs ------------------------------
(***************************************************************************)
(* Proofs about Fs: the tables of FS and the maps on the disk, for any     *)
(* sizes of the tables, any processes and any names.                       *)
(***************************************************************************)
EXTENDS Fs, FiniteSetTheorems, TLAPS

-----------------------------------------------------------------------------
(* The inductive invariant. *)

DiskTypes ==
    /\ imap \subseteq Ino /\ smap \subseteq 0 .. NrBits - 1
    /\ inode \in [Ino -> [mode : {"none", "dir", "char", "regular"}, start : 0 .. NrBits]]
    /\ dir \in [0 .. DirMax -> [ino : Ino \cup {0}, name : Name \cup {".", "dev_tty", "none"}]]
    /\ nent \in 0 .. DirMax /\ dirwr \in 0 .. MaxDirWrites

\* The i-nodes in use are those mkfs() has made and those of regular files;
\* the others are blank.
InodesSound ==
    /\ ROOT_INODE \in imap /\ inode[ROOT_INODE] = [mode |-> "dir", start |-> 0]
    /\ TTY_INODE \in imap /\ inode[TTY_INODE].mode = "char"
    /\ \A n \in imap \ {ROOT_INODE, TTY_INODE} : inode[n].mode = "regular"
    /\ \A n \in Ino \ imap : inode[n].mode = "none"

\* The directory is sound past its end too, where search_file() looks and
\* where the entries lie that do_unlink() has cut off.
DirSound ==
    \A i \in 0 .. DirMax : dir[i].ino # 0 =>
        /\ dir[i].ino \in imap /\ inode[dir[i].ino].mode # "none"
        /\ \A j \in 0 .. DirMax : j # i => dir[j].ino # dir[i].ino

\* What a process writes to the directory itself is anything.
DiskSound == DiskTypes /\ InodesSound /\ (dirwr = 0 => DirSound) /\ SectorsAccounted

\* No two slots of inode_table[] in use hold the same i-node.
SlotsSound ==
    /\ itab \in [Slot -> [num : Ino \cup {0}, cnt : 0 .. CntMax]]
    /\ \A s \in Slot : itab[s].cnt > 0 =>
         \A t \in Slot \ {s} : itab[t].cnt > 0 => itab[s].num # itab[t].num

\* A child that FS does not know of has what its parent has.  The parent waits.
ForkSound ==
    /\ InitProc \in alive /\ alive \subseteq Proc
    /\ \/ forking = {}
       \/ \E p, c \in alive : p # c /\ forking = {<<p, c>>} /\ filp[c] = filp[p]

DescTypes ==
    /\ fdtab \in [Desc -> [ino : Slot \cup {0}, cnt : Nat]]
    /\ filp \in [Proc -> [Fd -> Desc \cup {0}]]

\* The file descriptors that are counted: those that point to descriptor d,
\* and those that lead to slot s.
DescUsers(d) == {r \in Counted \X Fd : filp[r[1]][r[2]] = d}
SlotUsers(s) == {r \in Counted \X Fd : LeadsTo(r[1], r[2], s)}

CountsSound ==
    /\ \A d \in Desc : /\ fdtab[d].cnt = Cardinality(DescUsers(d))
                       /\ (fdtab[d].ino = 0) <=> (fdtab[d].cnt = 0)
    /\ \A s \in Slot : Cardinality(SlotUsers(s)) <= itab[s].cnt

\* An i-node that somebody has open exists.  Of one that is only referred to
\* this does not hold: a process may write the number of an unused i-node into
\* the directory, and do_unlink() then refuses and keeps its reference.
UsersSound == \A s \in Slot : SlotUsers(s) # {} => itab[s].num \in imap

FsInv ==
    /\ DiskSound /\ SlotsSound /\ ForkSound /\ DescTypes /\ CountsSound /\ UsersSound
    /\ halted \in BOOLEAN

-----------------------------------------------------------------------------
(* Lemmas about the helpers. *)

LEMMA Sizes ==
    /\ NR_FILES \in Nat \ {0} /\ NR_FILE_DESC \in Nat \ {0} /\ NR_INODE \in Nat \ {0}
    /\ FileSects \in Nat \ {0} /\ ByteBits \in Nat \ {0}
    /\ NrBits \in Nat /\ NrBits > FileSects /\ MaxIno \in Nat /\ MaxIno > 2
    /\ DirMax \in Nat /\ DirMax >= 2 /\ CntMax \in Nat \ {0}
<1>1. NrBits \div FileSects \in Nat BY FsAssumption
<1> QED BY <1>1, FsAssumption

\* What Min(S) of FiniteSetsExt is.
LEMMA MinNat ==
    ASSUME NEW T \in SUBSET Nat, T # {}
    PROVE  Min(T) \in T /\ \A y \in T : Min(T) <= y
<1>1. PICK x \in T : \A y \in T : ~(<<y, x>> \in OpToRel(<, Nat))
  BY NatLessThanWellFounded, WFMin
<1>2. \A y \in T : ~(y < x) BY <1>1 DEF OpToRel
<1>3. \A y \in T : x <= y BY <1>2
<1> QED BY <1>3 DEF Min

\* Counting with one element more or less.
LEMMA OneMore ==
    ASSUME NEW S, NEW x, IsFiniteSet(S)
    PROVE  /\ IsFiniteSet(S \cup {x}) /\ Cardinality(S \cup {x}) \in Nat
           /\ Cardinality(S) \in Nat /\ Cardinality(S \cup {x}) <= Cardinality(S) + 1
           /\ x \notin S => Cardinality(S \cup {x}) = Cardinality(S) + 1
<1>1. Cardinality(S) \in Nat BY FS_CardinalityType
<1>2. /\ IsFiniteSet(S \cup {x})
      /\ Cardinality(S \cup {x}) = IF x \in S THEN Cardinality(S) ELSE Cardinality(S) + 1
  BY FS_AddElement
<1> QED BY <1>1, <1>2

LEMMA OneLess ==
    ASSUME NEW S, NEW x \in S, IsFiniteSet(S)
    PROVE  /\ Cardinality(S) \in Nat \ {0} /\ Cardinality(S \ {x}) = Cardinality(S) - 1
           /\ Cardinality(S) = 1 => S = {x}
<1>1. Cardinality(S) \in Nat BY FS_CardinalityType
<1>2. IsFiniteSet(S \ {x}) /\ Cardinality(S \ {x}) = Cardinality(S) - 1 BY FS_RemoveElement
<1>3. Cardinality(S \ {x}) \in Nat BY <1>2, FS_CardinalityType
<1>4. Cardinality(S) = 1 => S \ {x} = {} BY <1>2, FS_EmptySet
<1> QED BY <1>1, <1>2, <1>3, <1>4

\* get_inode() finds the one slot that holds n, or one that is free.
LEMMA SlotFound ==
    ASSUME SlotsSound, NEW n, SlotOf(n) # 0
    PROVE  /\ SlotOf(n) \in Slot
           /\ itab[SlotOf(n)].cnt > 0 => itab[SlotOf(n)].num = n
           /\ itab[SlotOf(n)].cnt = 0 => \A s \in Slot : itab[s].cnt > 0 => itab[s].num # n
<1> DEFINE held == {s \in Slot : itab[s].cnt > 0 /\ itab[s].num = n}
           free == {s \in Slot : itab[s].cnt = 0}
<1>1. SlotOf(n) = IF held # {} THEN Min(held) ELSE IF free # {} THEN Min(free) ELSE 0
  BY DEF SlotOf
<1>2. held \in SUBSET Nat /\ free \in SUBSET Nat BY Sizes DEF Slot
<1>3. CASE held # {}
  <2>1. SlotOf(n) \in held BY <1>1, <1>2, <1>3, MinNat
  <2> QED BY <2>1 DEF SlotsSound
<1>4. CASE held = {}
  <2>1. SlotOf(n) \in free BY <1>1, <1>2, <1>4, MinNat
  <2> QED BY <2>1, <1>4
<1> QED BY <1>3, <1>4

\* The bits that do_unlink() clears byte by byte are n bits from b on
\* (link.c:96-132).
LEMMA ClearedAreContiguous ==
    ASSUME NEW b \in Nat, NEW n \in Nat
    PROVE  ClearedBits(b, n) = b .. b + n - 1
<1> DEFINE room     == ByteBits - (b % ByteBits)
           first    == IF n < room THEN n ELSE room
           byte_cnt == IF n < room THEN 0 ELSE (n - room) \div ByteBits
           second   == (b \div ByteBits + 1) * ByteBits
           last     == second + byte_cnt * ByteBits
           rest     == n - first - byte_cnt * ByteBits
<1>1. /\ b % ByteBits \in 0 .. ByteBits - 1 /\ b \div ByteBits \in Nat
      /\ b = ByteBits * (b \div ByteBits) + (b % ByteBits)
  BY Sizes
<1>2. room \in 1 .. ByteBits BY <1>1, Sizes
<1>3. second = b + room
  <2>1. second = ByteBits * (b \div ByteBits) + ByteBits BY <1>1, Sizes
  <2> QED BY <1>1, <2>1, Sizes
<1>4. ClearedBits(b, n) = (b .. b + first - 1) \cup (second .. last - 1) \cup (last .. last + rest - 1)
  <2>1. last + rest - 1 = last + n - first - byte_cnt * ByteBits - 1
    <3>1. PICK k \in Int : k = byte_cnt * ByteBits BY <1>2, Sizes
    <3>2. last \in Int BY <1>2, <1>3, <3>1
    <3> HIDE DEF last
    <3> QED BY <1>2, <3>1, <3>2
  <2> QED BY <2>1 DEF ClearedBits
<1>5. CASE n < room
  <2>1. byte_cnt * ByteBits = 0 BY <1>5, Sizes
  <2>2. first = n /\ last = second /\ rest = 0 BY <1>2, <1>3, <1>5, <2>1
  <2> HIDE DEF room, first, byte_cnt, second, last, rest
  <2> QED BY <1>2, <1>3, <1>4, <1>5, <2>2
<1>6. CASE n >= room
  <2>1. PICK m \in Nat : m = n - room BY <1>2, <1>6
  <2>2. byte_cnt = m \div ByteBits /\ first = room BY <1>2, <1>6, <2>1
  <2>3. PICK k \in Nat : k = byte_cnt * ByteBits /\ k <= m
    <3>1. m \div ByteBits \in Nat /\ ByteBits * (m \div ByteBits) <= m BY Sizes
    <3> QED BY <2>2, <3>1, Sizes
  <2>4. last = b + room + k /\ rest = m - k BY <1>2, <1>3, <1>6, <2>1, <2>2, <2>3
  <2> HIDE DEF room, first, byte_cnt, second, last, rest
  <2> QED BY <1>2, <1>3, <1>4, <1>6, <2>1, <2>2, <2>3, <2>4
<1> QED BY <1>2, <1>5, <1>6

\* An i-node is left while there are sectors for a file: the extents of the
\* files are disjoint, so that no two of them begin in the same FileSects
\* sectors.
LEMMA InodeLeft ==
    ASSUME DiskSound
    PROVE  Ino \ imap # {}
<1>1. DiskTypes /\ InodesSound /\ SectorsAccounted BY DEF DiskSound
<1> DEFINE N == NrBits \div FileSects
           group == [n \in Files |-> inode[n].start \div FileSects]
<1>2. N \in Nat /\ MaxIno > 2 + N BY FsAssumption
<1>3. \A n \in Files : inode[n].start \in 0 .. NrBits /\ n \in Ino
  BY <1>1 DEF DiskTypes, Files
<1>4. \A n \in Files : inode[n].start + FileSects \in Extent(n) /\ Extent(n) \subseteq smap
  BY <1>1, <1>3, Sizes DEF SectorsAccounted, Extent
<1>5. \A n \in Files : inode[n].start + FileSects < NrBits
  BY <1>1, <1>3, <1>4, Sizes DEF DiskTypes
<1>6. \A n \in Files : inode[n].start + 1 >= FileSects + 1
  <2> SUFFICES ASSUME NEW n \in Files PROVE inode[n].start >= FileSects BY <1>3, Sizes
  <2>1. n # ROOT_INODE /\ Extent(ROOT_INODE) = 1 .. FileSects
    BY <1>1, Sizes DEF InodesSound, Files, Extent
  <2>2. Extent(ROOT_INODE) \cap Extent(n) = {} BY <1>1, <2>1 DEF SectorsAccounted
  <2>3. inode[n].start + 1 \in Extent(n) BY <1>3, Sizes DEF Extent
  <2>4. inode[n].start + 1 \notin 1 .. FileSects BY <2>1, <2>2, <2>3
  <2> QED BY <1>3, <2>4, Sizes
<1>7. \A n \in Files : group[n] \in 1 .. N
  <2> SUFFICES ASSUME NEW n \in Files PROVE inode[n].start \div FileSects \in 1 .. N OBVIOUS
  <2>1. PICK x \in Nat : x = inode[n].start /\ x >= FileSects /\ x < NrBits
    BY <1>3, <1>5, <1>6, Sizes
  <2>2. x \div FileSects \in Nat /\ x < FileSects * (x \div FileSects) + FileSects
        /\ FileSects * (x \div FileSects) <= x
    BY Sizes
  <2>3. NrBits < FileSects * N + FileSects /\ FileSects * N <= NrBits BY Sizes
  <2>4. x \div FileSects >= 1 BY <2>1, <2>2, Sizes
  <2>5. x \div FileSects <= N
    <3> SUFFICES ASSUME x \div FileSects >= N + 1 PROVE FALSE BY <1>2, <2>2
    <3>1. PICK q \in Nat : q = x \div FileSects BY <2>2
    <3>2. FileSects * q >= FileSects * (N + 1) BY <1>2, <3>1, Sizes
    <3>3. FileSects * (N + 1) = FileSects * N + FileSects BY <1>2, Sizes
    <3> QED BY <1>2, <2>1, <2>2, <2>3, <3>1, <3>2, <3>3, Sizes
  <2> QED BY <1>2, <2>1, <2>2, <2>4, <2>5
<1>8. \A m, n \in Files : group[m] = group[n] => m = n
  <2> SUFFICES ASSUME NEW m \in Files, NEW n \in Files, m # n,
                      inode[m].start \div FileSects = inode[n].start \div FileSects
               PROVE  FALSE
    OBVIOUS
  <2>1. PICK x \in Nat, y \in Nat : x = inode[m].start /\ y = inode[n].start BY <1>3
  <2>2. PICK q \in Nat : q = x \div FileSects /\ q = y \div FileSects BY <2>1, Sizes
  <2>3. /\ FileSects * q <= x /\ x < FileSects * q + FileSects
        /\ FileSects * q <= y /\ y < FileSects * q + FileSects
    BY <2>2, Sizes
  <2>4. PICK z \in Nat : z = FileSects * q BY <2>2, Sizes
  <2>5. z + FileSects \in Extent(m) /\ z + FileSects \in Extent(n)
    BY <2>1, <2>3, <2>4, Sizes DEF Extent
  <2> QED BY <1>1, <2>5 DEF SectorsAccounted
<1>9. group \in Injection(Files, 1 .. N)
  BY <1>7, <1>8 DEF Injection, IsInjective
<1>10. IsFiniteSet(Files) /\ Cardinality(Files) <= N
  <2>1. IsFiniteSet(1 .. N) /\ Cardinality(1 .. N) = N BY <1>2, FS_Interval
  <2> QED BY <1>9, <2>1, FS_Injection
<1>11. imap \subseteq Files \cup {ROOT_INODE, TTY_INODE}
  BY <1>1 DEF InodesSound, Files
<1> HIDE DEF N, group
<1>12. /\ IsFiniteSet(Files \cup {ROOT_INODE} \cup {TTY_INODE})
       /\ Cardinality(Files \cup {ROOT_INODE} \cup {TTY_INODE}) <= N + 2
  <2>1. PICK A : A = Files \cup {ROOT_INODE} OBVIOUS
  <2>2. /\ IsFiniteSet(A) /\ Cardinality(A) <= Cardinality(Files) + 1
        /\ Cardinality(Files) \in Nat
    BY <1>10, <2>1, OneMore
  <2>3. /\ IsFiniteSet(A \cup {TTY_INODE}) /\ Cardinality(A \cup {TTY_INODE}) <= Cardinality(A) + 1
        /\ Cardinality(A) \in Nat /\ Cardinality(A \cup {TTY_INODE}) \in Nat
    BY <2>2, OneMore
  <2> QED BY <1>2, <1>10, <2>1, <2>2, <2>3
<1>13. Cardinality(Ino) = MaxIno BY FS_Interval, Sizes DEF Ino
<1>14. ASSUME Ino \ imap = {} PROVE FALSE
  <2>1. Ino \in SUBSET (Files \cup {ROOT_INODE} \cup {TTY_INODE}) BY <1>11, <1>14
  <2>2. Cardinality(Ino) <= Cardinality(Files \cup {ROOT_INODE} \cup {TTY_INODE}) BY <1>12, <2>1, FS_Subset
  <2>3. Cardinality(Files \cup {ROOT_INODE} \cup {TTY_INODE}) \in Nat BY <1>12, FS_CardinalityType
  <2> QED BY <1>2, <1>12, <1>13, <2>2, <2>3, Sizes
<1> QED BY <1>14

-----------------------------------------------------------------------------
(* The disk: what create_file() and do_unlink() keep. *)

LEMMA DiskInit == mkfs => DiskSound
<1> SUFFICES ASSUME mkfs PROVE DiskSound OBVIOUS
<1> USE DEF ROOT_INODE, TTY_INODE
<1>1. 1 \in Ino /\ 2 \in Ino /\ 0 \in 0 .. NrBits BY Sizes DEF Ino
<1>2. inode = [n \in Ino |-> IF n = 1 THEN [mode |-> "dir", start |-> 0]
                             ELSE IF n = 2 THEN [mode |-> "char", start |-> 0] ELSE NoInode]
  BY DEF mkfs
<1>3. dir = [i \in 0 .. DirMax |-> IF i = 0 THEN [ino |-> 1, name |-> "."]
                                   ELSE IF i = 1 THEN [ino |-> 2, name |-> "dev_tty"]
                                   ELSE NoEntry]
  BY DEF mkfs
<1>4. imap = {1, 2} /\ smap = 0 .. FileSects /\ nent = 2 BY DEF mkfs
<1>5. DiskTypes
  <2>1. inode \in [Ino -> [mode : {"none", "dir", "char", "regular"}, start : 0 .. NrBits]]
    BY <1>1, <1>2 DEF NoInode
  <2>2. dir \in [0 .. DirMax -> [ino : Ino \cup {0}, name : Name \cup {".", "dev_tty", "none"}]]
    BY <1>1, <1>3 DEF NoEntry
  <2>3. imap \subseteq Ino /\ smap \subseteq 0 .. NrBits - 1 /\ nent \in 0 .. DirMax
    BY <1>1, <1>4, Sizes
  <2>4. dirwr \in 0 .. MaxDirWrites BY FsAssumption DEF mkfs
  <2> QED BY <2>1, <2>2, <2>3, <2>4 DEF DiskTypes
<1>6. InodesSound BY <1>1, <1>2, <1>4 DEF InodesSound, NoInode
<1>7. DirSound BY <1>1, <1>2, <1>3, <1>4 DEF DirSound, NoEntry
<1>8. SectorsAccounted
  <2>1. Files = {} BY <1>1, <1>2, <1>4 DEF Files
  <2> QED BY <1>4, <2>1 DEF SectorsAccounted
<1> QED BY <1>5, <1>6, <1>7, <1>8 DEF DiskSound

LEMMA DiskFrame == DiskSound /\ UNCHANGED disk => DiskSound'
BY DEF disk, DiskSound, DiskTypes, InodesSound, DirSound, SectorsAccounted, Files, Extent

\* What search_file() finds is the number of an i-node, although it looks one
\* entry too far; one that has a mode is in use.
LEMMA Found ==
    ASSUME DiskSound, NEW name, search_file(name) # 0
    PROVE  /\ search_file(name) \in Ino
           /\ inode[search_file(name)].mode # "none" => search_file(name) \in imap
<1>1. DiskTypes /\ InodesSound BY DEF DiskSound
<1>2. CASE name = "/" BY <1>1, <1>2, Sizes DEF search_file, InodesSound, DiskTypes
<1>3. CASE name # "/"
  <2> DEFINE hits == {i \in 0 .. nent : dir[i].name = name}
  <2>1. hits # {} /\ search_file(name) = dir[Min(hits)].ino BY <1>3 DEF search_file
  <2>2. hits \in SUBSET Nat /\ hits \subseteq 0 .. DirMax BY <1>1, Sizes DEF DiskTypes
  <2>3. Min(hits) \in 0 .. DirMax BY <2>1, <2>2, MinNat
  <2>4. search_file(name) \in Ino BY <1>1, <2>1, <2>3 DEF DiskTypes
  <2> QED BY <1>1, <2>4 DEF InodesSound
<1> QED BY <1>2, <1>3

\* The entry that new_dir_entry() fills.
LEMMA EntryFound ==
    ASSUME DiskTypes
    PROVE  NewEntry \in 0 .. nent
<1> DEFINE unused == {i \in 0 .. nent - 1 : dir[i].ino = 0}
<1>1. nent \in Nat BY Sizes DEF DiskTypes
<1>2. unused \in SUBSET Nat BY <1>1
<1>3. CASE unused # {}
  <2>1. Min(unused) \in unused BY <1>2, <1>3, MinNat
  <2>2. NewEntry = Min(unused) BY <1>3 DEF NewEntry
  <2> QED BY <1>1, <2>1, <2>2
<1>4. CASE unused = {}
  <2>1. NewEntry = nent BY <1>4 DEF NewEntry
  <2> QED BY <1>1, <2>1
<1> QED BY <1>3, <1>4

\* The bits that alloc_smap_bit() takes.
LEMMA BitsFound ==
    ASSUME DiskSound, CanAlloc
    PROVE  /\ FirstFree \in 1 .. NrBits /\ AllocBits \subseteq 0 .. NrBits - 1
           /\ AllocBits \cap smap = {}
           /\ AllocBits = FirstFree .. FirstFree - 1 + FileSects
<1>1. smap \subseteq 0 .. NrBits - 1 /\ 0 \in smap
  BY Sizes DEF DiskSound, DiskTypes, SectorsAccounted
<1> DEFINE free == (0 .. NrBits) \ smap
<1>2. NrBits \in free BY <1>1, Sizes
<1>3. FirstFree \in free BY <1>2, MinNat, Sizes DEF FirstFree
<1>4. FirstFree \in 1 .. NrBits BY <1>1, <1>3, Sizes
<1>5. AllocBits = FirstFree .. FirstFree - 1 + FileSects BY <1>4, Sizes DEF AllocBits
<1>6. \A b \in AllocBits : b \in 0 .. NrBits - 1 /\ b \notin smap
  BY <1>4, <1>5, Sizes DEF CanAlloc
<1> QED BY <1>4, <1>5, <1>6

LEMMA DiskCreate ==
    ASSUME DiskSound, NEW n \in Ino \ imap, NEW i \in 0 .. nent, i < DirMax,
           NEW name \in Name \cup {".", "dev_tty"}, CanAlloc, dirwr' = dirwr,
           imap' = imap \cup {n}, smap' = smap \cup AllocBits,
           inode' = [inode EXCEPT ![n] = NewInode(FirstFree - 1)],
           dir' = [dir EXCEPT ![i] = [ino |-> n, name |-> name]],
           nent' = IF i = nent THEN nent + 1 ELSE nent
    PROVE  DiskSound'
<1>1. DiskTypes /\ InodesSound /\ (dirwr = 0 => DirSound) /\ SectorsAccounted BY DEF DiskSound
<1>2. /\ FirstFree \in 1 .. NrBits /\ AllocBits \subseteq 0 .. NrBits - 1
      /\ AllocBits \cap smap = {}
      /\ AllocBits = FirstFree .. FirstFree - 1 + FileSects
  BY BitsFound
<1>3. nent \in 0 .. DirMax /\ i \in 0 .. DirMax BY <1>1, Sizes DEF DiskTypes
<1>4. PICK start \in 0 .. NrBits : start = FirstFree - 1 BY <1>2, Sizes
<1>5. /\ inode' \in [Ino -> [mode : {"none", "dir", "char", "regular"}, start : 0 .. NrBits]]
      /\ inode'[n] = [mode |-> "regular", start |-> start]
      /\ \A m \in Ino : m # n => inode'[m] = inode[m]
  BY <1>1, <1>4 DEF DiskTypes, NewInode
<1>6. /\ dir' \in [0 .. DirMax -> [ino : Ino \cup {0}, name : Name \cup {".", "dev_tty", "none"}]]
      /\ dir'[i].ino = n
      /\ \A j \in 0 .. DirMax : j # i => dir'[j] = dir[j]
  BY <1>1, <1>3 DEF DiskTypes
<1>7. DiskTypes'
  <2>1. imap' \subseteq Ino BY <1>1 DEF DiskTypes
  <2>2. smap' \subseteq 0 .. NrBits - 1 BY <1>1, <1>2 DEF DiskTypes
  <2>3. nent' \in 0 .. DirMax /\ dirwr' \in 0 .. MaxDirWrites BY <1>1, <1>3, Sizes DEF DiskTypes
  <2> QED BY <1>5, <1>6, <2>1, <2>2, <2>3 DEF DiskTypes
<1>8. n # ROOT_INODE /\ n # TTY_INODE /\ ROOT_INODE \in Ino /\ TTY_INODE \in Ino
  BY <1>1 DEF InodesSound, DiskTypes
<1>9. InodesSound' BY <1>1, <1>5, <1>8 DEF InodesSound, DiskTypes
<1>10. ASSUME dirwr' = 0 PROVE DirSound'
  <2> USE <1>10
  <2>1. \A j \in 0 .. DirMax : j # i /\ dir[j].ino # 0 => dir[j].ino \in imap /\ dir[j].ino # n
    BY <1>1 DEF DirSound
  <2>2. \A j \in 0 .. DirMax : j # i /\ dir[j].ino # 0 =>
           dir[j].ino \in Ino /\ inode'[dir[j].ino].mode # "none"
    BY <1>1, <1>5, <2>1 DEF DirSound, DiskTypes
  <2>3. n # 0 BY Sizes DEF Ino
  <2>4. ASSUME NEW j \in 0 .. DirMax, dir'[j].ino # 0
        PROVE  /\ dir'[j].ino \in imap' /\ inode'[dir'[j].ino].mode # "none"
               /\ \A k \in 0 .. DirMax : k # j => dir'[k].ino # dir'[j].ino
    <3>1. CASE j = i BY <1>5, <1>6, <2>1, <2>3, <3>1
    <3>2. CASE j # i
      <4>1. \A k \in 0 .. DirMax : k # j => dir[k].ino # dir[j].ino
        BY <1>1, <1>6, <2>4, <3>2 DEF DirSound
      <4> QED BY <1>3, <1>6, <2>1, <2>2, <2>4, <3>2, <4>1
    <3> QED BY <3>1, <3>2
  <2> QED BY <2>4 DEF DirSound
<1>11. SectorsAccounted'
  <2>1. Files' = Files \cup {n}
    <3>1. \A m \in imap : m # n /\ m \in Ino /\ inode'[m] = inode[m] BY <1>1, <1>5 DEF DiskTypes
    <3>2. inode'[n].mode = "regular" BY <1>5
    <3> QED BY <3>1, <3>2 DEF Files
  <2>2. /\ \A m \in Files \cup {ROOT_INODE} : m # n /\ Extent(m)' = Extent(m)
        /\ Extent(n)' = AllocBits
    <3>1. \A m \in Files \cup {ROOT_INODE} : m # n /\ m \in Ino
      BY <1>1, <1>8 DEF Files, DiskTypes
    <3>2. \A m \in Files \cup {ROOT_INODE} : inode'[m] = inode[m] BY <1>5, <3>1
    <3>3. Extent(n)' = AllocBits BY <1>2, <1>4, <1>5, Sizes DEF Extent
    <3> QED BY <3>1, <3>2, <3>3 DEF Extent
  <2>3. \A m \in Files \cup {ROOT_INODE} : Extent(m) \subseteq smap
    <3>1. Extent(ROOT_INODE) \subseteq 0 .. FileSects
      BY <1>1, Sizes DEF InodesSound, Extent
    <3> QED BY <1>1, <3>1 DEF SectorsAccounted
  <2>4. smap' = 0 .. FileSects \cup UNION {Extent(m)' : m \in Files'}
    <3>1. UNION {Extent(m)' : m \in Files'} = AllocBits \cup UNION {Extent(m) : m \in Files}
      BY <2>1, <2>2
    <3> QED BY <1>1, <3>1 DEF SectorsAccounted
  <2>5. ASSUME NEW m \in Files' \cup {ROOT_INODE}, NEW k \in Files' \cup {ROOT_INODE}, m # k
        PROVE  Extent(m)' \cap Extent(k)' = {}
    <3>1. CASE m = n BY <1>2, <2>1, <2>2, <2>3, <2>5, <3>1
    <3>2. CASE k = n BY <1>2, <2>1, <2>2, <2>3, <2>5, <3>2
    <3>3. CASE m # n /\ k # n
      <4>1. m \in Files \cup {ROOT_INODE} /\ k \in Files \cup {ROOT_INODE} BY <2>1, <3>3
      <4>2. Extent(m) \cap Extent(k) = {} BY <1>1, <2>5, <4>1 DEF SectorsAccounted
      <4> QED BY <2>2, <4>1, <4>2
    <3> QED BY <3>1, <3>2, <3>3
  <2> QED BY <2>4, <2>5 DEF SectorsAccounted
<1> QED BY <1>7, <1>9, <1>10, <1>11 DEF DiskSound

\* do_unlink() frees the sectors of the file and nothing else, and clears its
\* only entry.
LEMMA DiskUnlink ==
    ASSUME DiskSound, NEW n \in imap, inode[n].mode = "regular",
           NEW i \in EntriesOf(n), dirwr' = dirwr,
           imap' = imap \ {n},
           smap' = smap \ ClearedBits(inode[n].start + 1, FileSects),
           inode' = [inode EXCEPT ![n] = NoInode],
           dir' = [dir EXCEPT ![i] = NoEntry],
           nent' = IF i = nent - 1 THEN Cardinality({j \in 0 .. nent - 2 : dir[j].ino # 0})
                   ELSE nent
    PROVE  DiskSound'
<1>1. DiskTypes /\ InodesSound /\ (dirwr = 0 => DirSound) /\ SectorsAccounted BY DEF DiskSound
<1>2. nent \in 0 .. DirMax /\ n \in Ino /\ n \in Files BY <1>1 DEF DiskTypes, Files
<1>3. i \in 0 .. nent - 1 /\ i \in 0 .. DirMax /\ dir[i].ino = n BY <1>2, Sizes DEF EntriesOf
<1>4. /\ inode' \in [Ino -> [mode : {"none", "dir", "char", "regular"}, start : 0 .. NrBits]]
      /\ inode'[n].mode = "none"
      /\ \A m \in Ino : m # n => inode'[m] = inode[m]
  BY <1>1, <1>2, Sizes DEF DiskTypes, NoInode
<1>5. /\ dir' \in [0 .. DirMax -> [ino : Ino \cup {0}, name : Name \cup {".", "dev_tty", "none"}]]
      /\ dir'[i].ino = 0
      /\ \A j \in 0 .. DirMax : j # i => dir'[j] = dir[j]
  BY <1>1, <1>3 DEF DiskTypes, NoEntry
<1>6. nent' \in 0 .. DirMax
  <2> DEFINE used == {j \in 0 .. nent - 2 : dir[j].ino # 0}
  <2>1. PICK e \in Int : e = nent - 2 BY <1>2
  <2>2. IsFiniteSet(0 .. nent - 2) /\ Cardinality(0 .. nent - 2) <= nent
    <3>1. IsFiniteSet(0 .. e) /\ Cardinality(0 .. e) = IF 0 > e THEN 0 ELSE e - 0 + 1
      BY FS_Interval
    <3> QED BY <1>2, <2>1, <3>1
  <2>3. IsFiniteSet(used) /\ Cardinality(used) <= Cardinality(0 .. nent - 2) BY <2>2, FS_Subset
  <2>4. Cardinality(used) \in Nat /\ Cardinality(0 .. nent - 2) \in Nat
    BY <2>2, <2>3, FS_CardinalityType
  <2> HIDE DEF used
  <2>5. Cardinality(used) \in 0 .. DirMax BY <1>2, <2>2, <2>3, <2>4, Sizes
  <2> QED BY <1>2, <2>5 DEF used
<1>7. n # ROOT_INODE /\ n # TTY_INODE BY <1>1 DEF InodesSound
<1>8. InodesSound' BY <1>1, <1>4, <1>7 DEF InodesSound, DiskTypes
<1>9. ASSUME dirwr' = 0 PROVE DirSound'
  <2> USE <1>9
  <2>1. \A j \in 0 .. DirMax : j # i => dir[j].ino # n
    <3>1. n # 0 BY <1>2 DEF Ino
    <3> QED BY <1>1, <1>3, <3>1 DEF DirSound
  <2>2. ASSUME NEW j \in 0 .. DirMax, dir'[j].ino # 0
        PROVE  /\ dir'[j].ino \in imap' /\ inode'[dir'[j].ino].mode # "none"
               /\ \A k \in 0 .. DirMax : k # j => dir'[k].ino # dir'[j].ino
    <3>1. j # i /\ dir'[j] = dir[j] BY <1>5, <2>2
    <3>2. /\ dir[j].ino \in imap /\ dir[j].ino \in Ino /\ inode[dir[j].ino].mode # "none"
          /\ \A k \in 0 .. DirMax : k # j => dir[k].ino # dir[j].ino
      BY <1>1, <2>2, <3>1 DEF DirSound, DiskTypes
    <3> QED BY <1>4, <1>5, <2>1, <2>2, <3>1, <3>2
  <2> QED BY <2>2 DEF DirSound
<1>10. ClearedBits(inode[n].start + 1, FileSects) = Extent(n)
  <2>1. PICK b \in Nat : b = inode[n].start + 1 BY <1>1, <1>2 DEF DiskTypes
  <2>2. ClearedBits(b, FileSects) = b .. b + FileSects - 1 BY ClearedAreContiguous, Sizes
  <2>3. inode[n].start \in Nat BY <1>1, <1>2 DEF DiskTypes
  <2>4. Extent(n) = b .. b + FileSects - 1 BY <2>1, <2>3, Sizes DEF Extent
  <2> QED BY <2>1, <2>2, <2>4
<1>11. SectorsAccounted'
  <2>1. Files' = Files \ {n}
    <3>1. \A m \in imap \ {n} : m \in Ino /\ inode'[m] = inode[m] BY <1>1, <1>4 DEF DiskTypes
    <3> QED BY <3>1 DEF Files
  <2>2. \A m \in Files' \cup {ROOT_INODE} : Extent(m)' = Extent(m)
    <3>1. \A m \in Files' \cup {ROOT_INODE} : m # n /\ m \in Ino
      BY <1>1, <1>7, <2>1 DEF Files, InodesSound, DiskTypes
    <3>2. \A m \in Files' \cup {ROOT_INODE} : inode'[m] = inode[m] BY <1>4, <3>1
    <3> QED BY <3>2 DEF Extent
  <2>3. \A m \in Files' \cup {ROOT_INODE} : Extent(m) \cap Extent(n) = {}
    BY <1>1, <1>2, <1>7, <2>1 DEF SectorsAccounted
  <2>4. 0 .. FileSects \cap Extent(n) = {}
    <3>1. Extent(ROOT_INODE) = 1 .. FileSects BY <1>1, Sizes DEF InodesSound, Extent
    <3>2. 0 \notin Extent(n)
      <4>1. inode[n].start \in Nat BY <1>1, <1>2 DEF DiskTypes
      <4> QED BY <4>1, Sizes DEF Extent
    <3>3. \A b \in 0 .. FileSects : b = 0 \/ b \in 1 .. FileSects BY Sizes
    <3> QED BY <2>3, <3>1, <3>2, <3>3
  <2>5. smap' = 0 .. FileSects \cup UNION {Extent(m)' : m \in Files'}
    <3>1. UNION {Extent(m)' : m \in Files'} = (UNION {Extent(m) : m \in Files}) \ Extent(n)
      BY <2>1, <2>2, <2>3
    <3> QED BY <1>1, <1>10, <2>4, <3>1 DEF SectorsAccounted
  <2>6. \A m, k \in Files' \cup {ROOT_INODE} : m # k => Extent(m)' \cap Extent(k)' = {}
    BY <1>1, <2>1, <2>2 DEF SectorsAccounted
  <2> QED BY <2>5, <2>6 DEF SectorsAccounted
<1>12. DiskTypes' BY <1>1, <1>4, <1>5, <1>6 DEF DiskTypes
<1> QED BY <1>8, <1>9, <1>11, <1>12 DEF DiskSound

-----------------------------------------------------------------------------
(* inode_table[]: what get_inode() and put_inode() keep. *)

\* The slot of n holds n, and no other does.
LEMMA SlotTaken ==
    ASSUME SlotsSound, NEW e \in [num : Ino, cnt : 1 .. CntMax],
           NEW s \in Slot, s = SlotOf(e.num), itab' = [itab EXCEPT ![s] = e]
    PROVE  SlotsSound' /\ itab'[s] = e /\ \A t \in Slot \ {s} : itab'[t] = itab[t]
<1>1. s # 0 BY Sizes DEF Slot
<1>2. /\ itab[s].cnt > 0 => itab[s].num = e.num
      /\ itab[s].cnt = 0 => \A t \in Slot : itab[t].cnt > 0 => itab[t].num # e.num
  BY <1>1, SlotFound
<1>3. itab \in [Slot -> [num : Ino \cup {0}, cnt : 0 .. CntMax]] BY DEF SlotsSound
<1>4. itab[s].cnt \in Nat BY <1>3, Sizes
<1>5. e \in [num : Ino \cup {0}, cnt : 0 .. CntMax] BY Sizes
<1>6. /\ itab' \in [Slot -> [num : Ino \cup {0}, cnt : 0 .. CntMax]]
      /\ itab'[s] = e /\ \A t \in Slot \ {s} : itab'[t] = itab[t]
  BY <1>3, <1>5
<1>7. \A t \in Slot \ {s} : itab[t].cnt > 0 => itab[t].num # e.num
  <2>1. CASE itab[s].cnt > 0 BY <1>2, <2>1 DEF SlotsSound
  <2>2. CASE itab[s].cnt = 0 BY <1>2, <2>2
  <2> QED BY <1>4, <2>1, <2>2
<1>8. ASSUME NEW t \in Slot, itab'[t].cnt > 0, NEW u \in Slot \ {t}, itab'[u].cnt > 0
      PROVE  itab'[t].num # itab'[u].num
  <2>1. CASE t = s BY <1>6, <1>7, <1>8, <2>1
  <2>2. CASE u = s BY <1>6, <1>7, <1>8, <2>2
  <2>3. CASE t # s /\ u # s BY <1>6, <1>8, <2>3 DEF SlotsSound
  <2> QED BY <2>1, <2>2, <2>3
<1> QED BY <1>6, <1>8 DEF SlotsSound

\* What Got(n) is.
LEMMA GotSlot ==
    ASSUME SlotsSound, NEW n, SlotOf(n) # 0
    PROVE  /\ SlotOf(n) \in Slot
           /\ itab[SlotOf(n)].cnt \in Nat
           /\ Got(n) = [itab EXCEPT ![SlotOf(n)] = [num |-> n, cnt |-> itab[SlotOf(n)].cnt + 1]]
<1>1. SlotOf(n) \in Slot BY SlotFound
<1>2. itab[SlotOf(n)].cnt \in Nat BY <1>1, Sizes DEF SlotsSound
<1>3. (IF itab[SlotOf(n)].cnt > 0 THEN itab[SlotOf(n)].cnt + 1 ELSE 1) = itab[SlotOf(n)].cnt + 1
  BY <1>2
<1> QED BY <1>1, <1>2, <1>3 DEF Got

\* Fewer references, or more to slots that have some.
LEMMA SlotsRecounted ==
    ASSUME SlotsSound,
           itab' \in [Slot -> [num : Ino \cup {0}, cnt : 0 .. CntMax]],
           \A s \in Slot : itab'[s].num = itab[s].num /\ (itab'[s].cnt > 0 => itab[s].cnt > 0)
    PROVE  SlotsSound'
BY DEF SlotsSound

-----------------------------------------------------------------------------
(* The counters: lemmas. *)

LEMMA ReadyProcess ==
    ASSUME ForkSound, NEW p \in Ready
    PROVE  /\ p \in alive /\ p \in Proc /\ p \in Counted
           /\ \A f \in forking : p # f[1] /\ p # f[2]
<1>1. p \in alive /\ p \notin Blocked BY DEF Ready
<1>2. \A f \in forking : p # f[1] /\ p # f[2] BY <1>1 DEF Blocked
<1> QED BY <1>1, <1>2 DEF ForkSound, Counted

LEMMA UsersFinite ==
    ASSUME ForkSound
    PROVE  /\ IsFiniteSet(Counted \X Fd) /\ IsFiniteSet(Fd)
           /\ \A d : IsFiniteSet(DescUsers(d)) /\ Cardinality(DescUsers(d)) \in Nat
           /\ \A s : IsFiniteSet(SlotUsers(s)) /\ Cardinality(SlotUsers(s)) \in Nat
<1>1. Counted \in SUBSET Proc BY DEF ForkSound, Counted
<1>2. IsFiniteSet(Counted) BY <1>1, FsAssumption, FS_Subset
<1>3. IsFiniteSet(Fd)
  <2>1. PICK e \in Int : e = NR_FILES - 1 BY Sizes
  <2>2. IsFiniteSet(0 .. e) BY FS_Interval
  <2> QED BY <2>1, <2>2 DEF Fd
<1>4. IsFiniteSet(Counted \X Fd) BY <1>2, <1>3, FS_Product
<1>5. ASSUME NEW d PROVE IsFiniteSet(DescUsers(d)) /\ Cardinality(DescUsers(d)) \in Nat
  <2>1. DescUsers(d) \in SUBSET (Counted \X Fd) BY DEF DescUsers
  <2> QED BY <1>4, <2>1, FS_Subset, FS_CardinalityType
<1>6. ASSUME NEW s PROVE IsFiniteSet(SlotUsers(s)) /\ Cardinality(SlotUsers(s)) \in Nat
  <2>1. SlotUsers(s) \in SUBSET (Counted \X Fd) BY DEF SlotUsers
  <2> QED BY <1>4, <2>1, FS_Subset, FS_CardinalityType
<1> QED BY <1>3, <1>4, <1>5, <1>6

\* A descriptor that a counted process has is counted, and so is its i-node.
LEMMA UserCounted ==
    ASSUME ForkSound, DescTypes, CountsSound, SlotsSound,
           NEW p \in Counted, NEW fd \in Fd, filp[p][fd] # 0
    PROVE  /\ filp[p][fd] \in Desc /\ fdtab[filp[p][fd]].cnt > 0
           /\ fdtab[filp[p][fd]].ino \in Slot
           /\ itab[fdtab[filp[p][fd]].ino].cnt > 0
<1>1. p \in Proc BY DEF Counted, ForkSound
<1>2. PICK d \in Desc : d = filp[p][fd] BY <1>1 DEF DescTypes
<1>3. <<p, fd>> \in DescUsers(d) BY <1>2 DEF DescUsers
<1>4. Cardinality(DescUsers(d)) \in Nat \ {0} BY <1>3, UsersFinite, OneLess
<1>5. fdtab[d].cnt > 0 /\ fdtab[d].ino # 0 BY <1>4 DEF CountsSound
<1>6. PICK s \in Slot : s = fdtab[d].ino BY <1>5 DEF DescTypes
<1>7. <<p, fd>> \in SlotUsers(s) BY <1>2, <1>3, <1>6, Sizes DEF SlotUsers, LeadsTo, Desc, DescUsers
<1>8. Cardinality(SlotUsers(s)) \in Nat \ {0} BY <1>7, UsersFinite, OneLess
<1>9. itab[s].cnt > 0 /\ itab[s].cnt \in Nat BY <1>8, Sizes DEF CountsSound, SlotsSound
<1> QED BY <1>2, <1>5, <1>6, <1>9

\* A slot that is not in use is nobody's.
LEMMA NoUsers ==
    ASSUME ForkSound, CountsSound, NEW s \in Slot, itab[s].cnt = 0
    PROVE  SlotUsers(s) = {}
<1>1. IsFiniteSet(SlotUsers(s)) /\ Cardinality(SlotUsers(s)) \in Nat BY UsersFinite
<1>2. Cardinality(SlotUsers(s)) = 0 BY <1>1 DEF CountsSound
<1> QED BY <1>1, <1>2, FS_EmptySet

\* Fewer users of the same i-nodes.
LEMMA UsersKept ==
    ASSUME UsersSound, imap' = imap,
           \A s \in Slot : SlotUsers(s)' # {} => SlotUsers(s) # {} /\ itab'[s].num = itab[s].num
    PROVE  UsersSound'
BY DEF UsersSound

\* A free descriptor is nobody's.
LEMMA FreeUnused ==
    ASSUME ForkSound, DescTypes, CountsSound, NEW d \in Desc, fdtab[d].ino = 0
    PROVE  \A p \in alive, fd \in Fd : filp[p][fd] # d
<1>1. fdtab[d].cnt = 0 BY DEF CountsSound
<1>2. DescUsers(d) = {} BY <1>1, UsersFinite, FS_EmptySet DEF CountsSound
<1>3. ASSUME NEW p \in Counted, NEW fd \in Fd, filp[p][fd] = d PROVE FALSE
  <2>1. <<p, fd>> \in DescUsers(d) BY <1>3 DEF DescUsers
  <2> QED BY <1>2, <2>1
<1>4. CASE forking = {} BY <1>3, <1>4 DEF Counted
<1>5. CASE forking # {}
  <2>1. PICK a \in alive, c \in alive : a # c /\ forking = {<<a, c>>} /\ filp[c] = filp[a]
    BY <1>5 DEF ForkSound
  <2>2. Counted = alive \ {c} BY <2>1 DEF Counted
  <2> QED BY <1>3, <2>1, <2>2
<1> QED BY <1>4, <1>5

-----------------------------------------------------------------------------
(* The counters: do_open() and do_close(). *)

\* A step of a process that is not being forked leaves the fork alone.
LEMMA ForkFrame ==
    ASSUME ForkSound, NEW p \in Ready, UNCHANGED procs, NEW new, DescTypes,
           filp' = [filp EXCEPT ![p] = new]
    PROVE  ForkSound' /\ Counted' = Counted
<1>1. \A f \in forking : p # f[1] /\ p # f[2] BY ReadyProcess
<1>2. UNCHANGED <<alive, forking>> BY DEF procs
<1>3. Counted' = Counted BY <1>2 DEF Counted
<1>4. CASE forking = {} BY <1>2, <1>3, <1>4 DEF ForkSound
<1>5. CASE forking # {}
  <2>1. PICK a \in alive, c \in alive : a # c /\ forking = {<<a, c>>} /\ filp[c] = filp[a]
    BY <1>5 DEF ForkSound
  <2>2. p # a /\ p # c
    <3>1. <<a, c>> \in forking BY <2>1
    <3> QED BY <1>1, <3>1
  <2>3. a \in Proc /\ c \in Proc BY <2>1 DEF ForkSound
  <2>4. filp'[c] = filp'[a] BY <2>1, <2>2, <2>3 DEF DescTypes
  <2> QED BY <1>2, <1>3, <2>1, <2>4 DEF ForkSound
<1> QED BY <1>4, <1>5

\* do_open() connects a free file descriptor, a free entry and a slot whose
\* references are enough for one user more.
LEMMA CountsOpen ==
    ASSUME ForkSound, DescTypes, CountsSound, SlotsSound, NEW p \in Ready,
           FreeFd(p) # {}, FreeDesc # {}, NEW s \in Slot, Connect(p, s), UNCHANGED procs,
           itab' \in [Slot -> [num : Ino \cup {0}, cnt : 0 .. CntMax]],
           Cardinality(SlotUsers(s)) + 1 <= itab'[s].cnt,
           \A t \in Slot \ {s} : itab'[t] = itab[t]
    PROVE  /\ ForkSound' /\ DescTypes' /\ CountsSound'
           /\ \A t \in Slot \ {s} : SlotUsers(t)' = SlotUsers(t)
<1>1. p \in alive /\ p \in Proc /\ p \in Counted BY ReadyProcess
<1>2. PICK fd \in FreeFd(p) : fd = Min(FreeFd(p))
  <2>1. FreeFd(p) \in SUBSET Nat BY Sizes DEF FreeFd, Fd
  <2> QED BY <2>1, MinNat
<1>3. PICK d \in FreeDesc : d = Min(FreeDesc)
  <2>1. FreeDesc \in SUBSET Nat BY Sizes DEF FreeDesc, Desc
  <2> QED BY <2>1, MinNat
<1>4. fd \in Fd /\ filp[p][fd] = 0 /\ d \in Desc /\ fdtab[d].ino = 0
  BY <1>2, <1>3 DEF FreeFd, FreeDesc
<1>5. PICK row : row = [filp[p] EXCEPT ![fd] = d] OBVIOUS
<1>6. filp' = [filp EXCEPT ![p] = row] /\ fdtab' = [fdtab EXCEPT ![d] = [ino |-> s, cnt |-> 1]]
  BY <1>2, <1>3, <1>5 DEF Connect
<1>7. /\ row \in [Fd -> Desc \cup {0}] /\ row[fd] = d
      /\ \A g \in Fd \ {fd} : row[g] = filp[p][g]
  BY <1>1, <1>4, <1>5 DEF DescTypes
<1>8. /\ filp' \in [Proc -> [Fd -> Desc \cup {0}]] /\ filp'[p] = row
      /\ \A q \in Proc \ {p} : filp'[q] = filp[q]
  BY <1>1, <1>6, <1>7 DEF DescTypes
<1>9. /\ fdtab' \in [Desc -> [ino : Slot \cup {0}, cnt : Nat]]
      /\ fdtab'[d].ino = s /\ fdtab'[d].cnt = 1
      /\ \A e \in Desc \ {d} : fdtab'[e] = fdtab[e]
  BY <1>4, <1>6 DEF DescTypes
<1>10. ForkSound' /\ Counted' = Counted BY <1>6, ForkFrame
<1>11. \A q \in alive, g \in Fd : filp[q][g] # d BY <1>4, FreeUnused
<1>12. Counted \subseteq alive /\ Counted \subseteq Proc BY DEF Counted, ForkSound
<1>13. \A q \in Counted, g \in Fd :
          /\ q = p /\ g = fd => filp'[q][g] = d
          /\ ~(q = p /\ g = fd) => filp'[q][g] = filp[q][g]
  BY <1>7, <1>8, <1>12
<1>14. 0 \notin Desc /\ s # 0 BY Sizes DEF Desc, Slot
<1>15. DescUsers(d)' = {<<p, fd>>}
  BY <1>1, <1>4, <1>10, <1>11, <1>12, <1>13 DEF DescUsers
<1>16. \A e \in Desc \ {d} : DescUsers(e)' = DescUsers(e)
  BY <1>4, <1>10, <1>13, <1>14 DEF DescUsers
<1>17. SlotUsers(s)' = SlotUsers(s) \cup {<<p, fd>>} /\ <<p, fd>> \notin SlotUsers(s)
  <2>1. \A q \in Counted, g \in Fd : ~(q = p /\ g = fd) => (LeadsTo(q, g, s)' <=> LeadsTo(q, g, s))
    BY <1>8, <1>9, <1>11, <1>12, <1>13 DEF LeadsTo, DescTypes
  <2>2. LeadsTo(p, fd, s)' /\ ~LeadsTo(p, fd, s)
    BY <1>1, <1>4, <1>9, <1>13, <1>14 DEF LeadsTo
  <2> QED BY <1>1, <1>4, <1>10, <2>1, <2>2 DEF SlotUsers
<1>18. \A t \in Slot \ {s} : SlotUsers(t)' = SlotUsers(t)
  <2> SUFFICES ASSUME NEW t \in Slot \ {s} PROVE SlotUsers(t)' = SlotUsers(t) OBVIOUS
  <2>1. \A q \in Counted, g \in Fd : ~(q = p /\ g = fd) => (LeadsTo(q, g, t)' <=> LeadsTo(q, g, t))
    BY <1>8, <1>9, <1>11, <1>12, <1>13 DEF LeadsTo, DescTypes
  <2>2. ~LeadsTo(p, fd, t)' /\ ~LeadsTo(p, fd, t)
    BY <1>1, <1>4, <1>9, <1>13, <1>14 DEF LeadsTo
  <2> QED BY <1>1, <1>4, <1>10, <2>1, <2>2 DEF SlotUsers
<1>19. CountsSound'
  <2>1. ASSUME NEW e \in Desc
        PROVE  /\ fdtab'[e].cnt = Cardinality(DescUsers(e)')
               /\ (fdtab'[e].ino = 0) <=> (fdtab'[e].cnt = 0)
    <3>1. CASE e = d
      <4>1. Cardinality({<<p, fd>>}) = 1 BY FS_Singleton
      <4>2. Cardinality(DescUsers(d)') = 1 BY <1>15, <4>1, Zenon
      <4> QED BY <1>9, <1>14, <3>1, <4>2
    <3>2. CASE e # d BY <1>9, <1>16, <3>2 DEF CountsSound
    <3> QED BY <3>1, <3>2
  <2>2. ASSUME NEW t \in Slot PROVE Cardinality(SlotUsers(t)') <= itab'[t].cnt
    <3>1. CASE t = s
      <4>1. Cardinality(SlotUsers(s) \cup {<<p, fd>>}) = Cardinality(SlotUsers(s)) + 1
            /\ Cardinality(SlotUsers(s)) \in Nat
        BY <1>17, UsersFinite, OneMore
      <4>2. Cardinality(SlotUsers(s)') = Cardinality(SlotUsers(s)) + 1 BY <1>17, <4>1, Zenon
      <4> QED BY <3>1, <4>2
    <3>2. CASE t # s BY <1>18, <3>2 DEF CountsSound
    <3> QED BY <3>1, <3>2
  <2> QED BY <2>1, <2>2 DEF CountsSound
<1> QED BY <1>8, <1>9, <1>10, <1>18, <1>19 DEF DescTypes

\* do_close() undoes one connection.
LEMMA CountsClose ==
    ASSUME ForkSound, DescTypes, CountsSound, SlotsSound, NEW p \in Ready, NEW fd \in Fd,
           UsersSound, Close(p, fd)
    PROVE  ForkSound' /\ DescTypes' /\ CountsSound' /\ SlotsSound' /\ UsersSound'
<1>1. p \in alive /\ p \in Proc /\ p \in Counted /\ filp[p][fd] # 0
  BY ReadyProcess DEF Close
<1>2. PICK d \in Desc, s \in Slot :
        /\ d = filp[p][fd] /\ s = fdtab[d].ino /\ fdtab[d].cnt > 0 /\ itab[s].cnt > 0
  BY <1>1, UserCounted
<1>3. PICK row : row = [filp[p] EXCEPT ![fd] = 0] OBVIOUS
<1>4. /\ filp' = [filp EXCEPT ![p] = row] /\ fdtab' = Release(d, fdtab)
      /\ itab' = put_inode(itab, s) /\ UNCHANGED <<disk, procs>>
  BY <1>2, <1>3 DEF Close
<1>5. /\ row \in [Fd -> Desc \cup {0}] /\ row[fd] = 0
      /\ \A g \in Fd \ {fd} : row[g] = filp[p][g]
  BY <1>1, <1>3 DEF DescTypes
<1>6. /\ filp' \in [Proc -> [Fd -> Desc \cup {0}]] /\ filp'[p] = row
      /\ \A q \in Proc \ {p} : filp'[q] = filp[q]
  BY <1>1, <1>4, <1>5 DEF DescTypes
<1>7. PICK e \in [ino : Slot \cup {0}, cnt : Nat] :
        /\ fdtab' = [fdtab EXCEPT ![d] = e]
        /\ e.cnt = fdtab[d].cnt - 1
        /\ e.ino = IF fdtab[d].cnt = 1 THEN 0 ELSE s
  <2>1. fdtab[d] \in [ino : Slot \cup {0}, cnt : Nat] BY DEF DescTypes
  <2>2. CASE fdtab[d].cnt = 1
    <3>1. PICK e : e = [ino |-> 0, cnt |-> 0] OBVIOUS
    <3>2. e \in [ino : Slot \cup {0}, cnt : Nat] /\ e.ino = 0 /\ e.cnt = fdtab[d].cnt - 1
      BY <2>2, <3>1
    <3>3. fdtab' = [fdtab EXCEPT ![d] = e] BY <1>4, <2>2, <3>1 DEF Release
    <3> QED BY <2>2, <3>2, <3>3, Zenon
  <2>3. CASE fdtab[d].cnt # 1
    <3>1. PICK e : e = [fdtab[d] EXCEPT !.cnt = fdtab[d].cnt - 1] OBVIOUS
    <3>2. e \in [ino : Slot \cup {0}, cnt : Nat] /\ e.ino = s /\ e.cnt = fdtab[d].cnt - 1
      BY <1>2, <2>1, <3>1
    <3>3. fdtab' = [fdtab EXCEPT ![d] = e] BY <1>4, <2>3, <3>1 DEF Release
    <3> QED BY <2>3, <3>2, <3>3, Zenon
  <2> QED BY <2>2, <2>3
<1>8. /\ fdtab' \in [Desc -> [ino : Slot \cup {0}, cnt : Nat]] /\ fdtab'[d] = e
      /\ \A f \in Desc \ {d} : fdtab'[f] = fdtab[f]
  BY <1>7 DEF DescTypes
<1>9. /\ itab' \in [Slot -> [num : Ino \cup {0}, cnt : 0 .. CntMax]]
      /\ itab'[s].cnt = itab[s].cnt - 1 /\ itab'[s].num = itab[s].num
      /\ \A t \in Slot \ {s} : itab'[t] = itab[t]
  <2>1. itab[s] \in [num : Ino \cup {0}, cnt : 0 .. CntMax] BY DEF SlotsSound
  <2>2. PICK x : x = [itab[s] EXCEPT !.cnt = itab[s].cnt - 1] OBVIOUS
  <2>3. /\ x \in [num : Ino \cup {0}, cnt : 0 .. CntMax]
        /\ x.cnt = itab[s].cnt - 1 /\ x.num = itab[s].num
    <3>1. itab[s].num \in Ino \cup {0} /\ itab[s].cnt \in 1 .. CntMax BY <1>2, <2>1, Sizes
    <3>2. itab[s].cnt - 1 \in 0 .. CntMax BY <3>1, Sizes
    <3>3. x = [num |-> itab[s].num, cnt |-> itab[s].cnt - 1] BY <2>1, <2>2
    <3> QED BY <3>1, <3>2, <3>3
  <2>4. itab' = [itab EXCEPT ![s] = x] BY <1>4, <2>2 DEF put_inode
  <2> QED BY <2>3, <2>4 DEF SlotsSound
<1>10. SlotsSound'
  <2>1. \A t \in Slot : itab'[t].num = itab[t].num /\ (itab'[t].cnt > 0 => itab[t].cnt > 0)
    BY <1>2, <1>9
  <2>2. UNCHANGED <<imap, inode>> BY <1>4 DEF disk
  <2> QED BY <1>9, <2>1, <2>2, SlotsRecounted
<1>11. ForkSound' /\ Counted' = Counted BY <1>4, ForkFrame
<1>12. Counted \subseteq Proc BY DEF Counted, ForkSound
<1>13. 0 \notin Desc BY DEF Desc
<1>14. \A q \in Counted, g \in Fd :
          /\ q = p /\ g = fd => filp'[q][g] = 0
          /\ ~(q = p /\ g = fd) => filp'[q][g] = filp[q][g]
  BY <1>5, <1>6, <1>12
<1>15. <<p, fd>> \in DescUsers(d) /\ DescUsers(d)' = DescUsers(d) \ {<<p, fd>>}
  BY <1>1, <1>2, <1>11, <1>13, <1>14 DEF DescUsers
<1>16. \A f \in Desc \ {d} : DescUsers(f)' = DescUsers(f)
  BY <1>2, <1>11, <1>13, <1>14 DEF DescUsers
<1>17. /\ Cardinality(DescUsers(d)) \in Nat \ {0}
       /\ Cardinality(DescUsers(d)') = Cardinality(DescUsers(d)) - 1
       /\ Cardinality(DescUsers(d)) = 1 => DescUsers(d) = {<<p, fd>>}
  BY <1>15, UsersFinite, OneLess
<1>18. \A q \in Counted, g \in Fd :
          ~(q = p /\ g = fd) /\ filp[q][g] # 0 => fdtab'[filp[q][g]].ino = fdtab[filp[q][g]].ino
  <2> SUFFICES ASSUME NEW q \in Counted, NEW g \in Fd, ~(q = p /\ g = fd), filp[q][g] # 0
               PROVE  fdtab'[filp[q][g]].ino = fdtab[filp[q][g]].ino
    OBVIOUS
  <2>1. filp[q][g] \in Desc BY <1>12 DEF DescTypes
  <2>2. CASE filp[q][g] # d BY <1>8, <2>1, <2>2
  <2>3. CASE filp[q][g] = d
    <3>1. <<q, g>> \in DescUsers(d) /\ <<q, g>> # <<p, fd>> BY <2>3 DEF DescUsers
    <3>2. fdtab[d].cnt # 1 BY <1>17, <3>1 DEF CountsSound
    <3> QED BY <1>2, <1>7, <1>8, <2>3, <3>2
  <2> QED BY <2>2, <2>3
<1>19. <<p, fd>> \in SlotUsers(s) /\ SlotUsers(s)' = SlotUsers(s) \ {<<p, fd>>}
  BY <1>1, <1>2, <1>11, <1>14, <1>18 DEF SlotUsers, LeadsTo
<1>20. \A t \in Slot \ {s} : SlotUsers(t)' = SlotUsers(t)
  BY <1>1, <1>2, <1>11, <1>14, <1>18 DEF SlotUsers, LeadsTo
<1>21. CountsSound'
  <2>1. ASSUME NEW f \in Desc
        PROVE  /\ fdtab'[f].cnt = Cardinality(DescUsers(f)')
               /\ (fdtab'[f].ino = 0) <=> (fdtab'[f].cnt = 0)
    <3>1. CASE f = d
      <4>1. fdtab[d].cnt = Cardinality(DescUsers(d)) /\ s # 0 BY Sizes DEF CountsSound, Slot
      <4> QED BY <1>7, <1>8, <1>17, <3>1, <4>1
    <3>2. CASE f # d BY <1>8, <1>16, <3>2 DEF CountsSound
    <3> QED BY <3>1, <3>2
  <2>2. ASSUME NEW t \in Slot PROVE Cardinality(SlotUsers(t)') <= itab'[t].cnt
    <3>1. CASE t = s
      <4>1. Cardinality(SlotUsers(s)') = Cardinality(SlotUsers(s)) - 1
            /\ Cardinality(SlotUsers(s)) \in Nat
        BY <1>19, UsersFinite, OneLess
      <4>2. Cardinality(SlotUsers(s)) <= itab[s].cnt /\ itab[s].cnt \in Nat
        BY Sizes DEF CountsSound, SlotsSound
      <4> QED BY <1>9, <3>1, <4>1, <4>2
    <3>2. CASE t # s BY <1>9, <1>20, <3>2 DEF CountsSound
    <3> QED BY <3>1, <3>2
  <2> QED BY <2>1, <2>2 DEF CountsSound
<1>22. UsersSound'
  <2>1. imap' = imap BY <1>4 DEF disk
  <2>2. ASSUME NEW t \in Slot, SlotUsers(t)' # {}
        PROVE  SlotUsers(t) # {} /\ itab'[t].num = itab[t].num
    BY <1>9, <1>19, <1>20, <2>2
  <2> QED BY <2>1, <2>2, UsersKept
<1> QED BY <1>6, <1>8, <1>10, <1>11, <1>21, <1>22 DEF DescTypes

-----------------------------------------------------------------------------
(* The counters: fork and exit. *)

\* The file descriptors of one process, as pairs and as numbers.
DescFds(p, d) == {fd \in Fd : filp[p][fd] = d}
SlotFds(p, s) == {fd \in Fd : LeadsTo(p, fd, s)}

LEMMA PairsCount ==
    ASSUME NEW c, NEW T \in SUBSET Fd
    PROVE  /\ IsFiniteSet({c} \X T) /\ Cardinality({c} \X T) = Cardinality(T)
           /\ Cardinality(T) \in Nat /\ (Cardinality(T) = 0 <=> T = {})
<1>1. IsFiniteSet(Fd)
  <2>1. PICK e \in Int : e = NR_FILES - 1 BY Sizes
  <2>2. IsFiniteSet(0 .. e) BY FS_Interval
  <2> QED BY <2>1, <2>2 DEF Fd
<1>2. IsFiniteSet(T) BY <1>1, FS_Subset
<1>3. Cardinality(T) \in Nat /\ (Cardinality(T) = 0 <=> T = {})
  BY <1>2, FS_CardinalityType, FS_EmptySet
<1>4. IsFiniteSet({c}) /\ Cardinality({c}) = 1 BY FS_Singleton
<1>5. IsFiniteSet({c} \X T) /\ Cardinality({c} \X T) = Cardinality({c}) * Cardinality(T)
  BY <1>2, <1>4, FS_Product
<1> QED BY <1>3, <1>4, <1>5

LEMMA RefCounts ==
    ASSUME NEW p
    PROVE  /\ \A d : /\ DescRefs(p, d) = Cardinality(DescFds(p, d)) /\ DescRefs(p, d) \in Nat
                     /\ IsFiniteSet({p} \X DescFds(p, d))
                     /\ DescRefs(p, d) = Cardinality({p} \X DescFds(p, d))
                     /\ DescRefs(p, d) = 0 <=> DescFds(p, d) = {}
           /\ \A s : /\ RefsTo(p, s) = Cardinality(SlotFds(p, s)) /\ RefsTo(p, s) \in Nat
                     /\ IsFiniteSet({p} \X SlotFds(p, s))
                     /\ RefsTo(p, s) = Cardinality({p} \X SlotFds(p, s))
                     /\ RefsTo(p, s) = 0 <=> SlotFds(p, s) = {}
<1>1. ASSUME NEW d
      PROVE  /\ DescRefs(p, d) = Cardinality(DescFds(p, d)) /\ DescRefs(p, d) \in Nat
             /\ IsFiniteSet({p} \X DescFds(p, d))
             /\ DescRefs(p, d) = Cardinality({p} \X DescFds(p, d))
             /\ DescRefs(p, d) = 0 <=> DescFds(p, d) = {}
  <2>1. DescFds(p, d) \in SUBSET Fd BY DEF DescFds
  <2>2. DescRefs(p, d) = Cardinality(DescFds(p, d)) BY DEF DescRefs, DescFds
  <2> QED BY <2>1, <2>2, PairsCount
<1>2. ASSUME NEW s
      PROVE  /\ RefsTo(p, s) = Cardinality(SlotFds(p, s)) /\ RefsTo(p, s) \in Nat
             /\ IsFiniteSet({p} \X SlotFds(p, s))
             /\ RefsTo(p, s) = Cardinality({p} \X SlotFds(p, s))
             /\ RefsTo(p, s) = 0 <=> SlotFds(p, s) = {}
  <2>1. SlotFds(p, s) \in SUBSET Fd BY DEF SlotFds
  <2>2. RefsTo(p, s) = Cardinality(SlotFds(p, s)) BY DEF RefsTo, SlotFds
  <2> QED BY <2>1, <2>2, PairsCount
<1> QED BY <1>1, <1>2

\* Disjoint sets add up; a part taken away is subtracted.
LEMMA CountJoin ==
    ASSUME NEW S, NEW T, IsFiniteSet(S), IsFiniteSet(T), S \cap T = {}
    PROVE  Cardinality(S \cup T) = Cardinality(S) + Cardinality(T)
<1>1. Cardinality(S) \in Nat /\ Cardinality(T) \in Nat BY FS_CardinalityType
<1>2. Cardinality(S \cap T) = 0 BY FS_EmptySet
<1>3. Cardinality(S \cup T) = Cardinality(S) + Cardinality(T) - Cardinality(S \cap T)
  BY FS_Union
<1> QED BY <1>1, <1>2, <1>3

LEMMA CountPart ==
    ASSUME NEW S, NEW T, IsFiniteSet(S), T \subseteq S
    PROVE  /\ Cardinality(S \ T) = Cardinality(S) - Cardinality(T)
           /\ Cardinality(T) <= Cardinality(S)
           /\ Cardinality(T) = Cardinality(S) => S = T
<1>1. S \cap T = T OBVIOUS
<1>2. Cardinality(S \ T) = Cardinality(S) - Cardinality(S \cap T) BY FS_Difference
<1>3. Cardinality(S \ T) = Cardinality(S) - Cardinality(T) BY <1>1, <1>2, Zenon
<1>4. Cardinality(T) <= Cardinality(S) /\ (Cardinality(T) = Cardinality(S) => S = T)
  BY FS_Subset
<1> QED BY <1>3, <1>4

\* MM copies filp[]: the child is not counted yet.
LEMMA CountsForkCopy ==
    ASSUME ForkSound, DescTypes, CountsSound, UsersSound,
           NEW p \in Ready, NEW c \in Proc, ForkCopy(p, c)
    PROVE  ForkSound' /\ DescTypes' /\ CountsSound' /\ UsersSound'
<1>1. /\ forking = {} /\ c \notin alive /\ p \in alive /\ p \in Proc
      /\ filp' = [filp EXCEPT ![c] = filp[p]] /\ alive' = alive \cup {c}
      /\ forking' = {<<p, c>>} /\ UNCHANGED <<itab, fdtab, imap>>
  BY ReadyProcess DEF ForkCopy, disk
<1>2. /\ filp' \in [Proc -> [Fd -> Desc \cup {0}]] /\ filp'[c] = filp[p]
      /\ \A q \in Proc \ {c} : filp'[q] = filp[q]
  BY <1>1 DEF DescTypes
<1>3. ForkSound' BY <1>1, <1>2 DEF ForkSound
<1>4. Counted = alive /\ Counted' = alive BY <1>1 DEF Counted
<1>5. \A q \in alive : filp'[q] = filp[q] BY <1>1, <1>2 DEF ForkSound
<1>6. \A d : DescUsers(d)' = DescUsers(d) BY <1>4, <1>5 DEF DescUsers
<1>7. \A s : SlotUsers(s)' = SlotUsers(s) BY <1>1, <1>4, <1>5 DEF SlotUsers, LeadsTo
<1>8. CountsSound' BY <1>1, <1>6, <1>7 DEF CountsSound
<1>9. UsersSound' BY <1>1, <1>7 DEF UsersSound
<1> QED BY <1>1, <1>2, <1>3, <1>8, <1>9 DEF DescTypes

\* FS counts the child, whose parent has kept what they share in use.
LEMMA CountsFork ==
    ASSUME ForkSound, DescTypes, CountsSound, SlotsSound, UsersSound,
           NEW f \in forking, fs_fork(f[2])
    PROVE  ForkSound' /\ DescTypes' /\ CountsSound' /\ SlotsSound' /\ UsersSound'
<1>1. PICK p \in alive, c \in alive : p # c /\ forking = {<<p, c>>} /\ filp[c] = filp[p]
  BY DEF ForkSound
<1>2. c = f[2] BY <1>1
<1>3. /\ \A s \in Slot : itab[s].cnt + RefsTo(c, s) <= CntMax
      /\ fdtab' = [d \in Desc |-> [fdtab[d] EXCEPT !.cnt = @ + DescRefs(c, d)]]
      /\ itab' = [s \in Slot |-> [itab[s] EXCEPT !.cnt = @ + RefsTo(c, s)]]
      /\ forking' = {} /\ filp' = filp /\ alive' = alive /\ UNCHANGED <<imap, inode>>
  BY <1>2 DEF fs_fork, disk
<1>4. /\ Counted = alive \ {c} /\ Counted' = alive /\ p \in Counted
      /\ p \in Proc /\ c \in Proc
  BY <1>1, <1>3 DEF Counted, ForkSound
<1>5. ForkSound' BY <1>3 DEF ForkSound
<1>6. /\ fdtab' \in [Desc -> [ino : Slot \cup {0}, cnt : Nat]]
      /\ \A d \in Desc : /\ fdtab'[d].ino = fdtab[d].ino
                         /\ fdtab'[d].cnt = fdtab[d].cnt + DescRefs(c, d)
  <2>1. \A d \in Desc : DescRefs(c, d) \in Nat BY RefCounts
  <2>2. \A d \in Desc : fdtab[d].cnt + DescRefs(c, d) \in Nat BY <2>1 DEF DescTypes
  <2> QED BY <1>3, <2>2 DEF DescTypes
<1>7. ASSUME NEW d \in Desc
      PROVE  /\ DescUsers(d)' = DescUsers(d) \cup ({c} \X DescFds(c, d))
             /\ DescUsers(d) \cap ({c} \X DescFds(c, d)) = {}
             /\ DescUsers(d) = {} => DescFds(c, d) = {}
  <2>1. DescUsers(d)' = {r \in alive \X Fd : filp[r[1]][r[2]] = d} BY <1>3, <1>4 DEF DescUsers
  <2>2. DescUsers(d) = {r \in (alive \ {c}) \X Fd : filp[r[1]][r[2]] = d} BY <1>4 DEF DescUsers
  <2>3. DescUsers(d) = {} => DescFds(c, d) = {}
    <3> SUFFICES ASSUME NEW fd \in DescFds(c, d) PROVE <<p, fd>> \in DescUsers(d) OBVIOUS
    <3> QED BY <1>1, <1>4 DEF DescFds, DescUsers
  <2> QED BY <1>1, <2>1, <2>2, <2>3 DEF DescFds
<1>8. ASSUME NEW s \in Slot
      PROVE  /\ SlotUsers(s)' = SlotUsers(s) \cup ({c} \X SlotFds(c, s))
             /\ SlotUsers(s) \cap ({c} \X SlotFds(c, s)) = {}
             /\ SlotUsers(s) = {} => SlotFds(c, s) = {}
  <2>1. \A q \in alive, fd \in Fd : LeadsTo(q, fd, s)' <=> LeadsTo(q, fd, s)
    BY <1>3, <1>6 DEF LeadsTo, DescTypes, ForkSound
  <2>2. SlotUsers(s)' = {r \in alive \X Fd : LeadsTo(r[1], r[2], s)}
    BY <1>4, <2>1 DEF SlotUsers
  <2>3. SlotUsers(s) = {r \in (alive \ {c}) \X Fd : LeadsTo(r[1], r[2], s)}
    BY <1>4 DEF SlotUsers
  <2>4. SlotUsers(s) = {} => SlotFds(c, s) = {}
    <3> SUFFICES ASSUME NEW fd \in SlotFds(c, s) PROVE <<p, fd>> \in SlotUsers(s) OBVIOUS
    <3> QED BY <1>1, <1>4 DEF SlotFds, SlotUsers, LeadsTo
  <2> QED BY <1>1, <2>2, <2>3, <2>4 DEF SlotFds
<1>9. ASSUME NEW d \in Desc
      PROVE  /\ fdtab'[d].cnt = Cardinality(DescUsers(d)')
             /\ (fdtab'[d].ino = 0) <=> (fdtab'[d].cnt = 0)
  <2>1. /\ IsFiniteSet({c} \X DescFds(c, d)) /\ DescRefs(c, d) \in Nat
        /\ DescRefs(c, d) = Cardinality({c} \X DescFds(c, d))
        /\ DescRefs(c, d) = 0 <=> DescFds(c, d) = {}
    BY RefCounts
  <2>2. /\ fdtab[d].cnt = Cardinality(DescUsers(d)) /\ IsFiniteSet(DescUsers(d))
        /\ (fdtab[d].ino = 0) <=> (fdtab[d].cnt = 0)
        /\ Cardinality(DescUsers(d)) = 0 => DescUsers(d) = {}
        /\ fdtab[d].cnt \in Nat
    BY UsersFinite, FS_EmptySet DEF CountsSound, DescTypes
  <2>3. Cardinality(DescUsers(d) \cup ({c} \X DescFds(c, d)))
          = Cardinality(DescUsers(d)) + Cardinality({c} \X DescFds(c, d))
    BY <1>7, <2>1, <2>2, CountJoin
  <2>4. Cardinality(DescUsers(d)') = Cardinality(DescUsers(d)) + DescRefs(c, d)
    <3>1. DescUsers(d)' = DescUsers(d) \cup ({c} \X DescFds(c, d)) BY <1>7
    <3> QED BY <2>1, <2>3, <3>1, Zenon
  <2>5. fdtab[d].cnt = 0 => DescRefs(c, d) = 0
    <3>1. DescUsers(d) = {} => DescFds(c, d) = {} BY <1>7
    <3> QED BY <2>1, <2>2, <3>1
  <2> QED BY <1>6, <2>1, <2>2, <2>4, <2>5
<1>10. ASSUME NEW s \in Slot
       PROVE  /\ Cardinality(SlotUsers(s)') <= itab[s].cnt + RefsTo(c, s)
              /\ itab[s].cnt = 0 => RefsTo(c, s) = 0
              /\ RefsTo(c, s) \in Nat
  <2>1. /\ IsFiniteSet({c} \X SlotFds(c, s)) /\ RefsTo(c, s) \in Nat
        /\ RefsTo(c, s) = Cardinality({c} \X SlotFds(c, s))
        /\ RefsTo(c, s) = 0 <=> SlotFds(c, s) = {}
    BY RefCounts
  <2>2. /\ Cardinality(SlotUsers(s)) <= itab[s].cnt /\ IsFiniteSet(SlotUsers(s))
        /\ Cardinality(SlotUsers(s)) \in Nat
        /\ Cardinality(SlotUsers(s)) = 0 => SlotUsers(s) = {}
        /\ itab[s].cnt \in Nat
    BY UsersFinite, FS_EmptySet, Sizes DEF CountsSound, SlotsSound
  <2>3. Cardinality(SlotUsers(s) \cup ({c} \X SlotFds(c, s)))
          = Cardinality(SlotUsers(s)) + Cardinality({c} \X SlotFds(c, s))
    BY <1>8, <2>1, <2>2, CountJoin
  <2>4. Cardinality(SlotUsers(s)') = Cardinality(SlotUsers(s)) + RefsTo(c, s)
    <3>1. SlotUsers(s)' = SlotUsers(s) \cup ({c} \X SlotFds(c, s)) BY <1>8
    <3> QED BY <2>1, <2>3, <3>1, Zenon
  <2>5. itab[s].cnt = 0 => RefsTo(c, s) = 0
    <3>1. SlotUsers(s) = {} => SlotFds(c, s) = {} BY <1>8
    <3> QED BY <2>1, <2>2, <3>1
  <2> QED BY <2>1, <2>2, <2>4, <2>5
<1>11. /\ itab' \in [Slot -> [num : Ino \cup {0}, cnt : 0 .. CntMax]]
       /\ \A s \in Slot : itab'[s].num = itab[s].num /\ itab'[s].cnt = itab[s].cnt + RefsTo(c, s)
  <2>1. \A s \in Slot : itab[s].cnt + RefsTo(c, s) \in 0 .. CntMax
    BY <1>3, <1>10, Sizes DEF SlotsSound
  <2> QED BY <1>3, <2>1 DEF SlotsSound
<1>12. SlotsSound'
  <2>1. \A s \in Slot : itab'[s].cnt > 0 => itab[s].cnt > 0
    BY <1>10, <1>11, Sizes DEF SlotsSound
  <2> QED BY <1>3, <1>11, <2>1, SlotsRecounted
<1>13. CountsSound' BY <1>9, <1>10, <1>11 DEF CountsSound
<1>14. DescTypes' BY <1>3, <1>6 DEF DescTypes
<1>15. UsersSound'
  <2>1. ASSUME NEW s \in Slot, SlotUsers(s)' # {} PROVE SlotUsers(s) # {}
    <3>1. SlotUsers(s)' = SlotUsers(s) \cup ({c} \X SlotFds(c, s)) BY <1>8
    <3>2. SlotUsers(s) = {} => SlotFds(c, s) = {} BY <1>8
    <3> QED BY <2>1, <3>1, <3>2
  <2> QED BY <1>3, <1>11, <2>1, UsersKept
<1> QED BY <1>5, <1>12, <1>13, <1>14, <1>15

\* FS closes what p has, and gives up what nobody else has.
LEMMA CountsExit ==
    ASSUME ForkSound, DescTypes, CountsSound, SlotsSound, UsersSound, NEW p \in Ready, fs_exit(p)
    PROVE  ForkSound' /\ DescTypes' /\ CountsSound' /\ SlotsSound' /\ UsersSound'
<1>1. /\ forking = {} /\ forking' = {} /\ p # InitProc /\ alive' = alive \ {p}
      /\ itab' = [s \in Slot |-> [itab[s] EXCEPT !.cnt = @ - RefsTo(p, s)]]
      /\ fdtab' = [d \in Desc |-> IF fdtab[d].cnt = DescRefs(p, d)
                                   THEN [ino |-> 0, cnt |-> 0]
                                   ELSE [fdtab[d] EXCEPT !.cnt = @ - DescRefs(p, d)]]
      /\ filp' = [filp EXCEPT ![p] = [fd \in Fd |-> 0]]
      /\ UNCHANGED <<imap, inode>>
  BY DEF fs_exit, disk
<1>2. p \in alive /\ p \in Proc /\ Counted = alive /\ Counted' = alive \ {p}
  BY <1>1, ReadyProcess DEF Counted
<1>3. ForkSound' BY <1>1 DEF ForkSound
<1>4. /\ filp' \in [Proc -> [Fd -> Desc \cup {0}]]
      /\ \A q \in alive \ {p} : filp'[q] = filp[q]
  BY <1>1, <1>2 DEF DescTypes, ForkSound
<1>5. ASSUME NEW d \in Desc
      PROVE  /\ DescUsers(d)' = DescUsers(d) \ ({p} \X DescFds(p, d))
             /\ {p} \X DescFds(p, d) \subseteq DescUsers(d)
  <2>1. DescUsers(d)' = {r \in (alive \ {p}) \X Fd : filp[r[1]][r[2]] = d}
    BY <1>2, <1>4 DEF DescUsers
  <2>2. DescUsers(d) = {r \in alive \X Fd : filp[r[1]][r[2]] = d} BY <1>2 DEF DescUsers
  <2> QED BY <1>2, <2>1, <2>2 DEF DescFds
<1>6. ASSUME NEW d \in Desc
      PROVE  /\ Cardinality(DescUsers(d)') = fdtab[d].cnt - DescRefs(p, d)
             /\ DescRefs(p, d) <= fdtab[d].cnt
             /\ DescRefs(p, d) \in Nat /\ fdtab[d].cnt \in Nat
             /\ fdtab[d].cnt = DescRefs(p, d) => DescUsers(d) = {p} \X DescFds(p, d)
  <2>1. DescRefs(p, d) = Cardinality({p} \X DescFds(p, d)) /\ DescRefs(p, d) \in Nat
    BY RefCounts
  <2>2. fdtab[d].cnt = Cardinality(DescUsers(d)) /\ fdtab[d].cnt \in Nat
    BY DEF CountsSound, DescTypes
  <2>3. PICK T : T = {p} \X DescFds(p, d) OBVIOUS
  <2>4. T \subseteq DescUsers(d) /\ IsFiniteSet(DescUsers(d)) BY <1>5, <2>3, UsersFinite
  <2>5. /\ Cardinality(DescUsers(d) \ T) = Cardinality(DescUsers(d)) - Cardinality(T)
        /\ Cardinality(T) <= Cardinality(DescUsers(d))
        /\ Cardinality(T) = Cardinality(DescUsers(d)) => DescUsers(d) = T
    BY <2>4, CountPart
  <2>6. DescUsers(d)' = DescUsers(d) \ T
    <3>1. DescUsers(d)' = DescUsers(d) \ ({p} \X DescFds(p, d)) BY <1>5
    <3> QED BY <2>3, <3>1, Zenon
  <2>7. Cardinality(T) = DescRefs(p, d) BY <2>1, <2>3, Zenon
  <2>8. Cardinality(DescUsers(d)') = fdtab[d].cnt - DescRefs(p, d)
    BY <2>2, <2>5, <2>6, <2>7, Zenon
  <2>9. DescRefs(p, d) <= fdtab[d].cnt BY <2>2, <2>5, <2>7
  <2>10. fdtab[d].cnt = DescRefs(p, d) => DescUsers(d) = {p} \X DescFds(p, d)
    BY <2>2, <2>3, <2>5, <2>7, Zenon
  <2> QED BY <2>1, <2>2, <2>8, <2>9, <2>10
<1>7. ASSUME NEW d \in Desc
      PROVE  /\ fdtab'[d] \in [ino : Slot \cup {0}, cnt : Nat]
             /\ fdtab'[d].cnt = fdtab[d].cnt - DescRefs(p, d)
             /\ fdtab[d].cnt = DescRefs(p, d) => fdtab'[d].ino = 0
             /\ fdtab[d].cnt # DescRefs(p, d) => fdtab'[d].ino = fdtab[d].ino
  <2>1. /\ DescRefs(p, d) <= fdtab[d].cnt /\ DescRefs(p, d) \in Nat /\ fdtab[d].cnt \in Nat
        /\ fdtab[d] \in [ino : Slot \cup {0}, cnt : Nat]
    BY <1>6 DEF DescTypes
  <2>2. CASE fdtab[d].cnt = DescRefs(p, d)
    <3>1. fdtab'[d] = [ino |-> 0, cnt |-> 0] BY <1>1, <2>2
    <3> QED BY <2>1, <2>2, <3>1
  <2>3. CASE fdtab[d].cnt # DescRefs(p, d)
    <3>1. fdtab'[d] = [fdtab[d] EXCEPT !.cnt = fdtab[d].cnt - DescRefs(p, d)] BY <1>1, <2>3
    <3>2. fdtab[d].cnt - DescRefs(p, d) \in Nat BY <2>1
    <3> QED BY <2>1, <2>3, <3>1, <3>2
  <2> QED BY <2>2, <2>3
<1>8. \A q \in alive \ {p}, fd \in Fd : filp[q][fd] # 0 =>
         filp[q][fd] \in Desc /\ fdtab'[filp[q][fd]].ino = fdtab[filp[q][fd]].ino
  <2> SUFFICES ASSUME NEW q \in alive \ {p}, NEW fd \in Fd, filp[q][fd] # 0
               PROVE  filp[q][fd] \in Desc /\ fdtab'[filp[q][fd]].ino = fdtab[filp[q][fd]].ino
    OBVIOUS
  <2>1. PICK d \in Desc : d = filp[q][fd] BY DEF DescTypes, ForkSound
  <2>2. <<q, fd>> \in DescUsers(d) /\ <<q, fd>> \notin {p} \X DescFds(p, d)
    BY <1>2, <2>1 DEF DescUsers
  <2>3. fdtab[d].cnt # DescRefs(p, d) BY <1>6, <2>2
  <2> QED BY <1>7, <2>1, <2>3
<1>9. ASSUME NEW s \in Slot
      PROVE  /\ SlotUsers(s)' = SlotUsers(s) \ ({p} \X SlotFds(p, s))
             /\ {p} \X SlotFds(p, s) \subseteq SlotUsers(s)
  <2>1. \A q \in alive \ {p}, fd \in Fd : LeadsTo(q, fd, s)' <=> LeadsTo(q, fd, s)
    BY <1>4, <1>8 DEF LeadsTo
  <2>2. SlotUsers(s)' = {r \in (alive \ {p}) \X Fd : LeadsTo(r[1], r[2], s)}
    BY <1>2, <2>1 DEF SlotUsers
  <2>3. SlotUsers(s) = {r \in alive \X Fd : LeadsTo(r[1], r[2], s)} BY <1>2 DEF SlotUsers
  <2> QED BY <1>2, <2>2, <2>3 DEF SlotFds
<1>10. ASSUME NEW s \in Slot
       PROVE  /\ Cardinality(SlotUsers(s)') <= itab[s].cnt - RefsTo(p, s)
              /\ itab[s].cnt - RefsTo(p, s) \in 0 .. CntMax
              /\ RefsTo(p, s) \in Nat /\ itab[s].cnt \in Nat
  <2>1. RefsTo(p, s) = Cardinality({p} \X SlotFds(p, s)) /\ RefsTo(p, s) \in Nat BY RefCounts
  <2>2. Cardinality(SlotUsers(s)) <= itab[s].cnt /\ itab[s].cnt \in 0 .. CntMax
    BY DEF CountsSound, SlotsSound
  <2>3. PICK T : T = {p} \X SlotFds(p, s) OBVIOUS
  <2>4. /\ T \subseteq SlotUsers(s) /\ IsFiniteSet(SlotUsers(s))
        /\ Cardinality(SlotUsers(s)) \in Nat
    BY <1>9, <2>3, UsersFinite
  <2>5. /\ Cardinality(SlotUsers(s) \ T) = Cardinality(SlotUsers(s)) - Cardinality(T)
        /\ Cardinality(T) <= Cardinality(SlotUsers(s))
    BY <2>4, CountPart
  <2>6. SlotUsers(s)' = SlotUsers(s) \ T
    <3>1. SlotUsers(s)' = SlotUsers(s) \ ({p} \X SlotFds(p, s)) BY <1>9
    <3> QED BY <2>3, <3>1, Zenon
  <2>7. Cardinality(T) = RefsTo(p, s) BY <2>1, <2>3, Zenon
  <2>8. Cardinality(SlotUsers(s)') = Cardinality(SlotUsers(s)) - RefsTo(p, s)
    BY <2>5, <2>6, <2>7, Zenon
  <2> QED BY <2>1, <2>2, <2>4, <2>5, <2>7, <2>8, Sizes
<1>11. /\ itab' \in [Slot -> [num : Ino \cup {0}, cnt : 0 .. CntMax]]
       /\ \A s \in Slot : itab'[s].num = itab[s].num /\ itab'[s].cnt = itab[s].cnt - RefsTo(p, s)
  <2>1. \A s \in Slot : itab[s].cnt - RefsTo(p, s) \in 0 .. CntMax BY <1>10
  <2> QED BY <1>1, <2>1 DEF SlotsSound
<1>12. SlotsSound'
  <2>1. \A s \in Slot : itab'[s].cnt > 0 => itab[s].cnt > 0 BY <1>10, <1>11
  <2> QED BY <1>1, <1>11, <2>1, SlotsRecounted
<1>13. CountsSound'
  <2>1. ASSUME NEW d \in Desc PROVE (fdtab'[d].ino = 0) <=> (fdtab'[d].cnt = 0)
    <3>1. (fdtab[d].ino = 0) <=> (fdtab[d].cnt = 0) BY DEF CountsSound
    <3>2. DescRefs(p, d) <= fdtab[d].cnt /\ DescRefs(p, d) \in Nat /\ fdtab[d].cnt \in Nat
      BY <1>6
    <3> QED BY <1>7, <3>1, <3>2
  <2>2. \A d \in Desc : fdtab'[d].cnt = Cardinality(DescUsers(d)') BY <1>6, <1>7
  <2>3. \A s \in Slot : Cardinality(SlotUsers(s)') <= itab'[s].cnt BY <1>10, <1>11
  <2> QED BY <2>1, <2>2, <2>3 DEF CountsSound
<1>14. DescTypes'
  <2>1. fdtab' = [d \in Desc |-> fdtab'[d]] BY <1>1
  <2>2. fdtab' \in [Desc -> [ino : Slot \cup {0}, cnt : Nat]] BY <1>7, <2>1
  <2> QED BY <1>4, <2>2 DEF DescTypes
<1>15. UsersSound'
  <2>1. ASSUME NEW s \in Slot, SlotUsers(s)' # {} PROVE SlotUsers(s) # {}
    BY <1>9, <2>1
  <2> QED BY <1>1, <1>11, <2>1, UsersKept
<1> QED BY <1>3, <1>12, <1>13, <1>14, <1>15

-----------------------------------------------------------------------------
(* One lemma per request. *)

LEMMA TablesFrame ==
    ASSUME ForkSound, DescTypes, CountsSound, UNCHANGED <<fdtab, filp, procs>>,
           \A s \in Slot : itab[s].cnt \in Nat /\ itab'[s].cnt \in Nat /\ itab[s].cnt <= itab'[s].cnt
    PROVE  /\ ForkSound' /\ DescTypes' /\ CountsSound'
           /\ \A s \in Slot : SlotUsers(s)' = SlotUsers(s)
<1>1. UNCHANGED <<fdtab, filp, alive, forking>> BY DEF procs
<1>2. ForkSound' BY <1>1 DEF ForkSound
<1>3. DescTypes' BY <1>1 DEF DescTypes
<1>4. Counted' = Counted BY <1>1 DEF Counted
<1>5. \A d : DescUsers(d)' = DescUsers(d) BY <1>1, <1>4 DEF DescUsers
<1>6. \A s : SlotUsers(s)' = SlotUsers(s) BY <1>1, <1>4 DEF SlotUsers, LeadsTo
<1>7. \A s \in Slot : Cardinality(SlotUsers(s)) \in Nat BY UsersFinite
<1>8. CountsSound' BY <1>1, <1>5, <1>6, <1>7 DEF CountsSound
<1> QED BY <1>2, <1>3, <1>6, <1>8

\* A step that changes at most what the directory holds.
LEMMA MemoryFrame ==
    ASSUME FsInv, DiskSound', UNCHANGED <<imap, itab, fdtab, filp, procs>>, halted' \in BOOLEAN
    PROVE  FsInv'
<1>1. ForkSound /\ DescTypes /\ CountsSound /\ SlotsSound /\ UsersSound BY DEF FsInv
<1>2. SlotsSound' BY <1>1 DEF SlotsSound
<1>3. \A s \in Slot : itab[s].cnt \in Nat BY <1>1, Sizes DEF SlotsSound
<1>4. ForkSound' /\ DescTypes' /\ CountsSound' /\ \A s \in Slot : SlotUsers(s)' = SlotUsers(s)
  BY <1>1, <1>3, TablesFrame
<1>5. UsersSound' BY <1>1, <1>4 DEF UsersSound
<1> QED BY <1>2, <1>4, <1>5 DEF FsInv

LEMMA HaltSound == FsInv /\ Halt => FsInv'
<1> SUFFICES ASSUME FsInv, Halt PROVE FsInv' OBVIOUS
<1>1. UNCHANGED <<disk, itab, fdtab, filp, procs>> /\ halted' = TRUE BY DEF Halt
<1>2. DiskSound' /\ UNCHANGED imap BY <1>1, DiskFrame DEF FsInv, disk
<1> QED BY <1>1, <1>2, MemoryFrame

LEMMA OpenSound ==
    ASSUME FsInv, NEW p \in Ready, NEW name \in Name \cup {"/", ".", "dev_tty"}, Open(p, name)
    PROVE  FsInv'
<1>1. /\ DiskSound /\ SlotsSound /\ ForkSound /\ DescTypes /\ CountsSound /\ UsersSound
      /\ halted \in BOOLEAN
  BY DEF FsInv
<1>2. CASE Halt BY <1>2, HaltSound
<1>3. CASE FreeFd(p) # {} /\ FreeDesc # {} /\ OpenExisting(p, name) /\ ~Halt
  <2>1. PICK n : n = search_file(name) OBVIOUS
  <2>2. PICK s : s = SlotOf(n) OBVIOUS
  <2>3. /\ n # 0 /\ s # 0 /\ inode[n].mode # "none" /\ itab[s].cnt < CntMax
        /\ itab' = Got(n) /\ Connect(p, s) /\ UNCHANGED <<disk, procs, halted>>
    BY <1>3, <2>1, <2>2 DEF OpenExisting
  <2>4. n \in Ino /\ n \in imap BY <1>1, <2>1, <2>3, Found
  <2>5. s \in Slot /\ itab[s].cnt \in Nat BY <1>1, <2>2, <2>3, GotSlot
  <2>6. PICK e : e = [num |-> n, cnt |-> itab[s].cnt + 1] OBVIOUS
  <2>7. e \in [num : Ino, cnt : 1 .. CntMax] /\ e.num = n /\ e.cnt = itab[s].cnt + 1
    <3>1. itab[s].cnt + 1 \in 1 .. CntMax BY <2>3, <2>5, Sizes
    <3> QED BY <2>4, <2>6, <3>1
  <2>8. SlotsSound' /\ itab'[s] = e /\ \A t \in Slot \ {s} : itab'[t] = itab[t]
    <3>1. itab' = [itab EXCEPT ![s] = e] BY <1>1, <2>2, <2>3, <2>6, GotSlot
    <3> QED BY <1>1, <2>2, <2>5, <2>7, <3>1, SlotTaken
  <2>9. Cardinality(SlotUsers(s)) + 1 <= itab'[s].cnt
    <3>1. Cardinality(SlotUsers(s)) <= itab[s].cnt /\ Cardinality(SlotUsers(s)) \in Nat
      BY <1>1, <2>5, UsersFinite DEF CountsSound
    <3> QED BY <2>5, <2>7, <2>8, <3>1
  <2>10. /\ ForkSound' /\ DescTypes' /\ CountsSound'
         /\ \A t \in Slot \ {s} : SlotUsers(t)' = SlotUsers(t)
    BY <1>1, <1>3, <2>3, <2>5, <2>8, <2>9, CountsOpen DEF SlotsSound
  <2>11. UsersSound'
    <3>1. imap' = imap BY <2>3 DEF disk
    <3> QED BY <1>1, <2>4, <2>7, <2>8, <2>10, <3>1 DEF UsersSound
  <2>12. DiskSound' BY <1>1, <2>3, DiskFrame
  <2> QED BY <1>1, <2>3, <2>8, <2>10, <2>11, <2>12 DEF FsInv
<1>4. CASE FreeFd(p) # {} /\ FreeDesc # {} /\ Create(p, name) /\ ~Halt
  <2>1. PICK n : n = alloc_imap_bit OBVIOUS
  <2>2. PICK s : s = SlotOf(n) OBVIOUS
  <2>3. PICK i : i = NewEntry OBVIOUS
  <2>4. /\ search_file(name) = 0 /\ CanAlloc /\ s # 0 /\ i < DirMax
        /\ imap' = imap \cup {n} /\ smap' = smap \cup AllocBits
        /\ inode' = [inode EXCEPT ![n] = NewInode(FirstFree - 1)]
        /\ dir' = [dir EXCEPT ![i] = [ino |-> n, name |-> name]]
        /\ nent' = IF i = nent THEN nent + 1 ELSE nent
        /\ itab' = [itab EXCEPT ![s] = [num |-> n, cnt |-> 1]]
        /\ Connect(p, s) /\ UNCHANGED <<dirwr, procs, halted>>
    BY <1>4, <2>1, <2>2, <2>3 DEF Create
  <2>5. n \in Ino \ imap
    <3>1. Ino \ imap \in SUBSET Nat BY DEF Ino
    <3> QED BY <1>1, <2>1, <3>1, InodeLeft, MinNat DEF alloc_imap_bit
  <2>6. i \in 0 .. nent BY <1>1, <2>3, EntryFound DEF DiskSound
  <2>7. name \in Name \cup {".", "dev_tty"}
    <3>1. name # "/" BY <2>4 DEF search_file, ROOT_INODE
    <3> QED BY <3>1
  <2>8. DiskSound' BY <1>1, <2>4, <2>5, <2>6, <2>7, DiskCreate
  <2>9. s \in Slot /\ (itab[s].cnt > 0 => itab[s].num = n) /\ itab[s].cnt \in Nat
    BY <1>1, <2>2, <2>4, SlotFound, GotSlot
  <2>10. SlotUsers(s) = {}
    <3>1. CASE itab[s].cnt = 0 BY <1>1, <2>9, <3>1, NoUsers
    <3>2. CASE itab[s].cnt > 0 BY <1>1, <2>5, <2>9, <3>2 DEF UsersSound
    <3> QED BY <2>9, <3>1, <3>2
  <2>11. /\ SlotsSound' /\ itab'[s].num = n /\ itab'[s].cnt = 1
         /\ \A t \in Slot \ {s} : itab'[t] = itab[t]
    <3>1. PICK e : e = [num |-> n, cnt |-> 1] OBVIOUS
    <3>2. e \in [num : Ino, cnt : 1 .. CntMax] /\ e.num = n /\ e.cnt = 1 BY <2>5, <3>1, Sizes
    <3>3. itab' = [itab EXCEPT ![s] = e] BY <2>4, <3>1
    <3>4. SlotsSound' /\ itab'[s] = e /\ \A t \in Slot \ {s} : itab'[t] = itab[t]
      BY <1>1, <2>2, <2>9, <3>2, <3>3, SlotTaken
    <3> QED BY <3>2, <3>4
  <2>12. Cardinality(SlotUsers(s)) + 1 <= itab'[s].cnt
    <3>1. Cardinality(SlotUsers(s)) = 0 BY <2>10, FS_EmptySet, Zenon
    <3> QED BY <2>11, <3>1
  <2>13. /\ ForkSound' /\ DescTypes' /\ CountsSound'
         /\ \A t \in Slot \ {s} : SlotUsers(t)' = SlotUsers(t)
    BY <1>1, <1>4, <2>4, <2>9, <2>11, <2>12, CountsOpen DEF SlotsSound
  <2>14. UsersSound' BY <1>1, <2>4, <2>11, <2>13 DEF UsersSound
  <2> QED BY <1>1, <2>4, <2>8, <2>11, <2>13, <2>14 DEF FsInv
<1> QED BY <1>2, <1>3, <1>4 DEF Open, OpenPanic

LEMMA UnlinkSound ==
    ASSUME FsInv, NEW name, Unlink(name)
    PROVE  FsInv'
<1>1. /\ DiskSound /\ SlotsSound /\ ForkSound /\ DescTypes /\ CountsSound /\ UsersSound
      /\ halted \in BOOLEAN
  BY DEF FsInv
<1>2. PICK n : n = search_file(name) OBVIOUS
<1>3. PICK s : s = SlotOf(n) OBVIOUS
<1>4. n # 0 /\ (Halt \/ (s # 0 /\ (UnlinkRefused(n, s) \/ UnlinkDone(n, s))))
  BY <1>2, <1>3 DEF Unlink
<1>5. n \in Ino BY <1>1, <1>2, <1>4, Found
<1>6. CASE Halt BY <1>6, HaltSound
<1>7. CASE s # 0 /\ UnlinkRefused(n, s)
  <2>1. itab[s].cnt < CntMax /\ itab' = Got(n) /\ UNCHANGED <<disk, fdtab, filp, procs, halted>>
    BY <1>7 DEF UnlinkRefused
  <2>2. s \in Slot /\ itab[s].cnt \in Nat BY <1>1, <1>3, <1>7, GotSlot
  <2>3. PICK e : e = [num |-> n, cnt |-> itab[s].cnt + 1] OBVIOUS
  <2>4. e \in [num : Ino, cnt : 1 .. CntMax] /\ e.num = n /\ e.cnt = itab[s].cnt + 1
    <3>1. itab[s].cnt + 1 \in 1 .. CntMax BY <2>1, <2>2, Sizes
    <3> QED BY <1>5, <2>3, <3>1
  <2>5. SlotsSound' /\ itab'[s] = e /\ \A t \in Slot \ {s} : itab'[t] = itab[t]
    <3>1. itab' = [itab EXCEPT ![s] = e] BY <1>1, <1>3, <1>7, <2>1, <2>3, GotSlot
    <3> QED BY <1>1, <1>3, <2>2, <2>4, <3>1, SlotTaken
  <2>6. \A t \in Slot : itab[t].cnt \in Nat /\ itab'[t].cnt \in Nat BY <1>1, <2>5, Sizes DEF SlotsSound
  <2>7. \A t \in Slot : itab[t].cnt <= itab'[t].cnt BY <2>4, <2>5, <2>6
  <2>8. /\ ForkSound' /\ DescTypes' /\ CountsSound'
        /\ \A t \in Slot : SlotUsers(t)' = SlotUsers(t)
    BY <1>1, <2>1, <2>6, <2>7, TablesFrame
  <2>9. UsersSound'
    <3>1. SlotUsers(s) # {} => itab[s].num = n
      <4>1. itab[s].cnt > 0 => itab[s].num = n BY <1>1, <1>3, <1>7, SlotFound
      <4> QED BY <1>1, <2>2, <4>1, NoUsers
    <3>2. imap' = imap BY <2>1 DEF disk
    <3> QED BY <1>1, <2>4, <2>5, <2>8, <3>1, <3>2, UsersKept
  <2>10. DiskSound' BY <1>1, <2>1, DiskFrame
  <2> QED BY <1>1, <2>1, <2>5, <2>8, <2>9, <2>10 DEF FsInv
<1>8. CASE s # 0 /\ UnlinkDone(n, s) /\ ~Halt
  <2>1. PICK i : i = Min(EntriesOf(n)) OBVIOUS
  <2>2. /\ inode[n].mode = "regular" /\ itab[s].cnt = 0 /\ EntriesOf(n) # {} /\ n \in imap
        /\ imap' = imap \ {n}
        /\ smap' = smap \ ClearedBits(inode[n].start + 1, FileSects)
        /\ inode' = [inode EXCEPT ![n] = NoInode]
        /\ dir' = [dir EXCEPT ![i] = NoEntry]
        /\ nent' = IF i = nent - 1 THEN Cardinality({j \in 0 .. nent - 2 : dir[j].ino # 0})
                   ELSE nent
        /\ itab' = put_inode(Got(n), s) /\ UNCHANGED <<dirwr, fdtab, filp, procs, halted>>
    BY <1>8, <2>1 DEF UnlinkDone
  <2>3. i \in EntriesOf(n)
    <3>1. EntriesOf(n) \in SUBSET Nat BY <1>1, Sizes DEF EntriesOf, DiskSound, DiskTypes
    <3> QED BY <2>1, <2>2, <3>1, MinNat
  <2>4. DiskSound' BY <1>1, <2>2, <2>3, DiskUnlink
  <2>5. /\ s \in Slot /\ Got(n) = [itab EXCEPT ![s] = [num |-> n, cnt |-> itab[s].cnt + 1]]
        /\ \A t \in Slot : itab[t].cnt > 0 => itab[t].num # n
    BY <1>1, <1>3, <1>8, <2>2, GotSlot, SlotFound
  <2>6. /\ itab' \in [Slot -> [num : Ino \cup {0}, cnt : 0 .. CntMax]]
        /\ itab'[s].cnt = 0 /\ \A t \in Slot \ {s} : itab'[t] = itab[t]
    <3>1. Got(n) = [itab EXCEPT ![s] = [num |-> n, cnt |-> 1]] BY <2>2, <2>5
    <3>2. itab \in [Slot -> [num : Ino \cup {0}, cnt : 0 .. CntMax]] BY <1>1 DEF SlotsSound
    <3>3. PICK e : e = [num |-> n, cnt |-> 1] OBVIOUS
    <3>4. PICK g : g = [itab EXCEPT ![s] = e] OBVIOUS
    <3>5. e.cnt = 1 /\ e.num = n /\ e \in [num : Ino \cup {0}, cnt : 0 .. CntMax]
      BY <1>5, <3>3, Sizes
    <3>6. /\ g \in [Slot -> [num : Ino \cup {0}, cnt : 0 .. CntMax]] /\ g[s] = e
          /\ \A t \in Slot \ {s} : g[t] = itab[t]
      BY <2>5, <3>2, <3>4, <3>5
    <3>7. PICK x : x = [e EXCEPT !.cnt = e.cnt - 1] OBVIOUS
    <3>8. x.cnt = 0 /\ x \in [num : Ino \cup {0}, cnt : 0 .. CntMax]
      BY <1>5, <3>3, <3>7, Sizes
    <3>9. itab' = [g EXCEPT ![s] = x]
      <4>1. itab' = put_inode(g, s) BY <2>2, <3>1, <3>3, <3>4, Zenon
      <4> QED BY <3>6, <3>7, <4>1 DEF put_inode
    <3> QED BY <2>5, <3>6, <3>8, <3>9
  <2>7. SlotsSound'
    <3>1. \A t \in Slot : itab'[t].cnt > 0 => t # s /\ itab'[t] = itab[t] BY <2>6
    <3> QED BY <1>1, <2>6, <3>1 DEF SlotsSound
  <2>8. \A t \in Slot : itab[t].cnt \in Nat /\ itab'[t].cnt \in Nat BY <1>1, <2>7, Sizes DEF SlotsSound
  <2>9. \A t \in Slot : itab[t].cnt <= itab'[t].cnt BY <2>2, <2>6, <2>8
  <2>10. /\ ForkSound' /\ DescTypes' /\ CountsSound'
         /\ \A t \in Slot : SlotUsers(t)' = SlotUsers(t)
    BY <1>1, <2>2, <2>8, <2>9, TablesFrame
  <2>11. UsersSound'
    <3> SUFFICES ASSUME NEW t \in Slot, SlotUsers(t)' # {} PROVE itab'[t].num \in imap'
      BY DEF UsersSound
    <3>1. SlotUsers(t) # {} BY <2>10
    <3>2. itab[t].cnt > 0
      <4>1. itab[t].cnt # 0 BY <1>1, <3>1, NoUsers
      <4> QED BY <2>8, <4>1
    <3>3. itab[t].num # n /\ t # s
      <4>1. itab[s].cnt = 0 BY <2>2
      <4> QED BY <2>5, <3>2, <4>1
    <3>4. itab'[t] = itab[t] BY <2>6, <3>3
    <3>5. itab[t].num \in imap BY <1>1, <3>1 DEF UsersSound
    <3> QED BY <2>2, <3>3, <3>4, <3>5
  <2> QED BY <1>1, <2>2, <2>4, <2>7, <2>10, <2>11 DEF FsInv
<1> QED BY <1>4, <1>6, <1>7, <1>8

\* What a process reads or writes of `/' changes nothing but the directory.
LEMMA RdwtSound ==
    ASSUME FsInv, NEW p, NEW fd, ReadDir(p, fd) \/ WriteDir(p, fd)
    PROVE  FsInv'
<1>1. DiskSound /\ DiskTypes /\ InodesSound /\ SectorsAccounted /\ halted \in BOOLEAN
  BY DEF FsInv, DiskSound
<1>2. UNCHANGED <<imap, smap, inode, itab, fdtab, filp, procs, halted>>
  BY DEF ReadDir, WriteDir
<1>3. InodesSound' /\ SectorsAccounted'
  BY <1>1, <1>2 DEF InodesSound, SectorsAccounted, Files, Extent
<1>4. DiskTypes' /\ (dirwr' = 0 => DirSound')
  <2>1. CASE ReadDir(p, fd)
    <3>1. nent' \in 0 .. DirMax /\ dir' = dir /\ dirwr' = dirwr
      BY <1>1, <2>1, Sizes DEF ReadDir, DiskTypes
    <3>2. dirwr = 0 => DirSound BY DEF FsInv, DiskSound
    <3> QED BY <1>1, <1>2, <3>1, <3>2 DEF DiskTypes, DirSound
  <2>2. CASE WriteDir(p, fd)
    <3>1. PICK w \in DirWrites : /\ dir' = [dir EXCEPT ![w[1]] = w[2]]
                                 /\ nent' = IF w[1] < nent THEN nent ELSE w[1] + 1
      BY <2>2 DEF WriteDir
    <3>2. PICK i \in 0 .. DirMax - 1,
               e \in [ino : Ino \cup {0}, name : Name \cup {".", "dev_tty", "none"}] :
            i = w[1] /\ e = w[2]
      BY FsAssumption DEF Ino
    <3>3. dir' \in [0 .. DirMax -> [ino : Ino \cup {0}, name : Name \cup {".", "dev_tty", "none"}]]
      BY <1>1, <3>1, <3>2, Sizes DEF DiskTypes
    <3>4. nent' \in 0 .. DirMax BY <1>1, <3>1, <3>2, Sizes DEF DiskTypes
    <3>5. dirwr' \in 0 .. MaxDirWrites /\ dirwr' # 0
      BY <1>1, <2>2, FsAssumption DEF WriteDir, DiskTypes
    <3> QED BY <1>1, <1>2, <3>3, <3>4, <3>5 DEF DiskTypes
  <2> QED BY <2>1, <2>2
<1>5. DiskSound' BY <1>3, <1>4 DEF DiskSound
<1> QED BY <1>1, <1>2, <1>5, MemoryFrame

-----------------------------------------------------------------------------
(* The theorems. *)

\* Whatever processes open, close, unlink, write to `/', fork and exit in whatever order,
\* the tables of FS and the disk stay in step (fs/open.c, fs/link.c,
\* fs/main.c:fs_fork, fs_exit).
THEOREM FsInvariant == Spec => []FsInv
<1>1. Init => FsInv
  <2> SUFFICES ASSUME Init PROVE FsInv OBVIOUS
  <2>1. DiskSound /\ mkfs BY DiskInit DEF Init
  <2>2. itab = [s \in Slot |-> IF s = 1 THEN [num |-> ROOT_INODE, cnt |-> 1]
                                        ELSE [num |-> 0, cnt |-> 0]]
    BY DEF Init
  <2>3. ROOT_INODE \in imap /\ ROOT_INODE \in Ino /\ inode[ROOT_INODE].mode # "none"
    BY <2>1 DEF DiskSound, InodesSound, DiskTypes
  <2>4. SlotsSound BY <2>2, <2>3, Sizes DEF SlotsSound, DiskSound, DiskTypes
  <2>5. /\ fdtab = [d \in Desc |-> [ino |-> 0, cnt |-> 0]]
        /\ filp = [p \in Proc |-> [fd \in Fd |-> 0]]
        /\ alive = {InitProc} /\ forking = {} /\ halted = FALSE
    BY DEF Init
  <2>6. ForkSound BY <2>5, FsAssumption DEF ForkSound
  <2>7. DescTypes BY <2>5 DEF DescTypes
  <2>8. Counted \subseteq Proc BY <2>6 DEF Counted, ForkSound
  <2>9. \A d \in Desc : DescUsers(d) = {} BY <2>5, <2>8 DEF DescUsers, Desc
  <2>10. \A s \in Slot : SlotUsers(s) = {} BY <2>5, <2>8 DEF SlotUsers, LeadsTo
  <2>11. Cardinality({}) = 0 BY FS_EmptySet
  <2>12. \A d \in Desc : Cardinality(DescUsers(d)) = 0 BY <2>9, <2>11
  <2>13. \A s \in Slot : Cardinality(SlotUsers(s)) = 0 BY <2>10, <2>11
  <2>14. CountsSound BY <2>2, <2>5, <2>12, <2>13 DEF CountsSound
  <2>15. UsersSound BY <2>10 DEF UsersSound
  <2> QED BY <2>1, <2>4, <2>5, <2>6, <2>7, <2>14, <2>15 DEF FsInv
<1>2. FsInv /\ [Next]_vars => FsInv'
  <2> SUFFICES ASSUME FsInv, [Next]_vars PROVE FsInv' OBVIOUS
  <2>1. /\ DiskSound /\ SlotsSound /\ ForkSound /\ DescTypes /\ CountsSound /\ UsersSound
        /\ halted \in BOOLEAN
    BY DEF FsInv
  <2>2. CASE \E p \in Ready, name \in Name \cup {"/", ".", "dev_tty"} : Open(p, name)
    BY <2>2, OpenSound
  <2>3. CASE \E p \in Ready, fd \in Fd : Close(p, fd) \/ ReadDir(p, fd) \/ WriteDir(p, fd)
    <3>1. PICK p \in Ready, fd \in Fd : Close(p, fd) \/ ReadDir(p, fd) \/ WriteDir(p, fd) BY <2>3
    <3>2. CASE Close(p, fd)
      <4>1. UNCHANGED <<disk, halted>> BY <3>2 DEF Close
      <4> QED BY <2>1, <3>2, <4>1, CountsClose, DiskFrame DEF FsInv
    <3> QED BY <3>1, <3>2, RdwtSound
  <2>4. CASE \E p \in Ready, name \in Name \cup {".", "dev_tty"} : Unlink(name)
    BY <2>4, UnlinkSound
  <2>5. CASE \E p \in Ready, c \in Proc : ForkCopy(p, c)
    <3>1. PICK p \in Ready, c \in Proc : ForkCopy(p, c) BY <2>5
    <3>2. UNCHANGED <<disk, itab, halted>> BY <3>1 DEF ForkCopy
    <3>3. SlotsSound' BY <2>1, <3>2 DEF SlotsSound
    <3> QED BY <2>1, <3>1, <3>2, <3>3, CountsForkCopy, DiskFrame DEF FsInv
  <2>6. CASE \E f \in forking : fs_fork(f[2])
    <3>1. PICK f \in forking : fs_fork(f[2]) BY <2>6
    <3>2. UNCHANGED <<disk, halted>> BY <3>1 DEF fs_fork
    <3> QED BY <2>1, <3>1, <3>2, CountsFork, DiskFrame DEF FsInv
  <2>7. CASE \E p \in Ready : fs_exit(p)
    <3>1. PICK p \in Ready : fs_exit(p) BY <2>7
    <3>2. UNCHANGED <<disk, halted>> BY <3>1 DEF fs_exit
    <3> QED BY <2>1, <3>1, <3>2, CountsExit, DiskFrame DEF FsInv
  <2>8. CASE UNCHANGED vars
    <3>1. UNCHANGED <<disk, itab, fdtab, filp, procs, halted>> BY <2>8 DEF vars
    <3>2. DiskSound' /\ UNCHANGED imap BY <2>1, <3>1, DiskFrame DEF disk
    <3> QED BY <2>1, <3>1, <3>2, MemoryFrame
  <2> QED BY <2>2, <2>3, <2>4, <2>5, <2>6, <2>7, <2>8 DEF Next
<1> QED BY <1>1, <1>2, PTL DEF Spec

\* No table of FS and no map on the disk leaves its range: the counters do
\* not go below zero and no index is behind the end of its table.
THEOREM FsTypeCorrect == Spec => []TypeOK
<1>1. FsInv => TypeOK
  <2> SUFFICES ASSUME FsInv PROVE TypeOK OBVIOUS
  <2>1. forking \subseteq Proc \X Proc /\ alive \subseteq Proc BY DEF FsInv, ForkSound
  <2> QED BY <2>1 DEF FsInv, TypeOK, DiskSound, DiskTypes, SlotsSound, DescTypes
<1> QED BY <1>1, FsInvariant, PTL

\* f_desc_table[] counts its users, through opens and closes, forks in two
\* steps and exits: no entry is lost and none is given away while it is in use.
THEOREM DescriptorsCounted == Spec => []DescCounts
<1>1. FsInv => DescCounts
  <2> SUFFICES ASSUME FsInv, NEW d \in Desc
               PROVE  /\ fdtab[d].cnt = Cardinality({r \in Counted \X Fd : filp[r[1]][r[2]] = d})
                      /\ (fdtab[d].ino = 0) <=> (fdtab[d].cnt = 0)
                      /\ fdtab[d].cnt = 0 => \A p \in alive : DescRefs(p, d) = 0
    BY DEF DescCounts
  <2>1. ForkSound /\ DescTypes /\ CountsSound BY DEF FsInv
  <2>2. /\ fdtab[d].cnt = Cardinality({r \in Counted \X Fd : filp[r[1]][r[2]] = d})
        /\ (fdtab[d].ino = 0) <=> (fdtab[d].cnt = 0)
    BY <2>1 DEF CountsSound, DescUsers
  <2>3. ASSUME fdtab[d].cnt = 0, NEW p \in alive PROVE DescRefs(p, d) = 0
    <3>1. DescFds(p, d) = {} BY <2>1, <2>2, <2>3, FreeUnused DEF DescFds
    <3> QED BY <3>1, RefCounts
  <2> QED BY <2>2, <2>3
<1> QED BY <1>1, FsInvariant, PTL

\* An i-node that anybody has open is held in inode_table[] and is on the disk.
THEOREM OpenFilesHeld == Spec => []OpenFileHeld
<1>1. FsInv => OpenFileHeld
  <2> SUFFICES ASSUME FsInv PROVE OpenFileHeld OBVIOUS
  <2>1. ForkSound /\ DescTypes /\ CountsSound /\ SlotsSound BY DEF FsInv
  <2>2. \A s \in Slot : Cardinality({r \in Counted \X Fd : LeadsTo(r[1], r[2], s)}) <= itab[s].cnt
    BY <2>1 DEF CountsSound, SlotUsers
  <2>3. \A s \in Slot, t \in Slot : t # s /\ itab[s].cnt > 0 /\ itab[t].cnt > 0 => itab[s].num # itab[t].num
    BY <2>1 DEF SlotsSound
  <2>4. ASSUME NEW p \in alive, NEW fd \in Fd, filp[p][fd] # 0
        PROVE  /\ fdtab[filp[p][fd]].ino \in Slot
               /\ itab[fdtab[filp[p][fd]].ino].cnt > 0
               /\ itab[fdtab[filp[p][fd]].ino].num \in imap
    <3>1. PICK q \in Counted : filp[q] = filp[p]
      <4>1. CASE forking = {} BY <4>1 DEF Counted
      <4>2. CASE forking # {}
        <5>1. PICK a \in alive, c \in alive : a # c /\ forking = {<<a, c>>} /\ filp[c] = filp[a]
          BY <2>1, <4>2 DEF ForkSound
        <5>2. Counted = alive \ {c} BY <5>1 DEF Counted
        <5> QED BY <5>1, <5>2
      <4> QED BY <4>1, <4>2
    <3>2. PICK s \in Slot : s = fdtab[filp[p][fd]].ino /\ itab[s].cnt > 0
      BY <2>1, <2>4, <3>1, UserCounted
    <3>3. <<q, fd>> \in SlotUsers(s) BY <2>4, <3>1, <3>2 DEF SlotUsers, LeadsTo
    <3>4. itab[s].num \in imap BY <3>3 DEF FsInv, UsersSound
    <3> QED BY <3>2, <3>4
  <2>5. \A p \in alive, fd \in Fd : filp[p][fd] # 0 =>
          LET e == itab[fdtab[filp[p][fd]].ino]
          IN  e.cnt > 0 /\ e.num \in imap /\ inode[e.num].mode # "none"
    BY <2>4 DEF FsInv, DiskSound, InodesSound
  <2> QED BY <2>2, <2>3, <2>5 DEF OpenFileHeld
<1> QED BY <1>1, FsInvariant, PTL

\* The sector map is exact: whatever files are created and unlinked, no
\* sector is lost and none belongs to two files, for any size of a file and
\* any width of a byte of the map (link.c:96-132, open.c:alloc_smap_bit).
THEOREM SectorsAreAccounted == Spec => []SectorsAccounted
<1>1. FsInv => SectorsAccounted BY DEF FsInv, DiskSound
<1> QED BY <1>1, FsInvariant, PTL

\* As long as no process has written to the directory itself, every entry
\* in use names an i-node in use, and no other does: also entries that
\* do_unlink() has cut off and that a read of `/' brings back
\* (open.c:create_file, link.c:do_unlink, read_write.c:138-143).
THEOREM DirectorySound == Spec => []DirPointsToFiles
<1>1. FsInv => DirPointsToFiles
  <2> SUFFICES ASSUME FsInv, dirwr = 0 PROVE DirPointsToFiles BY DEF DirPointsToFiles
  <2>1. DirSound /\ nent \in 0 .. DirMax BY DEF FsInv, DiskSound, DiskTypes
  <2>2. 0 .. nent - 1 \subseteq 0 .. DirMax BY <2>1, Sizes
  <2> QED BY <2>1, <2>2 DEF DirSound, DirPointsToFiles
<1> QED BY <1>1, FsInvariant, PTL
=============================================================================
