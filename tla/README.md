# Verification of the kernel, the tasks and the drivers of My-Minix

My-Minix is a small microkernel system for one i386 processor (C and nasm). The
kernel passes messages, schedules and handles interrupts; everything else is done
by *tasks* (ring 1) that exchange messages with the kernel's help: TTY, SYS, HD
(disk), FS (files) and MM (processes). User processes reach the tasks through
library stubs, each of which is one `send_recv(BOTH, task, msg)`.

This directory has TLA+ models of its core, TLC configurations that check them on
small instances, and TLAPS proofs of the main invariants for all instances.

## Inventory

| component | state | operations | talks to | what makes it correct |
|---|---|---|---|---|
| message passing, `kernel/proc.c` | of each `proc_table[]` entry: `p_flags`, `p_msg`, `p_recvfrom`, `p_sendto`, `has_int_msg`, the list `q_sending`/`next_sending` | `sys_sendrec` (SEND, RECEIVE), `inform_int`, `deadlock` | everybody; interrupt handlers | partners always find each other, nothing is lost, doubled or overwritten; no circle of senders |
| scheduler and clock, `kernel/proc.c`, `clock.c`, `kernel.asm` | `ticks`, `priority`, `p_proc_ready`, `k_reenter` | `schedule`, `clock_handler`, `block`, `restart` | reads `p_flags`, which message passing and MM write | only runnable processes run, each of them eventually |
| process manager MM, `mm/` | `p_parent`, `exit_status`, flags WAITING, HANGING, FREE_SLOT | `do_fork`, `do_exit`, `do_wait`, `cleanup` | the stubs in `lib/`; FS | each exit reported once to the right parent; no orphans; MM is never stuck |
| file system FS, `fs/` | on disk: i-node map, sector map, i-nodes, directory; in memory: `inode_table[]`, `f_desc_table[]`, `filp[]` | `do_open`, `do_close`, `do_unlink`, `do_rdwt`, `fs_fork`, `fs_exit`, `mkfs` | HD, TTY, MM | counts and maps agree with what is in use; a read or write is a copy of the bytes asked for |
| disk driver HD, `kernel/hd.c` | `hd_info` (partitions), `has_int_msg`; the controller | open, read/write, ioctl | FS; the disk interrupt | the right sectors; as many interrupts awaited as raised; an answer to every request |
| terminals, `kernel/tty.c`, `keyboard.c`, `console.c` | the ring `kb_in`, modifiers, `key_pressed`, `tty_table` (the suspended reader), cursors and screen starts | key handling, line editing, DEV_READ, DEV_WRITE, DEV_OPEN, `out_char`, `printx` | FS (SUSPEND_PROC, RESUME_PROC); the keyboard and clock interrupts; everybody who prints | each reader resumed once with the line as edited; modifiers follow the keys; consoles keep to their memory |
| boot, descriptors, libraries, SYS | – | – | – | sequential, or run once |

What is hard to test in it: system calls run *with interrupts on*, so handlers
change table entries between two statements of a call; MM and FS are preemptible
tasks that write the tables the kernel reads; a `BOTH` is two system calls, and
the answer may be ready before the second; long series of legal calls (open,
fork, exit, unlink) must leave counts in three tables right; drivers count on one
interrupt per sector and one wake-up per key; TTY and FS send to each other; and TTY
shares its ring with an interrupt handler and its consoles with everybody who prints. `PROJECT.json` lists
these hazards at their lines with the properties that watch them. Nothing survives
a restart (`mkfs` formats the disk at every boot), so there is no crash recovery.

## Modules

| module | models | checked by |
|---|---|---|
| `Ipc` | `msg_send`, `msg_receive`, `inform_int`, `deadlock`; one system call is one step | run `ipc`, `IpcProofs` |
| `Rendezvous` | what processes rely on: an abstract synchronous rendezvous with interrupts | implemented by `Ipc` (TLC and TLAPS) |
| `SendQueue` | the list `q_sending`, `next_sending`, pointer by pointer | run `send_queue`, `SendQueueProofs` |
| `FifoQueues` | queues as sequences | implemented by `SendQueue` (TLC and TLAPS) |
| `IpcIntr` | `Ipc` statement by statement, with `inform_int` between any two | runs `ipc_intr`, `intr_deliver`, `IpcIntrProofs` |
| `Sched` | `schedule`, `clock_handler`, `block`, `restart` | run `sched`, `SchedProofs` |
| `ForkExit` | MM's loop, `do_fork`, `do_exit`, `do_wait`, `cleanup`, and the stubs | runs `fork_exit`, `wait_doc`, `fork_suspend`, `ForkExitProofs` |
| `Hd` | task HD: `hd_open`, `partition`, `hd_rdwt`, `hd_ioctl`, the status polls, `hd_handler`; the ATA controller (external) | run `disk`, `DiskProofs` |
| `ReadWrite` | `do_rdwt` on files, `sync_inode`, and the boot of FS, on top of `Hd` | run `disk`, `DiskProofs` |
| `Keyboard` | `keyboard_handler`, the ring, the decoding of keys | run `tty`, `TtyProofs` |
| `Console` | `out_char`, `scroll_screen`, `select_console`, `sys_printx` | run `tty`, `TtyProofs` |
| `Tty` | task TTY with `Keyboard` and `Console`, the terminal half of `do_rdwt`, suspended readers, the clock's wake-up | run `tty`, `TtyProofs` |
| `Fs` | `do_open` with `create_file`, `do_close`, `do_unlink`, `fs_fork`, `fs_exit`; `mkfs` as the initial state | runs `fs`, `fs_dir`, `FsProofs` |

`MCIpc`, `MCSendQueue`, `MCIpcIntr`, `MCSched`, `MCFs`, `MCReadWrite` and `MCTty` give the constants their
small values and add what only TLC needs (symmetry, bounds). Definitions called
`X_Something` under a comment "Mutant" are altered forms of `X`; they are not part
of any specification and show, when they take the place of `X`, that a property
can fail.

### Ipc, Rendezvous, SendQueue

`p_flags` is a set of flags, empty when the process can run; `p_msg` is whether the
pointer is null; `mem[p]` is the message buffer of the call, of which source and
type are kept. `Send` has three outcomes, as `msg_send` has: panic on a circle,
hand the message to a waiting receiver, block. `Receive` has three: a pending
interrupt, a queued sender, block. The loop of `deadlock` is the least set closed
under "is sending to"; `DeadlockLoopAgrees` compares it with the loop itself (`Walk`,
which follows `p_sendto` hop by hop), and is proved.

`SendQueue` has the pointers alone. `received` is history: what the last RECEIVE asked
for, and whose message it took. `FifoQueues` promises with it that RECEIVE ANY takes the
head of the queue, and RECEIVE from one process that process, from any place.

`Rendezvous` knows only who offers a message to whom, who wants one from whom,
and which interrupts are pending. It says that a process which blocks does so for
lack of a partner. The refinement maps `p_sendto`, `p_recvfrom` and `has_int_msg`.

### IpcIntr

`sys_call` enables interrupts before it runs the handler. Each statement that
touches a field `inform_int` also reads or writes is a step; a failed assertion
stops the system. `MCIpcIntr` records whether an interrupt has hit the call in
progress: without one, the steps of a call make up one step of `Ipc`
(`ImplementsIpc`). With one, the table is sound whenever no call is in progress,
and only assertions about driver tasks can fail.

The races that TLC finds here: an interrupt between the test of `has_int_msg` and
the setting of RECEIVING trips the last assertion of `msg_receive` (line 516); one
that wakes a receiver just found by `msg_send` trips the assertion at line 305, or
the one in `block` at line 213. Those stop the system and are noticed. One is not: between the copy of
a message and the reset of `p_msg`, the handler overwrites what was delivered (run
`intr_deliver`).

### Sched

The first `Native` entries of the table start as tasks and native processes, the others as
free slots, which `do_fork` fills. `mode` says where the processor is. The clock charges `p_proc_ready` in user mode
and may reschedule; in the kernel it only charges. In a pass of `schedule` the
variable `p_proc_ready` is already one of the candidates, so a tick charges a
process that does not run (`TickInLoop`). An interrupt that comes while `schedule` looks
for a process may wake the very caller of `block`; the assertions behind `block`
(`proc.c:512-516` in `msg_receive`) then fail, and `mode` is "stopped". The last pass of
`schedule` and these assertions are one step. What processes do is reduced to its
effect on flags, and MM writes flags itself.

### ForkExit

A stub is two system calls (`CallSend`, `CallReceive`); MM works on the table in
between. `mm` is MM's program position with the locals it needs. FS is external
and answers some time later. `upc` and `req` are where the process itself is and
what it asked; `ldt` is whose memory its descriptors select. `Children` reads
`p_parent` of *all* entries, because `do_wait` does.

`lib/fork.c:32` asserts that fork succeeded, and a failed assertion in a user
process spins for ever. With 32 MB the system panics in `alloc_mem` before the table is
full; with more memory the table is full first. `memory_size` is set once, by `init_mm`,
and the instance has both sizes, so that both cases are reached.

### Fs

One request is one step: FS is single-threaded and waits for HD meanwhile. A fork is
two, since MM copies `filp[]` first and tells FS later; parent and child are blocked
in between, others are not. The i-nodes in memory and on disk are one variable,
because `sync_inode` follows every change. `search_file` looks at one entry past the
end, as the loop does. `ClearedBits` follows `do_unlink` byte by byte (the byte has
`ByteBits` bits). The three terminals are one. Calls that return -1 without changing
anything are stuttering; an `unlink` that is refused *does* change something, the
reference it took is kept.

`do_rdwt` takes the open directory as it takes a file. `ReadDir` is a read of it, which goes
on to the end of the sector and lengthens `i_size` (`read_write.c:138-143`), so that entries
left behind the end come back; `WriteDir` is a write, which replaces entries by whatever the
process likes. Since that can break any relation between entries and i-nodes,
`DirPointsToFiles` is a promise only as long as no process has written there (`dirwr`
counts); the other properties hold whatever the entries say, and `open` and `unlink` of what
they say go on. Abstracted: the position (a write may reach any entry), a write is one whole
entry with the number of an existing i-node or 0, and the directory is its first sector.

### Hd and ReadWrite

`hd` is where task HD is, with its locals; `ctl` is the controller: a command, the
sectors it still has to move, and whether it offers or wants data (DRQ). Reading or
writing the data port, the interrupt after a sector and the poll of the status are
steps of their own, so that the drive may be early or late at each; every poll may time
out, which is a panic. The count register holds `COUNT` values, and 0 stands for
`COUNT`. `chan` is the one message FS and HD have under way: FS waits for the answer.

`ReadWrite` boots FS as `init_fs` does (open, geometry, super block written and read
back) and then runs `do_rdwt`: sector range, chunk, copy, write back, and `sync_inode`
when the file has grown. The drive is one function from bytes to values, so that
`TransferSound` can compare it, when FS is idle, with the drive before the request.
Opening files is in `Fs`; here three files are open.

### Keyboard, Console, Tty

The keyboard plays a sequence of keys, each of one to six scan codes; an interrupt puts
one code into the ring. TTY takes one code a step, so that interrupts fall into the
middle of E0 and E1 sequences. A lock key makes TTY set the lights (`set_leds`): two commands
to the keyboard, each answered with an ACK before the next key. `kb_ack` reads the data port
until it holds the ACK, while the interrupt handler reads the same port and puts the ACK into
the ring; `Port` is what was sent last, and `kb_ack` waits for it. That the keyboard answers
between two keys, and that reading the port again gives the last code again, is how the
8042 is taken to work. `tk` is where task TTY is, with its locals. `OutCheck` to
`ScrollWrite` are one access to a cursor or a screen start each, because `printx` runs
in the kernel between any two instructions of TTY (`Printx`, one step: no task runs
meanwhile). The loop at the end of `out_char` does not end when the cursor is behind the
last screen: in TTY that is `Spinning`, in the kernel it halts the system. FS is reduced to what concerns terminals; it has one call at a time. A send
to a task that is itself sending to the sender is the panic of `deadlock`, as `Ipc`
has it, and sets `halted`. A scenario fixes which keys are typed, what each process
calls and what is printed, and leaves the order of everything open. `chars`, `lost` and
`dropped` are history: what was typed for a reader, whose request was overwritten,
whether the ring was ever full.

## Runs

| run | instance | states | shows |
|---|---|---|---|
| `ipc` | 4 processes, 1 driver, 1 type; symmetric users | 43 thousand | table consistent; no missed partner or interrupt; no circle; implements `Rendezvous` |
| `send_queue` | 5 processes, symmetric | 266 (30 thousand without symmetry) | lists well formed; they implement `FifoQueues`: ANY takes the head |
| `ipc_intr` | 1 driver, 2 users | 444 thousand | table sound between calls despite interrupts; only driver assertions trip; uninterrupted calls implement `Ipc` |
| `intr_deliver` | 1 driver, 2 users | – | **violated**: an interrupt overwrites a delivered message |
| `sched` | 2 tasks, 1 user, 1 free slot, small priorities | 6.5 thousand | runs only runnable processes; no starvation, unless an assertion behind `block` stops the system |
| `fork_exit` | INIT, 3 slots, memory for 2 or 3 | 766 thousand | exits reported, no orphans, MM returns, forks answered or the memory is full |
| `wait_doc` | INIT, 2 slots | – | **violated**: `wait` sleeps for ever without children |
| `fork_suspend` | INIT, 2 slots | – | **violated**: the child runs before it has memory of its own |
| `fs` | 2 processes, 3 names, tables of 1, 2 and 3, files of 4 sectors, bytes of 2 bits, a write to `/` | 788 thousand | counts and maps agree; the directory too, until it is written to |
| `fs_dir` | the same | – | **violated**: the directory shrinks past files that exist |
| `disk` | 26 sectors of 2 bytes, three logical partitions, 3 files, lengths 0 to 9, 3 requests | 234 thousand | exact copies, confined damage, no stray interrupt, every request answered |
| `tty` | 2 consoles of 7 cells, ring of 3 codes, 2 processes, 10 scenarios | 398 thousand | modifiers, suspended readers, delivered lines, consoles; all that is under way is finished, or one of four failures has happened |

Bounds. Four processes are a driver and a circle of three senders, the least for
which `deadlock` must follow a chain; five list elements have a first, a last and
an inner one to remove with neighbours left over. Three slots are a grandparent,
a parent and a zombie next to INIT. In `fs` a file starts at the
second bit of a byte and covers the rest of it, a whole byte and one bit of another,
as with 2048 sectors and bytes of 8 bits; three names are what the directory needs to lose one; all tables
can fill up, which panics. `DirMax` (entries) and `CntMax` (references to an i-node)
bound the directory and the leak of refused removals; one write to the directory
(`MaxDirWrites`, `DirWrites`) puts a second entry for a file over the entry of another; `MaxIno` is large enough that sectors run out first, as
they do on the disk image.

In `disk` the relations of the code are kept: the buffer of FS (2048 sectors) is larger
than what one command can move (256), and so are 6 and 4; the root device is the third
logical partition, so that two links of the chain are followed, with different
distances from the start of the extended partition; lengths lie on, before and behind
sector boundaries and past the end of the file and of its extent. In `tty` the ring is
shorter than the sequences of Pause and Print Screen, so that codes are lost; a console
is one cell longer than three lines of which two are on the screen, so that it scrolls
once and then is full ((5461 - 2000) % 80 = 21 in the code, and 1 here: not 0, which
the loop in `out_char` needs in order to end). Each scenario is there for one of the
hazards, as the comments in `MCTty` say.

Deadlock is checked for `send_queue`. In the others the system may stop: by a panic, by an
assertion, or because every process waits for a message.

### Findings

- `kernel/proc.c:311` – a delivered message is overwritten by an interrupt and its
  sender is never told (`intr_deliver`).
- `mm/forkexit.c:277` – `do_wait` counts released slots as children; "if P has no
  child at all - reply to P with error" does not hold (`wait_doc`).
- `mm/forkexit.c:46` – the child is said to be suspended until its birth message, and
  may not be (`fork_suspend`).
- `fs/link.c:200` – the size of the directory is said to include unused slots, and is
  reduced to the used ones (`fs_dir`); files are lost, except that the first behind the end
  is still found through the extra entry `search_file` looks at.

Seen on the way, and part of the models: `do_unlink` keeps a reference when it refuses,
against its own comment (`fs/link.c:56`), so that a file once refused can never
be removed; a forking or ill-timed load can starve a process, which is why
`NoStarvation` supposes that both come to an end. In the drivers, where the properties
name them as their exceptions:

- `kernel/tty.c:195`, `fs/read_write.c:65` – TTY resumes a reader while FS passes on a
  call: `deadlock` panics. The reader is not resumed, against the comment at
  `fs/main.c:77-81`.
- `kernel/tty.c:354-361` – a second read of a terminal takes the place of the first,
  whose caller sleeps for ever; so does a caller that asks for 0 bytes.
- `kernel/keyboard.c:307` – when the ring was full in the middle of an E0 or E1
  sequence, TTY waits for the rest, and FS for TTY.
- `kernel/tty.c:79` – a wake-up reads one key, and `key_pressed` is cleared after the
  interrupt is received: keys can stay in the ring until the next one is pressed.
- `kernel/keyboard.c:334` – `kb_ack` waits, with interrupts on, until the data port holds an
  ACK; when the handler has read a key that came after it, TTY waits for ever, and FS with
  it. The ACKs land in the ring, where they are taken for a key being released.
- `kernel/keyboard.c:187` – the right Alt key is entered as the left one: releasing
  either ends both.
- `kernel/console.c:62-64` – a line feed checks for room and then reads the cursor again.
  When `printx` takes the room in between, the cursor is moved past the end of the
  console, by less than a line, and the loop at lines 83-85 never ends: TTY hangs, or the
  kernel does when the next one to print is `printx`. An attempt to prove an earlier
  `ConsoleSound` (at most one cell) showed this; `ConsoleSound` and `EventsServed` now
  say what does hold. Backspaces can then blank cells of the next console, and one
  written by a process at the beginning of a console the cell before it. The models
  suppose that messages of `printl` hold no backspace, as in this repository; with one,
  the cursor could go below the console.
- `fs/read_write.c:98` – `bytes_left` is not clipped as the comments at lines 78-84 say:
  a read past the end returns the rest of the sector and lengthens the file, a write
  past the extent goes on into the next file, by less than a chunk.
- `kernel/hd.c:166` – a request of more than 256 sectors is never answered. So the loop of
  `do_rdwt` has no second turn that ends: a first chunk is 2048 sectors then. Run `disk` has
  no such request; `TransfersAreSound` covers the loop.
- `kernel/proc.c:512` – an interrupt that wakes the caller of `block` while `schedule` looks
  for a process fails the assertions behind it (`sched`, and statement by statement
  `ipc_intr`).
- `fs/read_write.c:74` – any process can write to the directory, and a read of it lengthens it.
- `fs/open.c:46`, `fs/main.c:427` – a full `filp[]`, `f_desc_table[]` or `inode_table[]` is a
  panic of the system, not an error of the caller.

## Fairness

`Sched`, `ForkExit`, `ReadWrite` and `Tty` have liveness properties.

- `Sched`: strong fairness of a clock tick in user mode (the clock does not stop, and
  no process spends all its time in the kernel exactly when the clock ticks); weak
  fairness of the kernel's own steps, which only a failed assertion ends. None of a process:
  it may compute for ever.
- `ForkExit`: weak fairness of MM's steps and of the second half of a stub. Both are
  runnable code that the scheduler gets to, which is what `sched` shows. No process
  has to make a call, or to exit.

- `ReadWrite`: weak fairness of FS, of HD and of the controller, each as a whole: one
  step of it is possible at a time. No poll has to time out, and callers need not call.
- `Tty`: weak fairness of TTY, of FS, of the clock, which ticks for ever, and of the
  keyboard, which sends the rest of what it began. Nobody has to call or to print.

## Proofs

Each module of proofs has an inductive invariant, one lemma per action (or per outcome
of an action) that says the action keeps it, and the theorems at its end. TLC has checked
every inductive invariant on the instance of the run before it was proved. The theorems
hold for every value of the constants that satisfies the named assumptions of the
modules.

`IpcProofs`, for every finite set of processes, every set of drivers and of message types (the pseudo
pids are distinct and are no processes): `TypeCorrect`, `QueuesCorrect`,
`FieldsCorrect`, `NothingMissed`, `InterruptsNotMissed`, `SendersAcyclic`,
`DeadlockLoopCorrect`, which are the invariants of run `ipc`, and `IpcRefinesRendezvous`: `Spec => ImplementsRendezvous`. The
inductive invariant `IInv` is the conjunction of `TypeOK`, `FieldsMatchFlags`,
`QueueIsSenders`, `NoMissedRendezvous`, `NoMissedInterrupt` and `NoSendCycle`. They
need each other: that a delivery leaves nobody behind needs the queue to hold all
senders; that a removal leaves the queue right needs that nobody is in it twice;
that `NoMissedRendezvous` survives a wake-up needs the fields to be reset with the
flags; and that no circle closes needs the invariant itself, since a
chain from the destination that does not meet the caller stays that way when the
caller joins at its end (`ChainAvoidsCaller`: the complement of the chain is closed).
`DeadlockLoopCorrect` says that the loop of `deadlock` ends: the processes it visits are
the closure the model uses, they are distinct until it stops because senders form no
circle, and a finite set has no longer list of distinct members.

`IpcIntrProofs`, for the same constants: `IntrTypeCorrect`, `InterruptsLeaveTableSound`,
`AssertionsOfOthersHold`, and the action property `DeliveryAssertionsHold` (the step over
the assertions that end a delivery never stops the kernel). `IntrInv` says which entry is
half changed at each statement (`HalfDone`), what may be true of it there although
`FieldsMatchFlags` is not, and what an interrupt that falls there can do: release the
process only if it is a driver's (`Woken`). When no call is in progress, it is `IInv` of
`IpcProofs`, whose lemmas about queues and circles are used again.
`UndisturbedCallsImplementIpc` is the refinement `MCSpec => ImplementsIpc` of run
`ipc_intr`: while no interrupt has fallen into a call, the steps of the call map to
stutters and its last one to the whole call of `Ipc`. `TrackInv` says for each statement
what has been changed since the call began, with the history variables of `MCIpcIntr`
that keep the state before the call.

`SendQueueProofs`, for every finite set of processes: `QueueTypeCorrect`,
`QueuesWellFormed` and `QueuesImplementFifo` (`Spec => ImplementsFifo`). `QInv` says that
the links represent a sequence per receiver: its head, the links between neighbours, a null
link at its end, nobody twice, and in it exactly who sends to the receiver. Following the
links then yields that sequence (by a least counterexample on the number of hops), its first
is the sender that RECEIVE ANY takes, the
loop of `msg_send` finds its end, and the loops of `msg_receive` find the predecessor of
the one they take out.

`SchedProofs`, for any table, any number of native processes and any priorities: `SchedTypeCorrect` and `OnlyRunnableRuns`;
together they are inductive.

`ForkExitProofs`, for any number of slots, any memory and any statuses (null is no
request): `ForkExitTypeCorrect`, `ExitsAreNoticed`, `ParentsAreThere`, `AnswersUnblock`,
`WaitReturnsOwnChild`. `FInv` gives every process one of five shapes (unused, running,
queued, waiting, zombie) unless MM is at work for it, in which case it is owed an answer
(`Shapes`), and says for each position of MM whom it works for (`MMPhase`). The parent of
a process in use is alive, or is the one whose exit MM is at, and has not come to this
child yet (`ParentsSound`); without that exception `NoOrphans` is not inductive.

`FsProofs`, for any sizes of the tables, of a file and of a byte of the map, any finite set
of processes and any names: `FsTypeCorrect`, `DescriptorsCounted`, `OpenFilesHeld`,
`SectorsAreAccounted`, `DirectorySound`. Assumed of the sizes: as on the disk image,
sectors run out before i-nodes. Nothing is assumed of what processes write to the directory.
`FsInv` adds to these that the slots of `inode_table[]` in use hold different i-nodes, that an
i-node with a user exists (`UsersSound`; a slot without one may hold the number of a removed
i-node, when a written entry has named it), that a child which FS has not heard of has the
descriptors of its parent, and that the directory, until it is written to, is sound past its
end, where `search_file` looks and a read may bring entries back. The lemma about the map is `ClearedAreContiguous`: the bits that
`do_unlink` clears byte by byte are the bits of the file.

`DiskProofs`, for any drive, partitions and files: `NoInterruptLeftOver`, and
`PositionsSound`, the part of `TypeOK` of `ReadWrite` that is about the progress of
`do_rdwt`. `DInv` relates, for each place of HD, what the drive has still to do to what HD
waits for, pending interrupt included; `CountFits` says that the count register never
asks for more sectors than HD waits for.
`TransfersAreSound` is the invariant about the bytes. `TInv` says what FS has asked for at
each of its places (`FsAsks`) and at which places HD is with such a request (`HdServes`).
It says that the walk over the extended partitions is at a link of the chain of tables, and
has found the root device once it is behind that device's link (`TablesSound`). And it says
that there is a disk `D`, the one the request in the channel found, such that HD has moved
exactly the first `hd.la` bytes of that request with respect to `D` (`DataSound`), and
do_rdwt() the first `bytes_rw` bytes of the caller's with respect to the disk before the
call (`FsData`, with `Moved` and `Ending`). Two things make it inductive that
`TransferSound` does not show: a sector handed to the drive is not on the disk until its
interrupt comes (`Handed`), and a chunk begins where the bytes moved so far end (`InStep`),
unless the loop is over. What the chain of tables is, is a recursive function; the lemmas
`LinksExist` and `ChainLinks` say that it exists and what its links are.
`LayoutAssumption` is what this needs of the constants, as mkfs() and the partition tables
have it: the root device is a logical partition that its chain reaches, with room for the
super block, and the sector of the inodes comes before the files. Nothing is assumed of
where the files lie with respect to each other, or to the end of the drive.

`TtyProofs`, for any number and size of consoles whose screens have two lines or more, any
keyboard, and any keys, calls and prints: `TtyTypeCorrect`, `ReadersAreKnown`,
`ConsolesAreSound`. `TInv` says where task TTY and FS are with respect to each other,
when a terminal holds a character, and for each place in `out_char` and `scroll_screen`
what is still true of the cursor and the start of the screen although `printx` may have
moved them since they were read. The assumption on the scenarios is that calls and
messages are of the right types and that messages hold no backspace.
`LinesAreDelivered` is the invariant about reads. `LInv` adds to `TInv` what is in the
buffer of a reader at each place of TTY: the edited line or, from the moment a character
is taken until it is stored, the line before it (`LineSound`). It says too that a process
whose read is suspended is in no queue and FS does nothing for it (`QueueSound`,
`FsLeaves`), so that its buffer stays as TTY left it until FS answers (`ResumeSound`).
What `Edited` computes is a recursive function; the lemmas
`LineExists` and `LineUnique` say that a sequence has exactly one line, by a least
counterexample, and `EditedAppend` what one more character does to it.
`ModifiersAreRight` is the invariant about the modifier keys. `KInv` says that there is a
sequence of places in what is typed, one per code in the ring, from the code TTY reads next
to the code that is sent next; that the place of the decoder fits the first of them (`e0`,
`print` and `pause` within an event, everything else between two); and that the modifiers
are right after the events before it. `ScanAssumption` is what this needs of the constants:
the keyboard sends the codes of set 1, and `keymap` has a modifier exactly in the rows and
columns where the keyboard sends it, as `keymap.h` does; that the script releases no
Pause, which has no codes for that, is part of `TtyAssumption`. `AckAssumption` gives
the ACK its one code.

Only model-checked:

- liveness (`NoStarvation`, `MMReturns`, `ForkAnswered`, `RequestAnswered`,
  `EventsServed`), which is out of the prover's reach;
- `TypeOK` of `ReadWrite` as a whole: its range of block numbers is one of the instance, in
  which the sectors behind a file that a chunk may take along are still on the drive. The
  code does not see to that, so it is not assumed; `PositionsSound` is the part that holds
  in general.

Where a proof needs induction over numbers, it is done with a least counterexample
(`NatMin`, `MinNat`, `LeastNat`, `LeastNumber`).

## Not modelled

- The registers that only show something: the cursor and start address of the CRTC; the red
  screen of `panic`. Of the keyboard's lights, only the ACKs are modelled.
- Errors reported by the drive: `hd_status` is stored and never looked at. DEV_CLOSE and
  primary partitions as devices: nobody uses them. `do_lseek`: never called.
- Boot sector, loader, descriptor tables, exception handlers: run once, or stop.
- Formatting and string functions: no state that the properties are about.
- SYS: answers a request with a value and keeps nothing.
- Arguments that no stub produces (a descriptor that is not open, a pid out of range).

## Plan

1. Done: message passing, its interrupts, the scheduler, MM, the tables of FS, files and
   the disk driver, terminals; proofs for all of them, and of the refinements of
   `Rendezvous`, `FifoQueues` and `Ipc`.
2. Left: liveness, and `TypeOK` of `ReadWrite` as a whole, which would need drives as large
   as the files and a buffer behind each.
