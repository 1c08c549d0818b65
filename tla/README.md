# TLA+ models of the xv6 kernel

xv6 is a small Unix for RISC-V multiprocessors. This directory holds TLA+ models of
the parts of its kernel where the order of steps matters, the TLC runs that check
them, and proofs checked by TLAPS. `PROJECT.json` maps each definition to the lines
it models and lists runs, mutants, findings, hazards and theorems.

Run a model with `tlc -config X.cfg M` and check proofs with `tlapm M.tla`. The
community modules (SequencesExt, FiniteSetsExt, Functions) must be on the path.

## Parts of the system

| Part | Source | Module | Status |
|---|---|---|---|
| write-ahead log | `kernel/log.c` | `Log`, abstract `AtomicDisk` | modelled, proved |
| buffer cache, sleep locks | `kernel/bio.c`, `sleeplock.c` | `Bcache`, abstract `BlockCells` | modelled, proved |
| processes, scheduler | `kernel/proc.c`, `swtch.S` | `ProcTable`; memory in `Vm`, descriptors in `FileTable` | partly |
| traps, interrupts | `kernel/trap.c`, `kernelvec.S`, `trampoline.S`, `plic.c`, `start.c` | inside `ProcTable`, `VirtioDisk`, `Vm`, `Console` | partly |
| pipes | `kernel/pipe.c` | `Pipe`, abstract `Fifo`; `pipealloc()` in `FileTable` | modelled, proved |
| virtio disk driver | `kernel/virtio_disk.c` | `VirtioDisk`, abstract `SyncDisk` | modelled |
| file table | `kernel/file.c` | `FileTable`; read and write in `FileData`, `Pipe` | partly |
| inodes, directories, paths | `kernel/fs.c` | `Inodes` (names), `FileData` (blocks) | partly |
| file system calls | `kernel/sysfile.c` | `Inodes`, `FileTable`, `FileData`, `Vm` | partly |
| virtual memory, page allocator, exec | `kernel/vm.c`, `kalloc.c`, `exec.c` | `Vm`, abstract `UserMemory` | partly |
| console, uart, kernel printf | `kernel/console.c`, `uart.c`, `printf.c` | `Console`, abstract `Terminal` | modelled |
| system call dispatch, `sbrk()`, `pause()` | `kernel/syscall.c`, `sysproc.c` | `sbrk()` and `exit()` in `Vm` | partly |
| spin locks | `kernel/spinlock.c` | taken as mutual exclusion | not modelled |
| boot, string | `kernel/main.c`, `string.c` | | not modelled: sequential |
| init | `user/init.c` | entry 1 of `ProcTable`, first process of `FileTable` | partly |
| shell | `user/sh.c` | `Shell` | modelled |
| user library | `user/ulib.c`, `umalloc.c`, `printf.c` | | not modelled: sequential |
| user programs and tests | `user/*.c` | | not modelled: clients of the kernel |
| mkfs | `mkfs/mkfs.c` | initial states of `FileData`, `Inodes` | partly |

The layers stack: system calls run file system operations between `begin_op()` and
`end_op()`; the log keeps their blocks in the buffer cache and writes them in
groups; the cache reads and writes through the virtio driver; every wait is a
`sleep()` of the process layer. Each module takes the layer below at the level that
layer's own abstract specification promises: `Log` sees a cache with one locked cell
per block (`BlockCells`), the cache sees a disk whose reads and writes are
synchronous (`SyncDisk`), `Inodes` sees operations that are atomic across crashes
(`AtomicDisk`), `Shell` sees pipes that end when their writers have gone (`Pipe`), and
every module sees `sleep()` release its lock and put the process to sleep in one
step, which `p->lock` guarantees. `FileData` shows what `Log` assumes of its callers:
that a chunk of `filewrite()` logs fewer blocks than it reserves (the other operations
are not counted).

## Conventions

A critical section of a spin lock that takes no other lock is one action. Where the
code gives up a lock, the action ends. `pc` says where a process is. Panics are a
branch of the action that contains them, to a `pc` or flag after which that process or
the system stops. `NoPanic` excludes them in `log`; `vm` says when they are reached; in `virtio`, `inodes` and
`filedata` nothing runs after a panic, so TLC's deadlock check excludes them; `bcache`
says when its one panic is reached. `TypeOK` states the types of a module's variables;
for `Log`, `Bcache` and `Pipe` it is proved, and the cfgs do not list it.
A definition whose name ends in `Mutant`, or whose comment begins with `Mutant:`, is
a plausible mistake in the definition after it; no specification uses it. `kkill()`
wakes a process whatever it sleeps on, so the modules with a sleep have a `KillWake` or `Kill` action: the loops around
`sleep()` must stand spurious wakeups.

## The modules

### Log

State: the disk (`home` blocks, `logArea`, on-disk header `head`), `struct log`
(`lh`, `outstanding`, `committing`), the cached contents and log pins of each block
(`buf`, `pin`), and each process's position, held buffer, written blocks and loop
index. `BeginOp`, `LogWrite`, `EndOp`, `Commit`, `WriteLog`, `WriteHead`,
`InstallTrans`, `ClearLog`, `FinishCommit` and `ReadHead` are the functions of
`log.c`, split at every disk write, so a `Crash` falls between any two of them,
recovery included. `ModifyBuf` and `Brelse` are what callers do around `log_write()`.
`Bread` and `Evict` are the cache filling and recycling an unpinned buffer.
A header write is atomic: the header fits in one 1024-byte block and `SyncDisk`
writes whole blocks.

### Bcache

State: identity, `valid`, data, reference count and sleep lock of each buffer, the
LRU list, the set of pinned buffers, and each process's position. `Bget` runs up to
the release of `bcache.lock`; the sleep lock is acquired in a later `AcquireSleep`;
`ReleaseSleep` and the rest of `Brelse` are apart for the same reason. `Bpin` and
`Bunpin` are called as `log.c` does: pin under the buffer's lock, unpin a buffer
that is pinned. `MAXPIN` bounds the pins. A panicking process stops.

### ProcTable

State: `state`, `parent`, `chan`, `killed` of each table entry, the holders of
`p->lock` and `wait_lock`, what each CPU runs and whether it is switching, and the
local variables of the loops. `p->lock` is owned by a CPU, as it is handed from a
process to `scheduler()` and back. `wakeup()` and the scan of `kwait()` take one
entry at a time. Locals are reset when dead. User code is any sequence of fork,
exit, wait and kill; init never exits and is never killed (the kernel panics if it
is). The channels are those of `wait()`.

### Pipe

State: `struct pipe` with counters modulo `UINT`, the holder of `pi->lock`, what each
process has left to transfer, open descriptors, `killed`. Each loop iteration of
`pipewrite()` and `piperead()` is a step under the lock. `copyin()` and `copyout()`
may fail. A process owns one descriptor, so descriptors shared by `dup` or fork are
processes of the same end. A byte that was read, or never written, is `NoByte`.

### VirtioDisk

State: descriptors, the two rings with indices modulo `UINT16`, `info`, `b->disk`,
callers (one per buffer, since the cache locks it), the lock, the interrupt. The
driver's code holds `vdisk_lock` between its sleeps. The device (external) takes
requests in order and completes them in any order, at any moment, also while the
handler runs. `ops[i]` and ring entries already consumed are set to a fixed value,
since nobody reads them again.

### Inodes

State: the dinodes as the cache shows them and as the last commit left them, the
inode table (`inum`, `ref`, `valid`, `type`, `nlink`), the inode locks, and each
process's `cwd`, open file and list of tasks. A task is one critical section; the
system calls are lists of tasks (`Program`), and an error replaces what is left by
the error path (`bad`). `Namex` is one iteration of the loop of `namex()`. `Iput`,
`Itrunc`, `Invalidate` and `DropRef` are the sections of an `iput()` that frees its
inode. Directories are sequences of entries, with the free ones that `unlink()` leaves.
Any append to a directory may fail, as when the disk is full. A `Crash` brings back
the committed dinodes, and `Ireclaim` then runs over them, one inode at a time, before
any process runs. `end_op()` commits when it is the last; `MAXGROUP` bounds the
operations of one transaction. `InodesAssumption` makes the table large enough for every
inode, so `iget()` does not run out.

### FileData

State: the bitmap, the cells of every block, each inode's `addrs` and `size`, the
inode locks, file offsets, and each process's position in `filewrite()` and
`writei()`. A cell of an indirect block is a block number, so a block that was not
cleared shows. `WriteStep` is one iteration of the loop of `writei()`, with `bmap()` and
the allocations in it; it records the blocks that the transaction has logged. `Init` is
computed by `Mkfs`, a translation of the part of `mkfs` that lays out files.

### FileTable

State: `ref` and contents of every file, descriptors, the open ends of each pipe, the
references files have to an inode, and what each process holds in its locals between
two sections under `ftable.lock`. The two halves of `fileclose()` are two steps
(`Fileclose`, `FilecloseObject`); the error paths of `sys_open()`, `sys_pipe()` and
`pipealloc()` close what they hold one after the other.

### Vm

State: the free list, the bytes of every page, and page table, size and trapframe of
each process. A page table is a tree: `node` maps page-table pages to physical pages,
`leaf` maps virtual pages to PTEs. The functions of `vm.c`, `kalloc.c` and `exec.c` are
operators on a record, the machine one kernel thread works on. Page tables are
private; the free list is shared, but every operation gives up at its first `kalloc()`
that fails. So an operation is one step with a budget of successful `kalloc()` calls,
chosen freely, which covers everything other CPUs may do to the free list meanwhile.
`UserMemory` says what processes see: an array of bytes each, copied by fork, replaced
by exec, changed by nobody else.

Sizes and addresses are words of `WORD` bits, and as in the code nothing keeps `p->sz`
below `TRAPFRAME` or `MAXVA`. A panic is recorded with its reason and stops the system;
a panicking operation changes nothing else. `Userret` also counts a return to user space
without a trapframe as one, `Forkret` is the first process's `exec` of `/init`, with its
panic. `past` is a history variable: the processes whose size has passed `TRAPFRAME`
since they got their page table. `PanicsOnlyPastTrapframe` and `UserMemory` promise
nothing about those. The current size would not do: `PGROUNDUP` of a size in the last
page of the word is 0, so a shrink from there unmaps nothing and leaves pages mapped
past the new size. `PagesOwnedOnce` holds for all of them up to the panic.

### Console

State: `cons` with indices modulo `UINT`, the locks, the UART (received characters,
transmit FIFO, pending interrupt), `tx_busy`, and the position of the handler, of a
thread in `printf()`, of readers and of writers. `uartputc_sync()` tests and writes the
UART in two steps without `tx_lock`. The PLIC lets one UART interrupt run at a time.
The UART (external) raises a transmit interrupt when its FIFO has become empty.
`Terminal` is the abstract line discipline: a line being edited and a queue of
complete lines.

### Shell

The parser is a set of recursive operators over tokens, one per function of `sh.c`.
`runcmd()` is a list of instructions, one system call each; a process has its
descriptors, its children and the place in the command tree it runs. `fork()`, `pipe()`
and `open()` fail when the tables are full, and `open()` and `exec()` fail for missing
files. The grammar that `ParserIsGrammar` compares the parser with (`LineTrees` and the
operators below it) does not follow the parser: a line is cut at its operators in every
way, and the trees of the parts are put together.

## Runs

| Run | Bounds | Distinct states | Shows |
|---|---|---|---|
| `log` | 3 processes, 4 blocks, 2 values, `MAXOPBLOCKS` 2, log of 4 | 137,000 | space, pins and wakers under group commit and crashes; refinement of `AtomicDisk`; durability when `end_op()` returns |
| `bcache` | 3 processes, 2 buffers, 3 blocks, 2 values, 1 pin | 22,000 | refinement of `BlockCells`, exact counts, sleep lock wakeups, when buffers run out |
| `proc` | 3 entries, 2 CPUs | 29,000 | stacks, exits; no deadlock; init reaps |
| `pipe` | 1 reader, 2 writers, 2 bytes, size 2, counters modulo 4 | 148,000 | refinement of `Fifo`, wakeups, no use after free, closing an end unblocks the other |
| `virtio` | 3 callers, 2 values, 8 descriptors, indices modulo 8 | 81,000 | no panic, no wakeup or request lost, refinement of `SyncDisk` |
| `inodes` | 2 processes, 3 inodes, 2 names, nine calls, 2 operations a transaction | 458,000 | references, coherence of the table, lock order, names on disk, orphans reclaimed after crashes |
| `inode_orphan` | the same | violated | finding about `iput()` |
| `filedata` | 2 processes, 6 blocks of 2 cells, 1 direct and 2 indirect blocks, write of 5 | 107,000 | bitmap, holes, reservation, no panic |
| `filetable` | 2 processes, 4 files, 2 descriptors, 1 pipe | 738,000 | exact counts of files and pipe ends |
| `vm` | 2 processes, 17 pages of 4 bytes, 2 levels of 5, words of 7 bits, every budget up to 9 | 2,500 | no leak, no sharing, no panic below `TRAPFRAME`; refinement of `UserMemory` |
| `console` | ring of 2, indices modulo 4, four workloads | 287,000 | refinement of `Terminal`, wakeups of readers and writers |
| `shell` | all lines of up to 3 tokens, eleven longer ones, two scripts; 6 processes, 2 pipes | 179,000 | parser against grammar, descriptors, order, return to the prompt |

Why these bounds are enough to be interesting: the log holds two reservations and
three processes compete for them, so one sleeps; three blocks in two buffers force
recycling; two CPUs and init, a child and a grandchild give every parent, child and
orphan race; the pipe's buffer and counters both wrap around; eight
descriptors, as in the code, hold two requests, which the device may reorder, so the
third caller gets two descriptors, gives them back and waits, and ring indices wrap
around. In `inodes` one process builds, links
and opens what another unlinks and enters, with a directory inside the root, and every
inode can be allocated twice. In `filedata` the long write crosses from the direct to the
indirect block in three transactions and the disk fills in each of them. In `filetable` table,
descriptors and pipes all run out. In `vm` the budgets reach past the longest
operation, a program has two segments, sizes end inside a page, lazy pages are met
by every operation, and two lazy `sbrk()` calls go past `TRAPFRAME`, with
an eager one between them past `MAXVA`. The console's ring fills inside a line; its workloads split
editing, competing readers, and output, since input and output meet only in the
handler. The shell's longer lines nest every operator in another.

Symmetry is used only where no liveness is checked, over sets that the model treats
alike. Three runs have a VIEW. `Live` (`log`) leaves out values that no step reads
before it writes them. `UpToRotation` (`virtio`) turns both rings so that they start
at the same place; `RingsTurn`, an ASSUME, says that the index modulus is the ring size, so
turning is a symmetry. `UpToPageNames` (`vm`) replaces a physical page by its
contents, since the free list is a set and nothing else depends on page numbers.

Runs without deadlock checking: `pipe` (everybody may have closed their end), `vm`
(after the calls it is given), `console` (all keys typed, all bytes sent), `shell` (the
script is over).

## Fairness

* `Pipe`: strong fairness of a process's kernel steps, since its lock is free again
  and again and a spinning CPU eventually gets it.
* `ProcTable`: strong fairness of being scheduled (the loop of `scheduler()` visits
  every entry), of kernel steps (spin locks), and of the timer interrupt, which makes
  user code yield, or exit once it is killed. Init calls `wait()` for ever, as
  `user/init.c` does; once it spins for `wait_lock` interrupts are off, so it does not
  yield. `ZombiesReaped` says that init keeps reaping, not that a given zombie is reaped:
  `kwait()` scans from the first entry every time, so a zombie in a late entry can be
  overtaken for ever.
* `Console`: weak fairness of the UART's transmitter, of the interrupt handler, and of
  readers, writers and `printf()` that have begun a call. Nothing is assumed of typing.
* `Shell`: weak fairness of the whole system: some process that can run runs. Every
  program is taken to end once its input does.

## Finding

`inode_orphan`: `iput()` tests `ref` once. After it has freed an inode it gives up its
reference without a further test. In between, a `create()` may allocate the same inode
number and find the same table entry. When that `create()` fails, its own `iput()` sees
`ref == 2` and does not free the inode, and the first `iput()` then drops the last
reference. The inode stays allocated, with no link and no holder, until `ireclaim()`
at the next boot. `OrphansReclaimed` shows that the boot does free it.

## Known deviations

Four properties are stated in the modules but the code does not keep them, so no run
checks them. Add one to the cfg as an INVARIANT to see TLC's counterexample.

* `KilledNotAsleep` (`ProcTable.cfg`): a kill between the `killed()` test of `kwait()` and
  its `sleep()` leaves the killed process asleep until a child exits.
* `UnusedNotKilled` (`ProcTable.cfg`): `kill(0)` marks an unused table entry, whose next
  process is born killed.
* `ReaderSleepsOnEmpty` of `Pipe` (`Pipe.cfg`): a writer killed after storing bytes
  returns without waking readers. `NoLostWakeup` states the wakeup property with this
  exception: it says nothing of sleeping readers once a writer is killed and the write
  end is open.
* `LinkCountExact` (`Inodes.cfg`): `create()` and `link()` do not look whether their
  directory was removed between `nameiparent()` and `ilock()`; the new name vanishes with
  the directory, and its inode keeps a link that no name has.

A fifth has no property of its own, since the panics in `Vm` show it. Lazy `sbrk()`
(`sysproc.c:58`) tests only that the size does not overflow, and `growproc()` tests
nothing. A process can have a size past `TRAPFRAME` or `MAXVA`. Then a fault or a `copyin()`
in the pages past `MAXVA`, and the walk over all pages of `fork()`, `wait()` and `exec()`,
end in the panic of `walk()`. Copying the trapframe in `fork()` and freeing the trampoline
in a shrinking `sbrk()` end in those of `mappages()` and `kfree()`. A shrink from a size
between the two frees the trapframe in use. `PanicsOnlyPastTrapframe` says
that these are the only panics besides those for an init that fails to start or exits. To see one, check
`panic.why # "walk"`.

## Proofs

Three components are proved for every value of their constants. For each, a module
`...Inv` has the inductive invariant `IInv`, `...Proofs` shows with one lemma per action
that it is preserved and derives the safety properties, and `...Refinement` shows that
each step is a step of the abstract specification or leaves its variables alone. The
MC modules extend the `...Inv` modules, so TLC can check `IInv` too.

### Log

`LogProofs` proves `Spec => []IInv` for every set of processes and blocks and all
sizes, assuming `Sized` (`OPBLOCKS < MAXOPBLOCKS <= LOGBLOCKS`: an operation logs
fewer blocks than `begin_op()` reserves). The inequality must be strict: `log_write()`
tests for a full log before it looks whether the block is in it already, so an
operation that has used up its reservation panics when it writes one of its own
blocks again. TLC finds this at once with `OPBLOCKS = MAXOPBLOCKS` in `Log.cfg`.

`IInv`, in `LogInv`, adds to the checked invariants what they need to be inductive: who may be where (`BootInv`, `CountInv`, `HoldInv`), that the header lists
the blocks of running operations once (`HeaderInv`), that the blocks operations may
still add fit (`SpaceInv`, counted as a set of slots), and how log, cache and disk
agree at each point of a commit (`HeadInv`, `CopyInv`, `CacheInv`). One lemma per action
shows that the action preserves it: `LogCacheProofs` has the actions on buffers and
operations, `LogCommitProofs` those of commit and recovery. From it follow type correctness, absence of panics, mutual
exclusion of commits and operations, balanced pins, and that a sleeper has a waker.

`LogRefinement` proves, from `IInv`, that each step of the log is a step of
`AtomicDisk` or changes nothing in it, hence that `Spec` implements it across crashes
(`AtomicAcrossCrashes`), and the action property `DurableAtReturn`. The mapping sends
the durable contents to what recovery would leave on the disk.

### Bcache

The assumptions: processes and buffers are finite, null values are none of them. `IInv` adds to the
exact reference counts that a block is in at most one buffer (`OneBufferPerBlock`), that a
process between `bget()` and `brelse()` has the buffer of the block it asked for
(`MineInv`), that a held sleep lock names the process inside it (`LockInv`), and that only a
pinned buffer, or one its holder is changing, differs from the disk (`DataInv`). The last
is why `bget()` may recycle a buffer without references and write nothing back, and
with the exact counts it is the heart of `CacheIsCells`. `BcacheProofs` derives
`RefcntExact`, `WaiterHasHolder` and `PanicsOnlyWhenFull`.

### Pipe

`SizeAssumption` says that `PIPESIZE` divides `UINT` and is smaller; 512 and 2^32
satisfy it. The proof needs both: the slot of a counter that wraps around to 0 must be
the next one, and a full pipe must differ from an empty one. `PipeProofs` first proves
the arithmetic of remainders, then that the tests of `pipewrite()` and `piperead()` count
the bytes (`FullEmpty`). `IInv` says who holds `pi->lock` (`LockInv`), that an end is closed
once and after its last descriptor (`EndInv`), and what a sleeper is owed by the process
inside (`SleepInv`). `NoLostWakeup` and `FreedUnused` follow. `PipeRefinement` shows that a
store appends to the queue and a copy takes its head (`PutIsAppend`, `GetIsTail`), hence
`PipeIsFifo`, which TLC can check only for a buffer of two bytes and counters of two bits.

### Only model-checked

Liveness (`ZombiesReaped`, `PeerCloseUnblocks`, `WriterProceeds`, `ShellReturns`) stays with TLC: it is outside what the prover handles. So does the
shell's parser, which is recursive. `ProcTable`, `VirtioDisk`, `Inodes`, `FileData`, `FileTable`,
`Vm`, `Console` and `Shell` are model-checked only.

## Not modelled

* Spin locks (`spinlock.c`) are taken as mutual exclusion. `push_off()` and `pop_off()`
  count per CPU and no model reads the counter; where interrupts matter
  (`ProcTable`, `Console`) the guards say so.
* Ticks and `pause()`: a counter and a wakeup, with the pattern that `Bcache` and
  `Console` check.
* The kernel's own page table, the trap vectors and register saving: straight-line
  code that runs once or is below the level of the models.
* `copyinstr()` and the fetching of strings: a string in a lazily allocated page is
  refused until the page is touched.
* `stati()`, `filestat()`, the superblock, devices other than the console.
* `nulterminate()` and the lexer of the shell: they work on characters; the model's
  lines are tokens.
* The rounding of the root directory by `mkfs` adds an unmapped block when the
  directory already ends at a block boundary; the instance uses one that does not.
* User programs, `umalloc.c`, `ulib.c` and user `printf.c`: sequential code.
