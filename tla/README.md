# Verification of the operating systems assignments

This directory holds TLA+ specifications of the programs in `src/`, the TLC
configurations that check them, and TLAPS proofs about some of them. Paths
below are relative to the repository; `Offline-02` .. `Offline-05` stand for
the assignment directories with those endings.

## 1. The system

The repository is a set of independent programs over pthreads (Offline-04) and
xv6, a small Unix kernel with its user programs, in two source trees and a patch.

| Part | State | Operations | What makes it hard |
|---|---|---|---|
| zemaphore (Offline-04) | counter, mutex, condition variable | `zem_init`, `zem_up`, `zem_down` | signals that reach nobody, threads that barge in, spurious wakeups |
| master-worker | bounded buffer, item counters | producer and consumer loops | loop conditions read without the mutex, termination with threads asleep |
| read-write locks | holders and waiters, two condition variables | `ReaderLock`, `ReaderUnlock`, `WriterLock`, `WriterUnlock` | which side an unlock wakes up, counters that lag behind |
| barber shop, twice | chairs, waiting, coming | barber, customer | a wait outside a loop, an unlocked test to go home |
| toggle ring | one zemaphore per thread | `justprint`, `main` | initialisation racing threads that already run |
| spin locks (xv6) | lock word, interrupt flag and nesting per CPU | `acquire`, `release`, `sched`, traps | interrupts between any two instructions, threads that change CPU |
| process table (Offline-02/03) | slots, parents, pids, `killed` | `fork`, `exit`, `wait`, `kill`, `sleep`, `wakeup` | two kinds of locks, kill at any moment, slots that are reused |
| lottery scheduler (Offline-03) | tickets, process states | `scheduler`, `settickets`, `fork` | totals added up slot by slot, a lock released between draw and dispatch |
| buffer cache, sleep locks, disk driver | buffers, LRU list, descriptors, rings | `bread`, `bwrite`, `brelse`, `virtio_disk_rw`, `virtio_disk_intr` | three locks, a device that completes in any order, few descriptors |
| log | header, log blocks, cache, home blocks | `begin_op`, `log_write`, `end_op`, `recover_from_log` | crashes between any two writes, also during recovery |
| inodes, directories, file system calls | disk, inode table, file table | `iget`, `iput`, `writei`, `namex`, all of `sysfile.c` | locks let go of in the middle of a call, full tables, disks and directories |
| pipe | ring, two ends | `piperead`, `pipewrite`, `pipeclose` | wrap-around, sleepers on both sides, kill |
| console, uart | input and transmit ring | `consoleread`, `consolewrite`, `consoleintr`, `uartstart` | rings shared with interrupt handlers, line editing, wrap-around |
| clock | `ticks` | `sys_sleep`, `clockintr` | wrap-around while processes sleep |
| virtual memory, `exec` | page tables, free list | `uvmalloc`, `uvmcopy`, `copyin`, `exec`, `sbrk` | every allocation may fail half way |
| copy-on-write fork (Offline-05) | page tables, reference counts | `uvmcopy`, `cowalloc`, `kfree`, `copyout` | a count read without its lock, forks that fail half way |
| user-level allocator | circular free list | `malloc`, `free`, `morecore` | joining neighbours, wrap-around of the list |
| shell, utilities, user tests | | `sh.c`, `usertests.c`, `grind.c`, ... | the system calls in the orders real programs use them |

The zemaphore is used by the second barber shop and the toggle ring. In xv6
user programs call the file and memory system calls; these go through the log,
the buffer cache and the disk driver; everything that waits uses `sleep` and
`wakeup` of the process table, which the scheduler runs on top of spin locks.
The two xv6 trees differ in `proc.c`, `kalloc.c`, `sysproc.c`, the system call
tables and their headers, and in the test programs of the assignments. `ProcTable`, `Lottery`, `Log` and `Pipe` are mapped to the Offline-03
tree, the other xv6 modules to Offline-02; the files they share are the same.

## 2. Modules

| Module | Models | State and actions |
|---|---|---|
| `Semaphore` | what a zemaphore promises | `value`; `Down`, `Up` in one step each |
| `Zemaphore` | `zemaphore.c` | `value`, `lock`, program counters; acquiring the mutex, waiting, taking, signalling, spurious wakeups |
| `MasterWorker` | `master-worker.c` | counters and buffer; one action per way through a critical section, the unlocked loop tests as steps of their own |
| `RWLock`, `RWLockReaderPref`, `RWLockWriterPref` | `rwlock-*.cpp` | the four counters of the struct; what the locks share, and what each adds |
| `BarberPthread`, `BarberZem` | `barbershop_*.c` | the shop's counters; each unlocked read and each zemaphore call is a step |
| `SyncPrograms` | the programs above | one of them, chosen at the start |
| `Toggle` | `test-toggle.c` | zemaphore values, the main thread's progress, the ring |
| `ProcTable` | `proc.c` without the scheduler | slots with state, pid, parent, `killed`; `wait_lock` held over steps, each critical section of `fork` a step |
| `Lottery` | `scheduler()` and the tickets | per CPU the loop it is in, its index and sum; one step per slot visited |
| `Pipe` | `pipe.c` | the ring with wrapping counters, `pi->lock` explicit, one step per loop iteration |
| `AtomicDisk` | what the log promises | `durable` and `current` contents; commit and crash in one step each |
| `Log` | `log.c` | memory and disk apart; each block write is a step, `Crash` is always possible |
| `BlockCache` | `bio.c`, `sleeplock.c`, `virtio_disk.c` | buffers, LRU list, descriptors and rings; processes that look, write, log and install as `log.c` and `fs.c` do; the device; the interrupt handler |
| `Console` | `console.c`, `uart.c` | both rings and both locks, readers, writers, the handler, the device |
| `Clock` | `sys_sleep`, `clockintr` | a tick counter that wraps around |
| `Spinlock` | `spinlock.c`, and `sched`, `sleep`, `wakeup`, `yield`, `kerneltrap` on top | per CPU the thread it runs, `noff`, `intena`, the interrupt flag; per thread the steps it has left to do |
| `Drivers` | the five above | one of them, chosen at the start |
| `FileSystem` | `fs.c` below path names, `mkfs.c` | operators on the record of disk and inode table |
| `Files` | `sysfile.c`, `file.c`, path names and `iput` of `fs.c`, pipes and processes as far as files see them | per process what is left of its program and of the system call it is in |
| `Programs` | the notation of user programs | calls with the result they insist on, and control constructs |
| `Utilities`, `UserTests`, `Shell` | `user/*.c`, `usertests.c`, `sh.c` | programs in that notation |
| `Userland` | `Files` with one of the programs on it | |
| `Vm` | `vm.c`, `kalloc.c` | operators on memory and page tables |
| `UserMemory` | `fork`, `exec`, `sbrk`, `exit`, `wait`, `pipe`, `trace`, `sysinfo`, copies to and from user memory | per process its page table, size and program |
| `MemoryTests` | the memory tests of `usertests.c`, `sysinfotest.c`, `trace.c` | programs |
| `Umalloc` | `umalloc.c` | headers, `freep`, the break |
| `PrivateMemory` | what fork promises | one memory per process; write, fork and exit in one step each |
| `Cow` | `1805112.patch` of Offline-05 | page tables, reference counts, frames; one step per page in the loops, `cowalloc` in several |
| `MemorySystem` | `MemoryTests`, `Cow` or `Umalloc` | one of them, chosen at the start |
| `SyncProofs`, `KernelProofs`, `ProcTableProofs`, `LogProofs`, `DriversProofs`, `CowForkProofs`, `CowFaultProofs`, `CowProofs` | | theorems, see section 6 |

Conventions. A critical section is one step, unless something that does not
take the lock (`kill`, an unlocked read, a device) can come in between: then the
lock is a variable. A `panic` of the code is recorded in the state or excluded
by a guard, and `NoPanic` says that it is not reached. An operator whose name
and comment describe a slip of the code (`FullLate`, `Recycled_KeepsValid`, ...)
is not part of the specification: it stands for a plausible mistake, and a
property is known to fail when it replaces the definition that follows it.
Definitions that model code are listed with their source lines in `PROJECT.json`.

Composition. `Files`, `UserMemory` and `BlockCache` each join the components
that interact. `SyncPrograms`, `Drivers` and `MemorySystem` put components side
by side that do not: a variable that Init chooses and no step changes says
which one runs, and the others stay as they are. The components that proofs are
about (`Log` and `Clock` in `Drivers`, `Cow` in `MemorySystem`) are extended, so that a
run checks the very definitions the theorems state; the others are instantiated. `Spinlock` justifies the
critical sections the others take as one step, `BlockCache` what `Log` takes for
granted of the cache, and `Log` the transactions that `Files` takes as atomic:
`Files` counts the blocks a call hands to the log and shows that they are fewer
than `begin_op` reserves (`OpFits`), which is what `NoPanic` assumes of the
operations of `Log`.

Three specifications are shown to implement an abstract one, by TLC and by proof: `Zemaphore`
implements `Semaphore` (the same `value`), `Log` implements `AtomicDisk`
(`durable` is what recovery would make of the disk now: a block listed in the
header is taken from the log) and `Cow` implements `PrivateMemory` (a process's
memory is what its page table leads to; a child has one once fork returns).

User programs. A test of `usertests.c` is a sequence of system calls, each with
the result the test insists on; loops are cut to a few turns, and sizes are
scaled to blocks of four cells, pages of eight bytes and tables of a few
entries, such that the limit a test is after (the indirect block, the last
inode, the end of the disk, the last page) is still reached. Three programs are not the repository's: `compete`, two processes that fork, grow
and exec when memory is short, and `badcalls` and `refused`, calls that the
memory and the file code must turn down (images and argument lists that `exec`
refuses, a `wait` that cannot store the status, a device without a driver,
names that are too long or taken). The shell's parser
is translated function by function and run on lines with redirections, pipes,
blocks, background commands and a syntax error; a line is the sequence of its
words and symbols, so that of `gettoken` the kinds of token are left and of
`whitespace` nothing.

## 3. Runs that pass

| Run | Bounds | Shows |
|---|---|---|
| `zemaphore` | 4 threads: two take, one gives, one does both | no lost wakeup (`NoLostSignal`), refinement of `Semaphore` |
| `sync_programs` | 2 masters, 3 workers, 4 items, 2 slots; 3 readers and 3 writers on either lock; 4 customers, 2 chairs in either shop | items consumed once (`ExactlyOnce`), no deadlock (`SomeoneRuns`), exclusion, no lost wakeup, no reader overtakes a waiting writer (`PrefersWriters`), everybody who takes a chair is served once, nobody is left behind, every program ends |
| `drivers` | log: 2 processes, 3 blocks, a log of 4, crashes at any time; cache: 2 processes, 3 blocks, 2 buffers, 4 descriptors; console: 2 readers, 2 writers, rings of 2 and 2, indices modulo 4; clock: 2 sleepers, ticks modulo 8; spin locks: 2 CPUs, 2 threads, the tick lock | no panic, no sleeper that nobody will wake up, atomic and durable transactions, a locked buffer holds what was last stored, console input is read and output reaches the device in order, sleeps of the right length, interrupts off under a lock and restored after it |
| `pipe` | 2 readers, 2 writers, a ring of 2, counters modulo 4, one of each side may be killed | FIFO across wrap-around, no use after free, sleepers are woken up for what has happened |
| `lottery` | 1 CPU with 3 slots and 2 tickets, or 2 CPUs with 2 processes and a ticket each | a process runs on one CPU only; with one CPU nobody starves |
| `proc_table` | 4 slots, pids up to 5, kills of pids 2 and 3 | parents and kill victims are the right processes, zombies are noticed, no slot is freed under a CPU, init reaps orphans |
| `memory` | 60 pages of 8 bytes, tables of 4 entries, 6 processes; copy-on-write: 3 processes, 1 text and 1 data page, 4 frames; heap: 14 units | the memory tests pass, no panic, no page lost or used twice, `p->sz` is what is mapped; exact reference counts and private memories; the heap is tiled by free and used blocks, neighbours joined |
| `files` | 24 blocks of 4 cells, 14 inodes, 7 table entries, 10 open files, 7 processes; 41 tests (`createdelete` in two sizes), 5 shell sessions, 10 runs of `stressfs`, `zombie`, `refused`, `ls` and `grind` | the tests pass in every interleaving, no panic, no operation reaches its reservation, reference counts exact, one coherent table entry per inode, a consistent disk between transactions |

Why the bounds are enough. The threads are alike, so the cases are: nobody, one
and several threads on each side, one of them asleep, one woken, one barging
in; two or three of a kind give all of these at once. The buffer, the rings and
the chairs are smaller than what is moved through them, so full and empty both
happen. Counters that wrap around do so within one run: as many bytes pass through
the pipe as its counters have values, the console's input indices start one before the end,
and the tick counter starts anywhere. The log is small
enough for `begin_op` to wait for space, and a reservation that is off by one
fills it. Three blocks for two buffers make every miss recycle one, and four descriptors are
enough for one request only, so that a second process waits for them. Two CPUs
and two threads let a thread give up one CPU and go on on the other while
both take interrupts. Three processes let one fork, one fault and one exit on
the same frame at once, and four frames run out. 60 pages run out at each
kind of allocation of `fork`, `exec` and `sbrk`: the trapframe, the root and the inner page
tables, the pages of `uvmalloc` and of `uvmcopy`, the arguments of `exec`. Only the
page of `pipe` is never the one that is missing. The disk is large enough for the tests and small enough for
`diskfull` and `outofinodes`. Bounds that only keep a model finite are named in
the modules: `MaxPid`, `MaxTickets`, `MaxProcs`, `MaxAsked`, `MaxDebt`,
`NWrites`, `OpBlocks`, `MaxKeys`, `NReads`, `WriteSize`, `MaxCore`, `Punctual`,
and the number of turns of the tests' loops. `CHECK_DEADLOCK FALSE` is used
where the system may stop: every process of `Cow` may exit, a heap may be
exhausted, the last test ends, and the ring of `Toggle` stops when its turn is lost.

Some properties hold under a condition that is part of their statement or of
the constants, because the code does not keep them beyond it:

- `HaircutsServed` (pthread shop) says that who got a haircut was served only for
  waits that return when signalled: a customer does not test why
  `pthread_cond_wait` returned. With spurious wakeups it says that the customer
  is served once all the same, perhaps later.
- `chair_count` is at least 1: with no chairs every customer leaves without a
  signal and the barber stays blocked with nobody to come.
- `NoPanic` (log) needs operations that write fewer than `MAXOPBLOCKS` blocks
  (`OpBlocks < MAXOPBLOCKS`): `mkfs` counts the header in the log's `LOGSIZE`
  blocks and `begin_op` does not, so operations that write all they reserved
  reach `log_write`'s "too big a transaction". `OpFits` shows that the file
  calls write fewer.
- `NoPanic` (cache) needs the reservations of `begin_op`: `Bread` is called
  while the blocks pinned or in use leave a buffer.
- `SleepersGoOn` (pipe) is about pipes none of whose writers is killed: a killed
  writer returns without waking up the readers of what it has written, and they
  sleep until somebody else writes or the last writer closes.
- `NoStarvation` is about one CPU, which is what the Makefile of Offline-03
  starts. With more, the tickets can change between a CPU's count and its draw.
- `RightProcess` is about kills of pids that were given out: `UNUSED` slots
  have pid 0, and `kill(0)` marks one whose next process is born killed.
- `NobodySleepsForever` (console) is about input and output, not about kill: a
  reader that is killed between its look at `killed` and its `sleep` sleeps until a line is typed.
- `SleepsLongEnough` takes a negative argument of `sleep` for the large unsigned
  number the code compares with, and a process that was woken up to look at
  the clock before it has wrapped around.
- `PrefersWriters` has no counterpart for readers: a writer may overtake readers
  that `WriterUnlock` has woken.
- `ImplementsPrivateMemory` exempts the pages a process may not write, see
  `cow_text` below.
- `DiskConsistent` is checked under the programs of the repository. None of
  them creates a file in a directory that another process is removing:
  `create` does not look at the link count of the directory it has locked, and
  the file would be left without a name.

## 4. Where code and comments disagree

Each of these runs ends with a counterexample to one property; `PROJECT.json`
quotes the line it is about.

| Run | What happens |
|---|---|
| `toggle_lost_turn` | `zem_init` erases the turn a running thread has passed on |
| `lottery_draw` | the draw includes `total` itself and then has no winner: `p` is past the table |
| `cow_text` | `copyout` into a read-only page writes to a frame that others share |
| `inode_leak` | between the two critical sections of `iput` the inode is given out anew, and its next unlink does not free it (`manywrites` of `usertests.c` gets there) |

## 5. Fairness

- Thread programs: weak fairness of each thread, strong where it must win a
  mutex that others keep taking. pthreads mutexes and the host's scheduler
  give this in practice. Spurious wakeups and signals are never fair.
- `Lottery`: the scheduler loop is weakly fair, the timer ends every slice, and
  a draw that has a winner happens again and again (a generator that for ever
  returned `total` would not be random). Nothing is assumed about who wins:
  `NoStarvation` follows because winners run out of tickets. It needs
  `FinitelyManyForks`, since a child starts with fresh tickets.
- `ProcTable`: what is in the kernel goes on, and init calls `wait` in a loop
  (`user/init.c`).
- `Pipe`: a process in the kernel goes on, and gets `pi->lock` if that is free
  again and again. Nobody need ever call `read`, `write` or `close`, so that no
  close of an end makes up for a wakeup that is missing.
- `Drivers`, `MemorySystem` and `Userland` assume none. That nobody waits for ever
  is there a safety property (`NobodySleepsForever`): a sleeper always has
  someone on the way who will wake it up. Deadlock is checked in `Drivers`
  and `Userland`; a program that has ended idles.

## 6. Proofs

| Module | Theorems | For |
|---|---|---|
| `SyncProofs` | zemaphore: `ZemTypeCorrect`, `WakeupSafety`, `RefinesSemaphore` | any finite set of threads, any programs |
| | master-worker: `MWTypeCorrect`, `ExactlyOnceSafety`, `DeadlockFreedom` | any threads (at least one of each), items and slots (at least one) |
| | read-write locks: exclusion, counters and wakeups of both, `WriterPrefPreference` | any finite sets of readers and writers |
| `KernelProofs` | lottery: `OneCPUSafety` | any numbers of CPUs, slots and tickets |
| | pipe: `FIFOSafety`, `EndsInvariant`, `NoUseAfterFreeSafety`, `FreedUntouched` | any processes, any `PIPESIZE`, any range of the counters that it divides |
| `ProcTableProofs` | `TableInvariant`, `PidUniqueness`, `RightProcessSafety`, `ZombieNoticedSafety`, `NoFreeOnStackSafety` | any number of slots and pids |
| `LogProofs` | `LogInvariant`, `QuiescentOnDiskSafety`, `SleeperHasWakerSafety` | any processes, blocks and log size, crashes at any step |
| `DriversProofs` | log: `AtomicDiskRefinement`, `LogNoPanicSafety`; clock: `SleepsLongEnoughSafety` | the same; any width of the tick counter |
| `CowForkProofs`, `CowFaultProofs`, `CowProofs` | `CowInvariant`, `RefcntExactSafety`, `PrivateMemoryRefinement` | any finite sets of processes and pages, any frames and values |

The theorems are about the specification of each component (`LogSpec`, `Spec` of
`Cow`, ...); where a run puts the component beside others (`Drivers`,
`MemorySystem`, `SyncPrograms`) the steps of its part are the same.

*Zemaphore.* `NoLostSignal` counts: while somebody is blocked, the value is at
most the number of threads that are on their way to it. It becomes inductive
with the facts that the mutex has one owner and that a thread inside a call
has a call to make (`ZemIInv`). The steps that matter are a signal, which adds a
woken thread for the unit it adds, and a take, which removes one of each. The
refinement follows step by step with the same invariant; it is the safety half
of `ImplementsSemaphore`.

*Master-worker.* `MWIInv` joins the type, `ExactlyOnce`, the balance between the
counters and the buffer, and `WaitersJustified`. Deadlock freedom is then a
case split: if all threads were blocked or done, the buffer would have to be
both full and empty, or the last item both produced and not.

*Read-write locks.* `Base` says that the four counters are the cardinalities of
the sets of threads they stand for and that a writer excludes; one lemma per
operation shows that both locks preserve it, from a lemma on how a cardinality
changes when one thread moves. Each lock adds what its wakeups need: for the
reader-preference lock, that a reader waits only while a writer holds the lock
and that a free lock with blocked threads has a woken one; for the
writer-preference lock, that a reader waits only while a writer holds the lock or
waits, and that a free lock with waiting writers has a woken writer.

*Lottery.* The winner's lock is free between draw and dispatch, so that two CPUs
may choose the same process. `OneCPU` is inductive with the range of the loop
variables, because dispatch looks again whether the process is `RUNNABLE`.

*Process table.* `IInv` says where a process can be in each state, that a process
about to sleep in `wait` holds `wait_lock`, that the child of a fork is its own
until it is made runnable, that everybody but init has a living parent, and that
neither a parent asleep in `wait` nor one about to be has a zombie. The last is
what `exit`, which wakes up its parent before it becomes a zombie, owes to
`wait_lock`. That pids are unique, and that `killed` marks only processes `kill`
was called for, are invariants on top of it. `RightProcessSafety` assumes
`0 \notin KillPids`, see section 3.

*Pipe.* The ring's contents from `nread` on are, one by one, the bytes written and
not yet read. The arithmetic is that of the remainder: the difference of the two
counters modulo `UINT` is the number of bytes held, also after one of them has
wrapped around, and since `PIPESIZE` divides `UINT` a counter that wraps around
goes on at the right place of the ring. `EndsInv` relates `readopen`,
`writeopen`, the reference counts of the ends and `freed`; no use after free and
the action property that a freed pipe is not touched follow from it.

*Log.* `LogInv` has a part on control (who commits is alone, `outstanding` counts
the operations, recovery is alone, the loops stay within the log, a sleeper has
somebody to wake it up) and one on contents: the header on disk lists what is
being installed and is empty otherwise, what is listed is pinned once, an
unpinned buffer holds what is on disk, the log has copies of what it lists, and
recovery has installed the log up to where it is. A crash is a step like any
other. The refinement maps `durable` to what recovery would make of the disk:
the one step that changes it is the write of the header (`DurableIs`).
`LogNoPanic` needs one more invariant, `Reserved`: what the log lists and what the
running operations may still write fit into it. It adds up sets of pairs of
operation and block, since a sum over the operations is a recursive function.
`LogFits`, its assumption, says that operations write fewer than `MAXOPBLOCKS`
blocks (see section 3) and that a log has room for more than one operation.

*Clock.* While a process sleeps, the ticks that have gone by since it read `ticks0`
are the difference modulo `TICKMAX`, as long as it looks at the clock before
that has wrapped around, which is when the model lets a tick happen.

*Copy-on-write.* `CowInv` has three parts. `Shape` is control: a fork has a child of
its own that does not run yet, and at each page of the loops of `uvmcopy` and
`uvmunmap` exactly the pages before it, or from it on, are mapped. `Sharing` is
why a store may go ahead: a data page is either writable or copy-on-write, a
frame is at the same page number in every page table, a writable frame is in one
page table only, the frame `cowalloc` has allocated is in none, and what it has
copied is still the same when it changes the page table. `Exact` is the count:
`refcnt` of a frame is the number of places that hold it, a place being a page of
a process or its `newpage`, without the mapping `uvmcopy` has made and not yet
counted. Two lemmas say what taking and dropping a reference does to it
(`TakeRef`, `DropRef`), two what counts of 0 and 1 mean (`NoReference`,
`OneReference`): `cowalloc` reads the count without the lock, and a count of 1
means that nobody else has the frame, because a count that is about to be raised
is that of a process which is in `fork` and cannot fault. There is one lemma per
action. `RefcntExact` counts mappings where `Exact` counts places, and is derived
with a bijection. In the refinement a process has a memory while it runs; each
action either changes nobody's memory, or is the write, fork or exit of the
abstract specification. That `NoProc`, which stands there for "no memory", is no
memory is part of `CowAssumption`.

The proofs assume the named `ASSUME`s of the modules, `0 \notin KillPids` and
`LogFits` where the theorem says so, and nothing else. TLC evaluates the
`ASSUME`s in the runs.

## 7. Only model-checked

- Liveness: `ProgramsEnd`, `NoStarvation`, `SleepersGoOn`, `OrphansReaped` and the
  progress half of `ImplementsSemaphore`. Fairness is out of the prover's reach.
- `Files`, `FileSystem`, `Vm`, `UserMemory`, `Umalloc`, `Shell` and the programs on
  them: they are written with recursive operators, which the prover does not
  handle, or instantiate modules that are.
- The barber shops, `Toggle`, `BlockCache`, `Console` and `Spinlock`: nothing is in
  the way of proofs about `HolderSeesLatest`, `InOrder` or `InterruptsRestored`,
  but they have not been done.
- `NoPanic` and `NobodySleepsForever` of `Drivers` are about five components. Their
  parts on the log are proved (`LogNoPanicSafety`, `SleeperHasWakerSafety`), the
  others are checked.

## 8. Not modelled

- Boot code (`start.c`, `main.c`), the trap
  entry and `swtch` in assembly, device registers, the kernel's own page table:
  hardware-level or built once, without a protocol.
- `printf`, string routines and most of the user library; `grep`, which is string
  matching; `kill.c`, `forktest.c`, `testticket.c` and `testprocinfo.c`, whose
  system calls are in the modules; the test `mem` of `usertests.c`, which
  allocates until `malloc` fails (`Umalloc` does that).
- The test drivers of Offline-04 and Offline-05 and the grading script of
  Offline-01: sequential programs around the code that is modelled.
- What the kernel does after a `panic`, power failures below the level of a
  block write, pids beyond `MaxPid`, and the tick statistics of `getpinfo`
  (`ticks_used`, which is not reset when a slot is reused).
- `Log`, `BlockCache` and `Files` are checked one below the other, not in one state
  space: their product is out of TLC's reach. What each takes for granted of
  the one below is stated under Composition in section 2.
