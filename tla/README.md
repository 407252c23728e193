# CS472 in TLA+

This directory is a TLA+ model of the interesting parts of the CS472 course
repository: the xv6 kernel and the changes the projects made to it
(`src/project-2`, `-4`, `-5`), and the threaded compressor of
`src/project-6`. Each definition is translated from the C source;
`PROJECT.json` maps it to the lines it stands for.

Line numbers below are those of `src/project-2/src/` unless a project is named.

## 1. Inventory

The repository holds one kernel several times, once per project. The common part
is modelled from `project-2/src`, and what a project changed from that project.

| Component | State | Operations | Interacts with | Hard part | What makes it correct | Modelled by |
|---|---|---|---|---|---|---|
| Processes: `proc.c`, `trap.c`, `sysproc.c` | `ptable.proc[]`, `nextpid`, `c->proc`, `ticks` | fork, exit, wait, kill, sleep, wakeup, yield, scheduler, timer | memory, console (`&input.r`), every sleeper of the kernel | CPUs and interrupts between any two critical sections; kill racing sleep; fork failing half way | one CPU per running process; no zombie without a live parent; no lost wakeup; no leak; a killed process dies | `Proc` |
| Lottery scheduler: `project-4/xv6-public/proc.c` | `mypstat` (`inuse`, `tickets`), `lfsr` | scheduler, allocproc, fork, wait, settickets, rand | processes | unlocked count of tickets, `int` arithmetic, `rand()`'s range, failing fork | every runnable process can be drawn, and is | `Lottery`, `Rand` |
| Log: `log.c` | `log.lh`, `outstanding`, `committing`, the on-disk log | begin_op, log_write, end_op, commit, recover_from_log | cache below; every call of `fs.c`/`sysfile.c` above | crash between any two writes, space reservation, absorption, waiting | group of calls atomic and durable; log never overrun; no deadlock | `Log` |
| Buffer cache and disk: `bio.c`, `ide.c`, `sleeplock.c` | LRU list, `refcnt`, flags, sleep locks, `idequeue` | bget, bread, bwrite, brelse, iderw, ideintr | log, fs | interrupt against queueing, recycling, running out of buffers, hand-over of locks | one buffer per block, one holder at a time, what was left there is found there; every request completes | `Bcache` |
| Pipes and open files: `pipe.c`, `file.c` | ring, `nread`, `nwrite`, open flags, `f->ref` | write, read, close, fileclose | processes | either end closing while the other sleeps; counters that wrap | order, no lost byte, no reader asleep for ever | `Pipe`, `Stream` |
| Console: `console.c` | `input.r/w/e` | consoleintr, consoleread | processes | unsigned ring counters, line editing, end of file | what was submitted is read once, in order | `Console`, `Stream` |
| Inodes and directories: `fs.c`, `sysfile.c` | `icache`, on-disk inodes, directories, bitmap | open, create, mkdir, link, unlink, write, close | log, cache | last reference against look-up, crash with an open unlinked file, locks of two inodes | reference and link counts, no block used twice, no deadlock | `Fs` |
| Memory: `kalloc.c` | free list | kalloc, kfree | fork, exec, sbrk | exhaustion | no page lost or used twice | `Proc`, `Vm` (counts) |
| Virtual memory and `mprotect`: `project-5/src/vm.c`, `exec.c` | page directories, `sz`, the CPU's translations | allocuvm, deallocuvm, copyuvm, freevm, mprotect, munprotect, growproc, exec | fork, exit, trap | failure half way, stale translations | rights of every page, sizes that match, no leak | `Vm` |
| Coders: `wzip`, `wunzip` (project 1), `zip-mmap.c`, `pzip-static.c` (project 6) | run, counts, buffers, threads' blocks | compress, merge, expand | | array limits, ends of files, blocks of uneven size | decompress after compress is the identity | `Zip` |
| `pzip-dynamic.c`: project 6, part 3 | circular `buf`, `q_size`, `isComp`, `pagePerFile`, `out` | producer, consumer, put, get, main's joins | pthreads | two conditions signalled outside the lock, an unlocked flag, output order | each page compressed once, printed in order, the program ends | `PZip` |
| Shell `wish.c` (project 3) | `paths`, children | line, builtins, fork, wait, look-up | processes, files | children of children, failing fork, the end of `paths` | no child left behind, the right directories searched | `Wish` |
| Allocator of user programs: `umalloc.c` | ring of free blocks, `freep` | malloc, free, morecore | sbrk | joining, wrap-around of the ring and of sizes | the heap is tiled, room for each request | `Umalloc` |
| System call entry, `getreadcount` (project 2) | `readCount` | read, getreadcount | CPUs | increment without a lock | | not modelled |
| Spin locks: `spinlock.c` | `locked`, `ncli` | acquire, release, pushcli | all | memory order | mutual exclusion | taken as given |
| Boot, interrupt controllers, drivers, assembly, other user programs | | | | hardware set-up, environment | | not modelled |

What is hard to test in this code is listed, with the line it concerns, under
"hazards" in `PROJECT.json`.

## 2. Modules

| Module | Models |
|---|---|
| `ProcessTree` | abstract: what fork, exit and wait promise |
| `Proc` | `proc.c`, `trap.c`, `sys_sleep`, the sleep and wakeup of `console.c`; implements `ProcessTree` |
| `ProcProofs` | theorems about `Proc`, and from them about `Lottery` |
| `Lottery` | project 4, on top of `Proc` |
| `Rand` | `rand()` of project 4 with its real 16 bits |
| `AtomicStore` | abstract: what the log promises |
| `Log` | `log.c`, with crashes; implements `AtomicStore` |
| `LogProofs` | theorems about `Log` |
| `BlockStore` | abstract: what the buffer cache promises |
| `Bcache` | `bio.c`, `sleeplock.c`, `ide.c`; implements `BlockStore` |
| `BcacheProofs` | theorems about `Bcache` |
| `Fs`, `MCFs` | `fs.c`, `sysfile.c`, over the store that `Log` implements, with crashes |
| `FsProofs` | theorems about `Fs` |
| `Terminal`, `ByteChannel` | abstract: what the console and a pipe promise |
| `Task`, `Console`, `Pipe` | the part of a process they use, `console.c`, `pipe.c` with `file.c` |
| `Stream` | `cat | wc` at the console: `Console` and `Pipe` composed by the programs |
| `StreamProofs` | theorems about `Stream` |
| `Vm`, `MCVm` | project 5: page tables, `sbrk`, `fork`, `exec`, `mprotect` |
| `VmProofs` | theorems about `Vm` |
| `PZip`, `MCPZip` | `pzip-dynamic.c`, and its instances |
| `SumProofs` | lemmas about sums and finite sets, which `ProcProofs`, `VmProofs`, `FsProofs` and `UserProofs` cite |
| `Zip`, `Wish`, `Umalloc` | the other coders, the shell, the allocator |
| `UserProofs` | theorems about `PZip`, `Wish` and `Umalloc` |
| `Programs`, `MCPrograms` | one of `Zip`, `Wish`, `Umalloc`, `Rand` runs, and its instance |

A definition named `Name_Variant` stands next to `Name` and is not part of
the model: it is a plausible bug (a dropped guard, a missing wakeup) used to see
that a property notices it.

Several modules end with an invariant `...Inv` that is the conjunction of named
parts. The parts carry the comments that say what each states; they belong
together because each is about the same steps of the code.

### Proc

One record of C variables per slot: `state`, `pid`, `parent`, `chan`,
`killed`; whether the slot owns a kernel stack and an address space
(`kstack`, `space`); `free` counts what `kalloc` has left, in units of one
stack or one address space. `cpu[c]` is `c->proc`. `pc` says where in the kernel
a process stands, `child` is the `np` of its `fork()`, `on`/`left` the condition
it sleeps on and the ticks it still waits for, `avail` whether `input.r != input.w`.

A critical section of `ptable.lock` is one action, and so is the hand-over of
that lock to the scheduler in `sched()`; what runs outside it is split:

* `fork()` (proc.c:181-222) is `ForkAlloc` (the slot is taken under the lock),
  `ForkKstack`/`ForkNoKstack`, `ForkCopy`/`ForkNoSpace`, `ForkReady`. The failure
  paths give the slot back without the lock, as the code does.
* `exit()` is `Exit` (wake the parent, pass the children to init, wake init
  for a zombie, become one, leave the CPU); `ExitPanic` is its assertion.
* `wait()` is `WaitReap`, `WaitFail`, `WaitSleep`.
* `sys_sleep()` and `consoleread()` test under a lock of their own (`SysSleep`,
  `CheckDone`, `CheckKilled`, `CheckFail`) and then call `sleep()` (`Block`).
  Between the test and `Block` other CPUs run, `kill()` included, but nobody can take the
  condition's lock (`LockFree`): who tries spins (`Spins`). The CPU of either has
  interrupts off (`IntrOn`).
* `kill()` compares pids only, whatever the state of the slot (proc.c:486).
* `getpid()` (`GetPid`) stands for the calls that only look.
* A timer interrupt on CPU 0 counts the tick and wakes sleepers; on any CPU it makes
  the running process yield, also inside the kernel.

init is modelled as `init.c` is: it forks and waits. After a panic the other CPUs
run on.

Left out: `growproc()` (it is in `Vm`), `procdump()`, open files and the current directory of
a process, the register contents of the context switch, `exec()`.

### Lottery and Rand

`Lottery` extends `Proc` with `mypstat` (`inuse`, `tickets`) and conjoins to
each action of `Proc` what project 4 added to it. project 4 runs on one CPU
(its Makefile: `CPUS := 1`), so a pass of the scheduler, which reads
`mypstat` without a lock, is one action: `Draw(s)` for a draw that stops
at a RUNNABLE slot `s`, a stutter for one that does not; when the count of
tickets is zero there is no draw, since the division stops the machine.
`Sold(s)` is the number of tickets up to slot `s`, `Counter(s)` what an `int` makes of it
(wrapping at `IntHalf`), `RandNums` what the division of a `rand()` by the total leaves,
with the conversion to unsigned that `%` makes, and `Wins(s, x)` the scan for `x`.
`Rand` is `rand()` itself, all 2^16-1 states of it; it justifies that `Lottery` may take
each of `1..RandMax` to come up, and nothing else.

`LotteryInv` has two parts beside the types: `RunnableCanWin`, a process that could run is
selected by some value of `rand()` exactly when it is `Drawable`, that is when the tickets
before its own are within the range of `rand()` and of `int`, and
`ZeroOnlyOnOverflow`, the divisor of `rand()` is zero only when the tickets overflow
all of `int` (`Overflown`).

### Log

A block's content is the number of times it was modified. On disk: `home`,
`logb`, `head`; in memory: `cache` and `dirty`, `lh`, `outstanding`,
`committing`. Each block write of `commit()` and of recovery is an action, and
`Crash` may happen between any two; a crash keeps the disk and clears memory.
`log_write()`'s tests are made before it takes `log.lock` (log.c:218-221), so
they belong to the step that modifies the buffer (`Modify`), and the rest is
`LogWrite`. `Evict` is the cache recycling a clean buffer. A single block write
is taken as atomic, as the log itself does.

`LogInv`: `QuiescentDurable` (with nobody inside, what was written is on disk),
`NoLostBuffer` (what is not home is pinned or being written), `SleeperHasWaker`.

### Bcache

A step is a critical section of `bcache.lock`, of a sleep lock's spin lock or of
`idelock`. `mru` is the list from `head.next` on, `stack[p]` the buffers a
process holds, last first. `bget()` is `BgetHit` or `BgetRecycle`, which takes
the least recently used buffer without references that is not `B_DIRTY`; the
panic is the predicate `BgetPanics`, since the machine stops there.
`AcquireSleep`/`AcquireSleepWait` are the loop of `acquiresleep()`; what `bread()`
does with `B_VALID` follows in the same step, since only the holder changes it.
`Iderw` queues, `Ideintr` completes the head of the queue and wakes who waits
for it, `IderwReturn` is the end of the loop that tests the flags. `brelse()` is
`ReleaseSleep` and then `Unref`, with the gap that the code has between them.
`LogWrite` leaves a buffer pinned as the log does; the log's own write of it, when the
group commits, is a `bread()`, a `Modify` and a `Bwrite` like any other. A process
asks for a second buffer where the code does (`MayAsk`): `bmap()` and `itrunc()` hold an
indirect block (`Indirect`) and use, one after another, the bitmap or a new block;
`write_log()` and `install_trans()` hold a block of the log (`LogBlocks`) and ask for the one
at its place, and go from one to the other (`Turn`). So locks are taken in the order log,
indirect block, any other, whatever the block numbers; `LockIsReleased` rests on it, and
fails when a process may hold any block and ask for any (`MayAsk_AnyOrder`). Which block is
of which kind is fixed by constants: a block that changes its kind has been freed between,
when no process has it.

Refinement: `BlockStore` says that a block has one holder, who finds there
what was last left, and that a write through is on disk. The content of a
block is the valid buffer's, else the disk's.

`BcacheInv`: `References` (one buffer per block; the count is that of the
processes between `bget()` and the end of `brelse()`), `CleanIsOnDisk` (recycling
loses nothing), `QueueIsWaitedFor` (the queue is exactly what somebody waits
for), `LockSleeperHasHolder`, `PanicsOnlyWhenFull` (no path leaks a buffer).

### Fs

On disk: type, link count, entries and blocks of each inode, and the bitmap;
`durable` is what a crash leaves, by `AtomicStore`: the state after the last call
of a group. `ic` is the inode cache with counts, validity, locks and copies of
type and link count; an entry without references loses its content, which
`iget()` does not look at. `c[p]` is where a call stands, its inodes, and the
`iput()`s it has left. A step is what a process does while it has
the locks it needs; it ends where the code takes another sleep lock or gives one
back. Every path is walked one name at a time (`namex()`), each `iput()` is
`Iput` (test under the lock, free) and `IputUnref` (decrement), as in
fs.c:331-347. `lost` and `raced` are history: inodes created in or linked into
a directory that had been removed, and inodes two overlapping `iput()`s have put.

`FsInv`: `RefsExact` (the count is the number of pointers, on every path through
the calls and their failures), `CacheCoherent` (a valid entry is what the disk
has, also past `ialloc()`), `OpenFilesExist`. Then, separately,
`DurableConsistent`, `OnlyRacedIsKept`, `NoPanic`, `OnlyParentDeadlock`.

Left out: reading and `stat`, `mknod`, `chdir` and device files, directories
opened for reading, the position of entries in directory blocks, indirect blocks, the
limits NINODE and NFILE, a write of several blocks (`filewrite()` cuts it
into calls of the log), the reuse of one open file by several processes
(it is in `Pipe`), and "." and ".." as names: they are link counts only.

### Console, Pipe, Stream

`Console`: `input.r`, `w`, `e` count modulo `UINT` and index modulo `INPUT_BUF`.
`TypeChar`, `DropChar`, `Backspace`, `KillLine` are the cases of
`consoleintr()`; `consoleread()` keeps `cons.lock` from one byte to the next
(`con_copy`) and gives it back when it sleeps or ends. The test of `killed` and `sleep()` are
two steps, here and in the pipe (`con_sleep`, `pr_sleep`, `pw_sleep`; `Task!Sleep`): in between
the device's lock is held, which keeps its wakeups out, but not a `kill()` by another CPU. A ^D after some bytes
is left for the next read. `Pipe`: a step is a critical section of `p->lock`; a
`pipewrite()` that does not fit writes what fits, wakes the readers and sleeps.
`FileClose` decrements `f->ref` under `ftable.lock`, and `PipeClose` comes later.
`pipealloc()` is the initial state. `Stream` composes both: `cat` reads the console and
writes the pipe, `wc` reads the pipe to its end, a shell still has its copy of the
writing end, the user may kill either program at any time. A killed program leaves when its
call begins or returns, or at an interrupt while it computes (`Leaves`, trap.c:40, 44, 100).

`TerminalSafe` and `ChannelSafe` are the next-state relations of `Terminal` and
`ByteChannel` through a mapping of the rings to sequences. `StreamInv`: `InputNoticed`,
`PipeNoticed` (no sleeper that could go on, one exception below), `EofIsFinal`
(a read of 0 bytes means that nothing can come any more), `FreedWhenUnused`.

### Vm

An address space is a record: whether there is a page directory, `sz`, the page
tables, the mapped pages, and those with `PTE_W` and `PTE_U`. A page costs one page of
memory and one more when its page table is missing, and at either `kalloc()` may
fail. A call is interrupted between two allocations (`Switch`);
`tlb` is one translation the CPU has cached from an earlier use (`Touch`), dropped
by `lcr3()`. `fork()`, `exec()` and `exit()` are there as far as they concern
memory. `mprotect()` checks its arguments with the C comparisons, in
unsigned arithmetic of `2 * KERNBASE` values.

The initial states are those the first `exec()` leaves: `initcode`, which calls it, has page 0
mapped (vm.c:191), and no other process is there yet.

`VmInv`: `PagesConserved` (every page free or in one page table, whatever failed
half way), `MappedIsSize` (from then on page 0 is never mapped, and the pages are those the
size says). `stale` is history: a failed call has left translations in the CPU; it
names the two exceptions of `TlbHonest`.

### PZip

A critical section of `lock` is one action, except that a consumer that found
the queue empty holds the lock until `pthread_cond_wait` has made it a waiter
(`FindEmpty`, `CondWait`), because the producer sets `isComp` and
broadcasts without the lock. The contents of a page are the page's own name:
`compress()` depends on the page only. `Unset` is what `malloc()` may leave
in `pagePerFile`: the entry of an empty file is never written, and is added to the place of
every later page. `out` is the set of pages with their places; a place before its beginning or
past its end is undefined behaviour that the model does not follow further. A file that cannot be
opened is not modelled.

`PZipInv`: `PagesAccounted` (every page put is in the queue, with one consumer or
compressed, and in one place only) and `PagesInPlace` (a page's place is the number of
pages before it, off by what stands in the entries of empty files before it, `Stray`).

### Programs

`Zip` runs one of the three sequential coders and then `wunzip` on what it wrote; a
step is an iteration of a loop, and a thread of `pzip-static` is a function of
its block, since threads share nothing before they are joined. `ZipInv`
has an equivalence for each coder: `wunzip` gives back the input exactly when a
condition on the input holds (`WzipCodes`, `MmapCodes`; always for
the static one), and `OverrunsExactly` says for which blocks the static coder
writes a record past its buffer. An input of the mmap coder says also what `atoi()` makes of each
file's name, where the mapping then begins (`PaOffset`), and which byte, if any, is mapped behind a
file of whole pages (`Shown`). `Wish` is the shell with its children and
theirs; `Umalloc` the ring of free blocks with `malloc()`'s search from
`freep`, `free()`'s place in the ring and `morecore()`, which passes an unsigned product to
`sbrk()` as an `int` (`Asked`): of 0 or less `sbrk()` gives no memory and succeeds, and the
program is killed at the header it writes (`MallocFaults`) or has a block that is not in the
heap (`MallocOverruns`), after which the model does not follow it. In `Wish` each process has
its own copy of `paths` from its `fork()` on. `Programs` lets one of
them, or `Rand`, run.

## 3. Runs

| Run | Bounds | Distinct states | Shows |
|---|---|---|---|
| `proc_smp` | 2 CPUs, 4 slots, memory for two children, `kill(1)` and `kill(2)` | 624,392 | one CPU per running process; memory conserved through forks that fail at either allocation; every parent alive; nobody asleep in `wait()` beside a zombie; no lost wakeup; refinement of `ProcessTree` |
| `proc_live` | 2 CPUs, 3 slots, `kill(2)` | 32,606 | type correctness; a killed process exits, but for a kill that `consoleread()` misses, and `sys_sleep()` returns (`CallsEnd`); orphans are reaped |
| `lottery_live` | 3 slots, tickets 5 or 6 besides the first 1, `rand()` up to 6, `int` up to 6, memory for one child and a half | 11,495 | who can be drawn and who is left out, that the divisor is not zero; a child inherits tickets, no starvation of who can be drawn (`LotteryShares`) |
| `log` | 3 calls of 1 block, 3 blocks, a log of 4 (one is the header), reservations of 2, contents to 2, 4 changes | 244,566 | refinement of `AtomicStore` through crashes of commit and of recovery; `LogInv`; no call overruns the log; a sleeper in `begin_op()` tries again |
| `bcache` | 2 processes, 2 buffers, 3 blocks: of the log, indirect, and another; 2 buffers held, 1 pinned | 295,826 | `BcacheInv`; refinement of `BlockStore`; a transfer that was asked for ends; a sleep lock is handed on |
| `fs` | 2 processes, 3 calls, 4 inodes, 2 blocks, an empty and a filled file system, crashes | 664,399 | `FsInv`; a crash finds a consistent file system; unlinked files are kept only by racing `iput()`s; no panic; all deadlocks are those of `create()` and `unlink()` |
| `fs_leak` | the same, no crash | | violated: finding 1 |
| `stream` | 3 programs, rings of 2 bytes, counters of 4 values | 484,760 | `StreamInv`; no byte lost, doubled or reordered; the end of the input reaches `wc`; submitted input is read |
| `vm` | 2 processes, 12 pages of memory, address spaces of 6 pages, page tables of 4 | 494,310 | `VmInv`; cached translations are those of the page table; a child has its parent's pages and rights |
| `pzip` | 3 consumers, queue of 2, files of 2, 0, 1, 2 and 0 pages, -1, 0 or 1 left in an entry by `malloc()` | 163,926 | `PZipInv`; all compressed; output complete, and in order exactly if `malloc()` left 0 |
| `pzip_lost_wakeup` | 2 consumers | | violated: finding 2 |
| `programs` | files of up to 4 bytes or 11, up to 4 files, pages of 2 bytes; 11 command lines, 3 directories; a heap of 10 units, `unsigned int` of 64 values; 2^16-1 draws | 609,560 | `ZipInv`, `WishInv`, `UmallocInv`, `RandInv`; every line of the shell ends |

Why these bounds. `proc_smp` has two CPUs, which give every race of a pair,
and memory for two of three children, so that `fork()` fails at the stack and at
the address space. Slots are reused in all runs.
`MaxPid`, `MaxSleep`, `MaxContent` and `MaxChanges` bound counters; they stop
`fork()`, `sleep()` and `Modify` and constrain nothing else. The liveness runs of
processes have three slots: init, a child and a child's child, which is what an orphan takes.
`proc_live` has two CPUs, as project 2 (Makefile:220), so that a `kill()` comes between any test
and its `sleep()`; `lottery_live` one, as project 4. There `init`
keeps its one ticket, a child takes 5 or 6 and a slot that a failed `fork()` left behind has one, 8 at
most: beyond the 6 values of `rand()` and the largest `int`, 6. So `init`, whose only ticket is number 0,
which `rand()` then does not return, and a child whose counter turned negative are left out of some
draws. A process whose first ticket is beyond `rand()` does not fit in here; the theorem
`WhoIsLeftOut` covers it. Three slots do not overflow all of `int`;
that the divisor may then be zero takes a fourth, and that it is zero only then is the theorem
`DrawIsDefined`. In `log` three calls
overlap on three blocks, and the log has room for three: the reservations of two calls fill it,
a call ends and makes room for the third, and the three together write it to the last block, so
absorption, group commit and a call that has to wait for space or for a commit all happen; a
`begin_op()` that reserves for itself only (`MayBegin_ForgetsOthers`) overruns it. Crashes
are not limited in number. In `bcache` two buffers for three blocks force
recycling at almost every miss; two processes that each hold two, one pinned,
reach `BgetPanics`, and the three blocks are of the three kinds of `MayAsk`. In `fs` three calls of two processes are enough for an
unlink during an open and a third call that reuses the inode; paths name an
entry of the root, a directory, and an entry of it; the two initial
file systems are reachable ones, so that three calls need not be spent on making
them. Processes are symmetric there. In `stream` a ring of 2 fills, wraps,
and its counters wrap around. In `vm` 12 pages let two programs of 7 pages of
tables and memory not both grow, so that every allocation fails somewhere;
a page table maps 4 of the 6 pages, so that a second one is needed in
between. In `pzip` the queue wraps, fills and drains, and an empty file
has pages before and behind it and one is last. In `programs` a page of 2 bytes makes files with
and without a zero byte behind them; requests of 46 bytes and more are what 2^31 and more are to
`sbrk()`, and 62 and 63 wrap. The static coder's
buffer starts at 2 records (10 in the code) so that two doublings fit into 11 bytes.

Deadlock is checked except where the system stops: both runs of `PZip` (the
program ends; in one of them, wrongly, it does not), `programs` (programs end),
`vm` (the machine stops when the first program has given its text back, and every
other has ended) and `fs_leak` (the number of calls is bounded, and the deadlock of
`OnlyParentDeadlock` is reachable). In `fs` a crash is always possible, which
is why `OnlyParentDeadlock` states deadlock by the locks.

### Fairness

* `Proc`: the scan of `scheduler()` visits every slot, so a slot that is
  RUNNABLE at infinitely many scans is dispatched: strong fairness of `Dispatch`
  per slot. A process with a CPU goes on (strong, because it is preempted
  in between). The local APIC keeps a timer interrupt pending until interrupts
  are on; only CPU 0's, which counts the ticks, is assumed to come. init calls `wait()` for ever (`init.c:29-34`). Nothing is assumed of user
  programs, nor of console input.
* `Lottery`: a slot that some value of `rand()` selects at infinitely many draws is
  selected: the register has full period (`Rand!FullPeriod`). The one CPU goes on with
  whatever runs on it, and its timer comes.
* `Log`: weak fairness of the code a call runs once it has begun, and of
  recovery. None for `BeginCall` or for a sleeper's success in `begin_op()`: a
  stream of other calls can keep it out, and `SleeperRetries` does not claim
  otherwise.
* `PZip`: threads are scheduled and a mutex is not denied for ever: strong
  fairness of each thread. Spurious wakeups are possible, not fair.
* `Bcache`: weak fairness of the interrupt (the disk answers a request it was given)
  and of each process inside `bread()`, `bwrite()` and `brelse()`, with the lock
  held; a process that waits for a lock is not promised it, only that it tries again. A process
  that holds an indirect block and uses others in between gives it back in the end (strong fairness
  of `ReleaseLast`): the loop of `itrunc()` is finite (fs.c:424). Nobody has to ask for a block.
* `Stream`: weak fairness of each program. The user types, kills, or does not.
* `Wish`: weak fairness of the shell, of its children and of the programs they run.
  A program that never ends makes the shell wait, as it should.

## 4. Findings

1. **An unlinked inode is kept for ever** (fs.c:337, `fs_leak`). `iput()` looks at
   `ip->nlink` and `ip->ref` under `ip->lock`, gives the lock back, and decrements
   `ip->ref` afterwards. One `iput()` looks while there is still a link; `unlink()`
   then takes the link away, and its own `iput()` finds `ip->ref` at 2. Both decrement
   and nobody frees the inode. `OnlyRacedIsKept` shows that this overlap is
   the only way.
2. **Lost wakeup at the end of pzip** (pzip-dynamic.c:215, `pzip_lost_wakeup`).
   `isComp` is set and `fill` broadcast without the lock; a consumer between its
   test and its wait sleeps for ever.

The modules have further behaviours of the code that a reader may not expect. Some
are stated as exceptions in a property, others show when a constant is changed.

* `console.c:246`: with two CPUs a `kill()` between `consoleread()`'s test of
  `killed` and `sleep()` wakes nobody, and the process sleeps until a line is
  entered, although it has been killed (the exception `Missed` in `CallsEnd`).
* `proc.c:486`: `kill(0)` marks a slot that holds no process, and the next process
  of that slot is born killed; `kill(1)` leads init to `panic("init exiting")`.
* project-4 `proc.c:215`: a `fork()` that fails in `copyuvm()` leaves its slot in the
  lottery until it is used again. `proc.c:376`: tickets that wrap around to zero are
  a divisor; tickets beyond the range of `rand()` are never drawn, nor is a first single
  ticket when there are more tickets than that, since `rand()` is never 0 (`Drawable`).
* `log.c:132` and `218`: `begin_op()` reserves LOGSIZE blocks, the log on disk has
  LOGSIZE with its header, and `log_write()` panics at `log.size - 1` before it looks
  for absorption. Calls that together write all they may find the log full
  (`log` with `OpBlocks` 2: `NoLogPanic` does not hold).
* `ide.c:118`: after a disk error `ideintr()` marks the buffer valid, and `bread()`
  returns what it held for another block (`bcache` with `ReadOK = {TRUE, FALSE}`).
* `pipe.c:87`: a killed writer leaves a full pipe without waking the reader
  (the exception in `PipeNoticed`).
* `sysfile.c:209` and `280`: `create()` and `unlink()` take the directory's lock, in
  `iput()`, while they hold the inode below; with a call that goes the other way they
  deadlock, which fs.c:149 means to avoid (`OnlyParentDeadlock`).
* `sysfile.c:249`: `create()` and `link()` may work in a directory that was removed
  after `nameiparent()` found it; what they make is lost (`lost`).
* A crash with an open unlinked file keeps its inode allocated without a name; nothing
  in the code collects it.
* project-5 `vm.c:256` with `proc.c:169`: a `sbrk()` that gives back everything
  reports failure, after the pages are gone and without loading `cr3`; a `sbrk()` below
  zero wraps around, succeeds and does nothing. `vm.c:412`: a `mprotect()` that meets
  an unmapped page stops with the earlier pages protected, and does not load `cr3`.
* `wzip.c:40`: the first byte of a file counts as one more of the run before it, whatever it
  is, and a byte 0xff ends a file. `zip-mmap.c:96`: of two files the last run is not
  written, of four one is written twice; a zero byte ends a file. `zip-mmap.c:85`: a file of
  whole pages has no zero byte behind it, so the loop reads on into what is mapped next, or faults.
  `zip-mmap.c:54`: a file whose name begins with a number is mapped from that offset on.
  `pzip-static.c:167`: a record is written past the buffer (`OverrunsExactly`).
* `wish.c:219`: a shorter `path` leaves one directory of the earlier one searched.
  `wish.c:233`: after a failing `execv()` the child frees its command twice.
* `umalloc.c:69`: a request near 2^32 wraps around and gets a block of one unit.
  `umalloc.c:54`: from 2^31 - 15 bytes on the size is negative, or 0, as the `int` of `sbrk()`, which
  succeeds; `morecore()` writes past the heap or where it was (`MallocFaults`, `MallocOverruns`).
* After an empty file `pzip-dynamic` places pages by an entry of `pagePerFile`
  that was never written (`Stray` in `PagesInPlace` and `PrintsAllInOrder`).

## 5. Theorems

Every obligation is proved by SMT, Zenon or LS4.

`ProcProofs`, for every number of slots and CPUs, every set of kill
arguments and every bound, from the assumptions `Proc` makes about its constants
(positive numbers of slots, CPUs and pids):

| Theorem | States | Argument |
|---|---|---|
| `TypeCorrect` | `[]TypeOK` | inductive by itself; `ForkAlloc`, `Kill` and `WaitReap` need `FirstIsMin`: the scan of the table ends at a slot of the set it looks for |
| `OneCpuEach` | `[]OnOneCpu` | with `ForkInv`: what `fork()` works on is an embryo, and no two forks share one. Without it a failing or finishing `fork()` could change the state of a running slot |
| `ParentsAlive` | `[]ParentAlive` | with `TreeInv`: init never dies and has no parent, a slot not in use has none, nobody is its own parent, the child of a `fork()` has the forking process as parent from `copyuvm()` on |
| `ExitsNotMissed` | `[]NoMissedExit` | inductive given the three above: `exit()` wakes whoever gets a zombie, `wait()` tests and sleeps in one critical section, a slot whose `fork()` fails was nobody's child |
| `WakeupsNotLost` | `[]NoLostWakeup` | with `WaitInv`: who is past a failed test and not yet asleep holds the condition's lock, so the condition is still false; a sleeper sleeps on what it tested |
| `MemoryIsConserved` | `[]MemoryConserved` | `OwnInv` says which slots own a stack and a space, also between the steps of a `fork()`; `AllCounted` is the sum. `PageMoves` lists what a step may do to the three numbers at once, and `MovesConserve` that this keeps the sum |
| `ProcImplementsTree` | `ImplementsTree` | `ForkReady`, `Exit` and `WaitReap` are Spawn, Die and Reap of `ProcessTree` (`TreeChanges`), every other step leaves the tree as it is (`OthersStutter`); needs `TreeInv` and `ForkInv` for what the child and its parent are |

The temporal theorems combine `Init => Inv` and the step lemma by PTL. To keep the
step lemmas short, `QuietSteps` sums up the fourteen kinds of step that move a
process to another place and touch neither states nor parents, and `ExitEffect` and
`ReapedIsZombie` say what `exit()` and `wait()` do.

The second half of `ProcProofs` is about `Lottery`, from `LotteryAssumption` (positive tickets, the
width of `int`). Only CPU 0 takes steps there, whatever `NCPU` is:

| Theorem | States | Argument |
|---|---|---|
| `LotteryRunsProc` | `LotterySpec => Spec` | each step of project 4 is one of `Proc`; `settickets()` is to the process table a call that only looks (`GetPid`). So all theorems of `ProcProofs` hold of project 4 |
| `DrawIsDefined` | `[](LotteryTypeOK /\ ZeroOnlyOnOverflow)` | `TicketInv`: who is alive or a zombie is in the lottery with a ticket, also through a `fork()` that fails; init is alive, so the tickets are never 0 (`SomebodyHasOne`), and an `int` makes zero only of a multiple of 2^32 (`WrapsToZero`) |
| `WhoIsLeftOut` | `[]LotteryInv` | while all of `int` is not overflown, a counter is the number of tickets up to its slot, or negative (`CountsAreExact`). So a `Drawable` process is found by the number of tickets sold before it, or by 1 (`DrawableWins`), and a value that finds it lies between that number and the next (`WinsDrawable`) |
| `ChildrenInherit` | `ChildInherits` | `TicketInv`: at the last step of `fork()` the child has the caller's tickets, which the caller cannot change meanwhile, nor anybody else |

`WhoIsLeftOut` has no hypothesis on the tickets. With NPROC = 64 and the largest value 65535 of
`rand()`, up to 1023 tickets for each process keep everybody `Drawable`; with more, the tickets
beyond 65535 are never drawn, and a process that has only such tickets waits until others give
theirs back. The run `lottery_live` has states with more tickets than `rand()` has values.

`VmProofs`, for every finite set of processes, sizes of page, page table and memory, and
every set of arguments, from `VmAssumption` (positive sizes, arguments in the
range of an `int`):

| Theorem | States | Argument |
|---|---|---|
| `SizesMatch` | `[]MappedIsSize` | `SizeInv` between calls and, for each call, what it has mapped when it has come to address `op[p].a`: `GrowInv`, `ForkInv`, `ExecInv`. Pages are bounded by the size, and gapless when the program's text is there |
| `MemoryIsSound` | `[]VmInv` | `FrameInv`: besides `PagesConserved`, a call that builds no second address space has none, no space reaches `KERNBASE`, and `exec()` has mapped nothing above the page it is at, so that every page it maps costs a frame. One lemma `...Conserves` for each action |
| `TlbIsHonest` | `[]TlbHonest` | `TlbInv` adds that the translation is of a page below `sz`: so neither `allocuvm()` nor the `deallocuvm()` of a failed one touches it, since both work above |
| `ChildrenAreCopies` | `ChildIsCopy` | `ForkInv`: the copy is the parent's space below `op[p].a`; nobody else changes the parent meanwhile, and `LiveInv`: the child's slot is not there yet and no other `fork()` has it |

All rest on one inductive invariant, `IInv`, `MemoryIsSound` also on `FrameInv`. They need
integer division:
lemmas from `Division` to `StartBelow` say how pages, sizes and the loops that
add `PG` compare, once and for all. Each action has a lemma `...KeepsInv`;
`Kept` and `LiveKept` carry what it leaves alone. That memory is conserved needs that the
first program fits into memory (`Init`): the machine does not start otherwise.

`LogProofs`, for every finite set of processes, every set of blocks and every size of
the log, from `LogAssumption` and the hypothesis `LogHasRoom`:

| Theorem | States | Argument |
|---|---|---|
| `LogIsSafe` | `[]LogInv` | `Pinned`: what is not home is `B_DIRTY` and in the log, or being written; `write_log()` and `install_trans()` go over the log one by one |
| `ReservationIsEnough` | `[]NoLogPanic` | `Reserved`: `lh.n + outstanding * MAXOPBLOCKS` is at most `LOGSIZE` and what the calls in progress already have in the log (`Used`); absorption makes this a count of pairs, not of blocks (`PairsBound`) |
| `LogImplementsStore` | `ImplementsStore` | `Recovered`, what recovery would install, is the durable content. It changes when `write_head()` writes the header of a commit and at no other write; `Booting` and `Pinned` say that the log on disk then holds what the buffers do |

`LogHasRoom` says that a call writes fewer blocks than `MAXOPBLOCKS`, and that the log
on disk can take what all of them write. The code has `log.size` = `LOGSIZE`
(mkfs.c:25), so it needs calls of at most `MAXOPBLOCKS - 1` = 9 blocks. The longest is
`filewrite()`, which cuts what it writes at 3 blocks (file.c:133): 4 when not aligned,
the inode, the indirect block and the one bitmap block of a disk of FSSIZE blocks.
Without it the theorem is
false (section 4). The run `log` satisfies it.

`BcacheProofs`, for every finite set of processes, every number of buffers and every
set of blocks:

| Theorem | States | Argument |
|---|---|---|
| `CacheLosesNothing` | `[]` of `References`, `QueueIsWaitedFor`, `LockSleeperHasHolder`, `PanicsOnlyWhenFull`, also when reads fail | `Stacks`: a process has locked all its buffers but the last, and they are different ones, since it asks for a block of another kind than it holds (`MayAsk`); so the counts are exact. `ListHasAll`: an injective list of `NBUF` places has every buffer |
| `CacheIsSafe` | `[]BcacheInv`, when no read fails | adds `CleanIsOnDisk`; `Flags` ties `B_VALID` and `B_DIRTY` to the place of the holder |
| `CacheImplementsStore` | `ImplementsStore`, when no read fails | `View`: the content of a block is its one buffer's, if valid, else the disk's. Recycling is a stutter since the buffer is clean, unlocked and in no stack (`RecycleIsStutter`) |

`ReadsSucceed` (`ReadOK = {TRUE}`) is a hypothesis of two of them because the code
does mark a buffer valid after a failed read (section 4).

`FsProofs`, for every finite set of processes and of names, every number of inodes and blocks,
every set of paths and any number of calls, with and without crashes, from `FsAssumption` (sizes and
finite sets) and `ImagesAssumption`: the machine boots with a consistent tree of names in which every
inode in use has a link. `mkfs` makes one, and TLC checks the assumption of the images it is given.

| Theorem | States | Argument |
|---|---|---|
| `FsIsSafe` | `[]FsInv` | the count of an inode is a sum over the processes (`RefsAre`), and a step of one changes it by what it changes of its own references (`Accounts`, `RefsKept`). A cache entry is set up anew only at count 0, and read under its lock |
| `NoCallPanics` | `[]NoPanic` | `HeldIsUsed`: whatever a call still needs is in use, because `iput()` frees only at count 1, and then the only pointer is its own; a name gives its inode a link (`CountedIsReached`), so `iget()` of a name never meets one about to go |
| `CrashIsConsistent` | `[]DurableConsistent` | `Owed`: between `unlink()`'s two halves, and from `link()`'s first to its last, a count is ahead of the names by the calls on the way; when the last of a group ends, nobody owes, so that what is committed is exact |
| `OnlyRacedAreKept` | `[]OnlyRacedIsKept` | `ForgottenIsRaced`: an inode without links that only finished `iput()`s point to is in `raced` or `lost`. When its last holder looks at it, and does not free it, the count is above 1, so another `iput()` has looked (`TwoLooks`) |
| `OnlyParentsDeadlock` | `[]OnlyParentDeadlock` | `Descends`: names lead down in some depth of the tree. A process that waits without `WaitsForParent` wants an inode below the one it holds (`WaitsBelow`), so a circle would climb for ever (`NoClimb`) |

All five are parts of one inductive invariant, `IInv`. `Control` says which call can be at which
place and what it has there; `Relies` what a call has seen under a lock and still trusts when it
comes back, for instance that the entry it looks up is the inode it is about to unlink, or that the
inode of a `link()` is a file; `LocksExact` that an inode is locked exactly where the code holds its
lock. `CacheHonest` is more than `CacheCoherent`: an inode without links that is still referred to has
a valid entry, without which `iput()` would skip the freeing (fs.c:335). The disk invariants
(`Named`, `Descends`, `DurableCounted`) are stated of `disk` and of `durable`, since a crash replaces
one by the other. Directories that have been removed while a call was in them are where the counts
are not exact: there `LinksCounted` has only the inequality, and `lost` grows. Each action has two
lemmas: `...Step` for its process, the references, locks and cache (`Move`, from which
`RunningKept` derives what the other processes rely on), and `...Kept` for names, counts and blocks.

`UserProofs`, about `PZip`: for every finite set of consumers, every capacity of the queue, all
files, empty ones anywhere, and whatever `malloc()` leaves in `pagePerFile`:

| Theorem | States | Argument |
|---|---|---|
| `PagesAreKept` | `[]PZipInv` | `QueueInv`: what was put is, disjointly, in the queue, with a consumer or in the output, and the `q_size` entries from `q_tail` on are different. `SlotIs` says what `%` does to an index; `ProducerInv` that there is room when the producer puts |
| `OutputIsInOrder` | `[]PrintsAllInOrder` | `ConsumerInv`: a consumer leaves when the producer is done and the queue empty; so when main prints, all pages are in the output, and `PagesInPlace` says which are off their place |

The entry of an empty file is never written, and `calculateOutputPosition()` adds it to the place of
every later page (section 4). `PositionIs`, from `RightPositionIs` and `SumAdds`, splits the sum it
computes into the pages of the files before and what stands in such entries.

`UserProofs`, about `Wish` and `Umalloc`, each on its own specification; `Programs`, which the run
checks, only chooses which of them runs. `LinesFit` and `SizesFit` are what the proofs assume of their
constants: the bounds `MaxChildren` and `MaxDirs` are large enough for the lines, a header has a
size, and the heap begins above `base` (`Programs` assumes both, so that TLC evaluates them):

| Theorem | States | Argument |
|---|---|---|
| `ShellLeavesNothing` | `[]WishInv`, for all lines and all installed programs | `SearchInv` is about the shell's own copy of the array. `ShellInv`: the children there are were forked by this line, and there are at most as many as calls of `wait()` to come (`Children - forked`), so the last one finds none. The shell comes to those waits only when it has waited for the program of its own command (`GoesOn`). `PathKeepsOne`: `path` ends the array one entry too far, so it keeps at most the one between |
| `MallocIsSafe` | `[]UmallocInv`, and that a program that never asks for `TooMuch` is not killed and gets no block beyond the heap; for all requests, and sizes of header, `unsigned int` and heap | `AskedIs`: what `sbrk()` gets is 0 or less only for `TooMuch`. `MallocInv`, until a block beyond the heap is given out, is `Tiled`, stated of single units: each is in a free block or in one in use, not in both. `Follows`: a block ends below the next of the ring, or is the last, and the next is `base`. `UpperIs` and `LowerIs` are the two halves of `free()`, with the new block in its place but not yet linked between them (`Half`); `CutIs` is what `malloc()` takes. `Reached`: the walk from any block comes to every other, since it takes no more steps upward than there are addresses, and passes `base` once; so the search ends at a block that fits (`FirstFitIs`) |

`MallocInv` is stronger than `UmallocInv` where that speaks of the ring only by the addresses
between neighbours: that `free()` finds its place, and the joined block no second neighbour, needs
that the ring is in order all around, and that `base`, of size 0, is never joined to the first
block of the heap.

`StreamProofs`, for every size of the input buffer, of the pipe and of the counters, every
finite set of shells and every number of bytes a read asks for, from `StreamAssumption` (who
the processes are) and those of `Console` and `Pipe` (the counters' range is a multiple of
each buffer, and at least twice as large):

| Theorem | States | Argument |
|---|---|---|
| `NobodyMissesTheOther` | `[]StreamInv` | `Whereabouts`: which program can be at which step. `Ends`: the count of each file is the number of processes that have not closed it, and who is past the last `fileclose()` is alone, so an end is open as long as somebody has it. `Lines`: `r`, `w` and `e` are in order and at most `INPUT_BUF` apart, and the edited line has no byte that would have submitted it. `Fits`: the pipe holds at most `PIPESIZE` |
| `ConsoleImplementsTerminal` | `TerminalSafe` | the bytes from `r` on are the sequence. A typed byte is put after them, in a cell of its own; editing takes the last one back, and `Lines` says that it stops where the submitted ones end |
| `PipeImplementsChannel` | `ChannelSafe` | the bytes from `nread` on are the sequence. `WriteMoves` and `ReadMoves` say what a step that copies several bytes does to it; a step that copies none is a stutter |

All three look at a counter only by its distance from `r` or `nread` (`Minus`), which is
exact as long as the buffer is no larger than the range; the lemmas on remainders and on rings
show that two bytes less than a buffer apart are in different cells. For that the
range must be a multiple of the buffer, as 2^32 is of 128 and of 512.

`SumProofs` has what these proofs need of sums. `SumFunctionOnSet` is a fold of the community
modules, a recursive function; the induction over the set is done by a smallest set for which
the claim fails (`MinimalSubset`).

Only model-checked: `ZipInv`, `RandInv`, and everything about fairness and liveness, which with
ENABLED is out of TLAPS's reach. What the coders write is a recursion over their input, which
would need induction over data; that the register of `rand()` comes back after 2^16 - 1 draws and not
before is a computation, which TLC does.

## 6. Not modelled, and why

* The three copies of the kernel are modelled once, each part from the project that
  is about it. `usertests.c` and the other test programs only drive the kernel. Together
  they are most of the repository's lines, which is why the mapped lines
  are a small share of them.
* Boot, multiprocessor and interrupt set-up, `uart.c`, `kbd.c`, the register level of
  `swtch.S`, `trapasm.S`: device registers and instruction sequences, with no state machine
  above them. Spin locks are taken to exclude.
* `syscall.c` and `getreadcount()`: argument fetching, and one unlocked increment that nothing
  depends on.
* `sh.c`, `wcat.c`, `wgrep.c`, the splitting of words and redirection in `wish.c`: parsing
  and copying. (The shell never closes the file of a redirection, wish.c:173.)
* `sys_sleep()` with a negative argument (sysproc.c:69 compares unsigned), and
  `nextpid` wrapping around: both need 2^31 steps.
* `link(x, "d/.")`: `dirlink()` would put the directory it holds locked and wait for
  itself (fs.c:560); "." is no name in `Fs`.
* Frequencies: `mypstat.ticks` counts dispatches, and how often a process wins is
  not a statement about states.

## 7. Plan

Done: all modules of section 2. What would come next:

1. `Fs`: `chdir` and the current directory as a reference, device files, several open
   files per process, directory entries by position, so that `dirlink()` and a full
   directory can fail.
2. `Log` and `Fs` composed, with the reservation of `MAXOPBLOCKS` against what each call
   writes; `Bcache` below `Log` with the number of buffers it pins.
3. `mypstat.ticks` and the order of draws as a bounded fairness.
