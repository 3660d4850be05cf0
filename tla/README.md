# the-one-os in TLA+

A verification development for the kernel in `src/learn_by_doing/mbr`: a small
32-bit single-CPU x86 system with preemptive threads, semaphores and locks, a
keyboard queue, an IDE driver, a file system and Unix-like processes. Paths
below are relative to that directory. (`src/learn_by_doing/asm_and_c` is a
separate exercise and is not covered.)

## 1. The system

### How it runs

There is one CPU. Concurrency comes from two sources only:

* **interrupts**, taken between any two instructions while the IF flag is on:
  the timer (`device/timer.c`, 100 Hz), the keyboard (`device/keyboard.c`) and
  the disk (`device/ide.c`). Handlers run with IF off;
* **`schedule()`** (`thread/thread.c`), called by the timer handler when the
  running thread's slice is over and by a thread that yields or blocks.
  `switch_to` keeps the IF flag on each thread's stack, so every thread has its
  own.

System calls enter through a gate that turns IF off (`interrupt_helper.asm`,
`syscall_handler`), so a process in the kernel loses the CPU only where it
blocks or yields. Kernel threads run with IF on and can be preempted anywhere
outside the short sections that call `intr_disable`.

A failed `ASSERT` or a `PANIC` (`kernel/debug.c`) turns IF off and spins: the
system stops.

### Components

| component | state | operations | interacts with | what makes it correct |
|---|---|---|---|---|
| **Scheduler** `thread/thread.c`, `timer.c` | `thread_ready_list`, status and slice of each `task_struct` | `schedule`, `thread_yield`, `thread_block`, `thread_unblock`, `thread_start`, `thread_exit`, `idle`, tick | called by everything | one RUNNING thread, the one on the CPU; the READY threads are exactly those on the list; an idle thread is available when the list runs empty; every ready thread runs |
| **Semaphores, locks** `kernel/sync.c` | `value`, `waiters`, `holder`, `holder_repeat_nr` | `sema_down/up`, `lock_acquire/release` (reentrant) | scheduler; used by memory, pids, disk, keyboard queue | exclusion; no wake-up lost; the four fields agree whenever a tick can see them |
| **Keyboard queue** `device/ioqueue.c`, `keyboard.c` | ring buffer, `head`, `tail`, `consumer`, `lock` | `ioq_getchar` (in `sys_read`), `ioq_putchar` (interrupt) | scheduler, locks | a FIFO; a sleeping reader is woken |
| **IDE driver** `device/ide.c` | `expecting_intr`, `disk_done`, channel lock | `disk_read`, `disk_write`, `intr_hd_handler`, `identify_disk` | scheduler, locks, the disk | commands and data of different requests never mix; a request returns, and not too early |
| **Processes** `userprog/fork.c`, `wait_exit.c`, `thread.c` | `thread_all_list`, `pid`, `parent_pid`, `exit_status`, pid bitmap | `sys_fork`, `sys_wait`, `sys_exit`, `thread_exit` | scheduler, memory, files | pids unique; every exit finds a parent; every child is collected once, by its parent; `wait` returns |
| **Memory** `kernel/memory.c`, `lib/bitmap.c` | page pools, address bitmaps, page tables, arenas | `malloc_page`, `get_a_page`, `mfree_page`, `sys_malloc`, `sys_free` | locks; used by all | no page given out twice; a freed page returns to its pool |
| **Open files, inodes** `fs/file.c`, `fs/inode.c` | `file_table`, `fd_table`, `open_inodes`, open counts, `write_deny` | open, close, read, write, create | disk, memory, processes (fork shares entries) | one in-core inode per file; counts equal the references; one writer |
| **Directories, path names** `fs/dir.c`, `fs/fs.c` | directory blocks, inode and block bitmaps on disk | create, unlink, mkdir, rmdir, search, format, mount | disk, inodes | entries and bitmaps agree, after a crash too |
| **Interrupt and system call entry** `kernel/interrupt*.`, `syscall.c` | IF, descriptor and handler tables | gates, `intr_*` | all | see above |
| **Program loading** `userprog/exec.c`, `process.c` | stacks, page directories | `sys_execv`, `process_execute` | files, memory | |
| **Shell, commands, boot, console, strings, TSS** | | | clients of the above, or run once at boot | |

### What is hard about it

* The lock code is preemptible: `lock_acquire` stores `holder` after
  `sema_down` let it pass, `lock_release` clears it before `sema_up`.
* A woken thread is not the next one to take what it was woken for: other
  threads run in between (`sema_down` looks again, `ioq_getchar` does not).
* `general_tag` is one link field for the ready list and every waiters list.
* Interrupt handlers change `consumer`, `expecting_intr` and `disk_done`
  without a lock, at any moment IF is on, and wake threads without `schedule()`.
* The disk may interrupt before the requester sleeps, late, or twice, and it
  ignores a command that finds it busy.
* `busy_wait` sleeps with the channel lock held, in a system call with IF off:
  the sleep ends only if another thread runs with IF on.
* Exits, waits, adoptions and pid reuse meet in `wait_exit.c`, whose calls can
  sleep on memory locks half-way.
* The lock of a memory pool does not cover everything that takes from the pool:
  `page_table_add` takes page tables from the kernel pool without it, and whoever
  gets such a page as well zeroes it, and the entries of a process with it.
* Requests for memory fail half-way and keep what they have; `fork` copies page
  tables while it can be switched to another page directory.
* A parent and a child share `file_table` entries, heap arenas and free lists
  by accident of how `fork` copies.
* Directory entries are found in one disk access and written in another, and a
  call of the file system is a row of accesses that may end anywhere.

`PROJECT.json` lists each hazard at its line with the properties that cover it.

## 2. Modules

```
Sched --+-- Threads    (arbitrary callers)     SyncProofs, LocksProofs
        +-- Sync --+-- Locks --> Mutex         SyncProofs, LocksProofs
        |          +-- IoQueue --> Fifo        IoQueueProofs
        |          +-- Ide  (with the disk)    DiskProofs
        +-- Process --> Family                 ProcessProofs
Pools --+-- Memory     (preempted page allocation)   MemoryProofs
        +-- UserSpace  (heap, fork, exec, exit)            MemoryProofs
        +-- FsDisk     (directories as disk accesses)      FsTreeProofs, FsDiskProofs
        +-- OpenFiles  (tables and counts)              } side by side
        +-- OneFile: FileIO --> ByteFile  (contents)    } in MCFiles   DiskProofs
```

(`-->`: implements the abstract specification.) `MCx.tla` and `MCx*.cfg` give
the constants of `x` their values for TLC. Operators whose name is followed by
a comment `mutant:` are deliberate faults used to test the properties; no
action refers to them.

**Sched** is the scheduler as a set of steps. `cur` is `running_thread()`,
`status`, `ticks` are the fields of `task_struct` (`"NONE"`: there is no such
task), `ready` is `thread_ready_list`, `intr[t]` the IF flag of thread `t`,
`idle` the place of the idle thread in its loop. `Schedule(st)` is
`schedule()` with its ASSERT and the unblocking of the idle thread inlined; it
is one step because it runs with IF off. `Interrupt` is the condition to take
any interrupt. `panicked` is set by a failed ASSERT or PANIC.

**Threads** lets any client thread call any scheduler operation at any time:
turn IF off and on, yield, block in each of the three blocking states, wake a
waiting thread, start a thread, reap a hanging one; interrupts wake threads and
tick. The only discipline assumed is the one all callers in the source keep:
`thread_unblock` is called for a thread that waits (its ASSERT), and
`thread_exit` for a hanging one.

**Sync** adds semaphores and locks. Each thread has a program counter `op` with
one value per point where preemption can be seen: the body of `sema_down` and
`sema_up` is atomic (IF off) up to `thread_block`; the assignments of
`lock_acquire` and `lock_release` around them are separate steps.
**Locks** has arbitrary callers acquire, nest and release locks from kernel
threads (IF on) and from system calls (IF off), one lock at a time as
everywhere in the source, and yield while they hold one. A caller goes by its
own count of calls (`nest`), never by the lock's fields, as C code does that
pairs its calls. **Mutex** is the abstract reentrant mutex: an owner owns from
the moment `sema_down` lets it pass to `sema_up`, and its depth is the owner's
own count, so freeing a lock before the last release is no step of it.

**IoQueue** is the keyboard queue: readers in `sys_read(0, ...)` with program
counter `pc`, the keyboard interrupt as `PutChar`. `sys_read`, `ioq_getchar`
and `ioq_wait` run with IF off, so the steps are cut where they call something
that may sleep. How many readers there are is chosen in the initial state.
**Fifo** is the abstract bounded queue.

**Ide** is one channel: `disk_read` and `disk_write` as a program counter, the
handler, and the disk as external actions (it wants data, fails, ends a write,
interrupts). Clients in `Kernel` run with IF on, the others are in system calls
with IF off. `moved` records which sectors of a request had their data moved.
A command that finds the disk busy (`Bsy`) is ignored, since `cmd_out` does not
look at the status. With `dev.extra` (chosen at the start) the disk interrupts
for further sectors of a command too, and the controller keeps that request until IF is
on: the wait of a write may then end early, and the next command be ignored.
`busy_wait` is `Poll`, `Nap` and `NapOver`: `polls` counts its rounds up to the
time-out, and in a nap the thread yields, IF as it is, until the timer has
ticked `nap` times more. Left out: `identify_disk` and `partition_scan` (at
boot, before any other request).

**Process** has one thread per page that can hold a `task_struct`. `all` is
`thread_all_list` in its order, `used` the pid bitmap; `pid`, `ppid` and
`exit_status` are the fields, emptied when the page is given back. User
programs may fork, wait and exit at any point; only init, main and idle never
exit, as in the source. A call is cut where it can sleep: `Nap` is sleeping on
a memory or pid lock that a kernel thread holds, `Wake` the end of that. Pids
are not exhausted: a process takes at least 27 of the 3840 kernel pages
(`task_struct`, page directory, 23 pages of address bitmap, page tables), so
memory ends long before the 1024 pids. **Family** is the abstract tree of
processes, with parents as processes and not as numbers.

**Pools** has `lib/bitmap.c` on bitmaps as sets of indices, with the loop of
`bitmap_scan` described by where it would return, and the layout of the two
pools: their bitmaps are neighbours in memory, so an index beyond the end of
one is a bit of the next.

**Memory** is page allocation under preemption: `malloc_page`, `get_a_page`
and `mfree_page` with `palloc` cut between `bitmap_scan` and `bitmap_set`,
`page_table_add` with its own `palloc`, the two pool locks, and `fork`, which
asks for pages in the space of its child and comes back with the parent's page
directory after a switch. `req[t]` holds the arguments and locals of the call,
`got` what was granted. The two `memset`s of the code (of a new page table and
of granted pages) remove the entries of every page table at such a page
(`Zeroed`), and `garbled` are the page tables whose page somebody else got as
well: what their entries say is from then on up to the other owner. A step that would
read or write such an entry stops the model, as a failed ASSERT or as "wild": where the
system goes from there is not followed. The bitmaps and entries are updated by `mfree_page` in one step
together with the lock, which no other thread can see in the middle of: for
the user pool it holds the lock, for the kernel pool it runs with IF off.
`fault` stops the model where the system stops or goes wild.

**UserSpace** is what a process has in memory: address bitmap, page tables,
arenas and free blocks of `sys_malloc` (one of the seven sizes; they do not
interact), and how `process_execute`, `fork`, `exec`, `exit` and `wait` take,
copy, forget and release it, with all failures for want of memory. A system
call is one step: it runs with IF off and nobody else holds a pool lock. Kernel
pages are counted; `lost` counts those a process does not give back.

**FsDisk** has directories on the disk: a call (`file_create`, `sys_mkdir`,
`sys_unlink`, `sys_rmdir`, the first `file_write`) is a list `todo` of disk
accesses, built by the call and extended by what it finds. Between two accesses
another process runs, or the power fails (`Mount`: what was in memory is read
back from the disk). `imem`, `bmem` are the bitmaps in memory, `core` the
in-core inodes, `r[p]` the locals of a call. `bitmap_set` and the `bitmap_sync` that
follows it are one step, and so is the search of a path. The processes, calls,
names and the size of the partition are chosen at the start from `Setups`.

**OpenFiles** has the in-core inodes (`core`, `list`), the `file_table` and the
`fd_table`s: open, create, close, unlink, rmdir, fork and exit, cut where they
wait for the disk. Calls follow each other: a step of a call is taken only when
no other process is inside one, as while the shell waits for its only command.
**FileIO** is `file_read`, `file_write` and `sys_lseek` of one open file with
the block arithmetic over direct and indirect blocks, the buffer `all_blocks`
with whatever it held, and the bytes of each block. **ByteFile** is the abstract
file: a position and a row of bytes. **OneFile** is FileIO with constants and
variables of its own, for modules that have it beside OpenFiles or Ide.

## 3. Runs

| run | instance | properties and what they show |
|---|---|---|
| `threads` | 3 clients, idle; slices 1 and 0 | `NoSchedPanic`, `SchedInv`: the ready list, statuses and CPU agree after any sequence of calls, ticks and wake-ups. `NoOvertaking`: only a wake-up gets past a thread that is ready. `ReadyRuns`: every ready thread runs |
| `locks` | 3 clients, idle; one lock, nested twice | `MutualExclusion`, `LockFieldsAgree`, `NoPanic`: at every preemption point. `NestAgrees`: the holder's count is its caller's. `SleepersListed`: the shared link field. `NoLostWakeup`: a free lock with sleepers has a woken thread on its way. `ImplementsMutex`: refinement |
| `ioqueue` | 1 or 2 readers, buffer of 3 | `NoPanic`, `SleepingConsumerRegistered`: the consumer field against the interrupt handler. `DeliversInOrder`: refinement of Fifo for one reader. `ReadGoesOn`: no lost wake-up |
| `ioqueue_empty` | 2 readers | `TakesOnlyWhenNotEmpty` is **violated**, see findings |
| `ide` | a kernel thread and a process, main, idle; requests of 2 and 3 sectors in commands of up to 2; a disk with or without interrupts for further sectors | `MovesWholeRequest`; `PanicOnlyInBusyWait`: `disk_done` never goes above one, and `busy_wait` alone panics, for the causes listed. `DataIsOwn`: the data phase belongs to the request. `RequestReturns`: every request returns or `busy_wait` panics, naps with IF off and the hand-over of the channel lock included |
| `process` | init and 2 user processes, 6 pids | `NoPanic`: no exit looks its parent up in vain. `PidsExact`: no pid lost or shared. `NoMissedExit`, `WaitReturns`. `ImplementsFamily`: refinement |
| `memory` | 2 processes, one of them preemptible once in the middle of a call, 2 pages free in each pool | `FramesExact`: without preemption no page in two places and none lost, even by requests that fail, and no page table with a second owner; with it the same of the user pool, until a page table gets one. `GrantsMapped`: nothing granted is lost but user pages under such a table. `ScanIsFirstFit`: every bitmap that comes about |
| `memory_shared` | a process and a kernel thread | `NoAssert` is **violated**, see findings |
| `userspace` | init and 2 processes; 4 pages each, kernel pools with room for all, for one more process, and with one page | `HeapExact`: blocks, arenas and free counts agree. `BitsAreTables`: bitmap and page tables agree, after failures too. `KernelPagesExact`: a process costs exactly one kernel page when it is gone |
| `fsdisk` | five setups: one process with all calls in directories that grow into indirect blocks and shrink; a full directory; a full disk; two processes interleaved; two power failures in mkdir and rmdir | `BlocksExact`, `NamesExact`, `SizeIsEntries`: bitmaps, inodes, entries and sizes agree between calls. `DirsComplete`: a directory that has a name has its entries, at every access and after a failure. `TakenOnce`: no block or number is taken twice |
| `fsdisk_race` | two creations | `EntryTakenIsFree` is **violated**, see findings |
| `files` | two processes, 3 slots, 2 descriptors each, with unlink and with fork; or one file of 6 bytes in 3 blocks | `OneInode`; `CountIsSlots`; `BlocksOwned`, `ReadIsExact`, and `IsByteFile`: refinement |

Every property of a passing run is paired in `PROJECT.json` with a fault in the
model that violates it.

**Bounds.** Three clients are what the scheduler and lock hazards need: a
holder, a woken waiter and a third thread that barges in or waits behind it;
the idle thread comes on top. A slice of 1 (of 31 in the source) takes both
branches of the tick, a slice of 0 lets a tick preempt at every step. Two
levels of nesting distinguish the outer from the inner release. The ring buffer
of 3 (2048) becomes full and wraps. Requests of 2 and 3 sectors with 2
per command (256) are an exact multiple and a full command with a short last one;
a nap of one tick (1000) and two rounds of `busy_wait` (300) make both ends of
each loop happen.
Two user processes below init form a chain (child, orphan, adopted zombie) and
siblings; 6 pids let a freed pid be reused. In Memory all but two bits of each
pool are taken at the start (`Taken`), so requests fail at each of their steps;
`MaxCuts` bounds preemptions in the middle of a call: one is enough to
interleave two allocations. UserSpace starts with 0, 29 or 55 pages already
lost (`Losses`): plenty, one process short, and one page left; the constraint
`Bounded` ends a story after one more process. Partitions in FsDisk have
sectors of 2 to 4 entries (21), one direct (12) and two indirect (128) blocks:
the smallest with a step from direct to indirect, within the table, and beyond
its end. A file of FileIO has blocks of 2 bytes, likewise. `MaxRepeat`,
`MaxCount`, `MaxRequests`, `MaxSectors`, `NapTicks`, `MaxPolls`, `bufsize`, `MaxPid`, `MaxReq`,
`MaxCuts`, `Losses` and `Setups` are the only bounds on counters.

**Symmetry and views.** Names in FsDisk and user processes in UserSpace are
interchangeable; no liveness is checked there. The view of FsDisk forgets
the contents of free blocks and free inodes, which are written before they are
read as long as calls are neither cut short nor interleaved; the other setups
are checked without it.

**Fairness.** `SF(Tick)`: the timer interrupts at 100 Hz, so a tick that IF
admits again and again is taken. Strong fairness of a thread's own steps: a
thread that gets the CPU again and again executes its next instruction (the
instruction is enabled only while it runs, hence strong). Code that runs with
IF off turns it on again: system calls return. In Ide, the disk answers each
command it takes and the controller delivers. A nap with IF off ends although that
client cannot be interrupted, because main is always ready and runs with IF on
(`kernel/main.c` ends in a loop of `mtime_sleep`): the clients of the run may all
sleep, main does not. Nothing is assumed of user code: no key
need be typed, no process need fork or exit.

**Findings.**

1. `ioqueue_empty`. `device/ioqueue.h:16-18` says a consumer takes data while
   the buffer is not empty, and sleeps otherwise. `ioq_getchar` tests for empty
   once and not again after it slept: with two readers, one sleeps as the
   consumer, a key wakes it, the other one takes that key first, and the first
   reads an empty buffer and moves `tail` past `head`.
2. `memory_shared`. `page_table_add` takes a page table from the kernel pool
   without its lock (`kernel/memory.c:85`). A kernel thread preempted in
   `palloc` gets the same page, zeroes it (`memory.c:113`), so that the process
   loses the pages under that table, and writes to it: the ASSERT at `memory.c:90`
   fails.
3. `fsdisk_race`. `sync_dir_entry` (`fs/dir.c:115`) picks an entry in a sector
   it has read and writes the sector back: two creations in one directory take
   the same entry, and one file loses its name.

Met while modelling, and reflected in the models or in the preconditions of
properties:

* `pfree` (`memory.c:317`) compares with `>`: the first page of the user pool
  goes by the kernel pool. `PoolsGiveBack` proves that this is right exactly
  when the number of kernel pages is a multiple of 8, as with 32 MB.
* `palloc` NULL in `page_table_add` (`memory.c:85`) makes page 0 a page table.
* `malloc_page` that fails keeps the addresses and pages it took
  (`memory.c:101`), and a fork after it copies pages that are not there.
* `copy_process` ignores a failed `copy_vaddrbitmap` (`fork.c:117`); a child
  keeps the parent's free lists (`fork.c:123`), so `HeapExact` is about programs
  that do not free small blocks they inherited.
* The bitmap of a process is 23 pages when taken and 22 when given back
  (`wait_exit.c:64`).
* `exec` reads segments over the running program before it knows it will succeed, and ignores
  `memsz` (`exec.c:48`).
* `fork` shares slots (`fork.c:85`): the first close frees the slot under the
  other, and unlink removes a file the other has open. `OneInode` and the exact
  count of `CountIsSlots` are therefore about processes that do not fork with
  files open.
* `file_open` that fails leaves its slot and reference (`file.c:158`);
  `file_close` clears `write_deny` whoever set it (`file.c:171`); `sys_getcwd`
  and a failing `sys_mkdir` leave inodes open (`fs.c:638`).
* `file_read` loads the indirect table for `end_sec > 12` and does not free
  `io_buf` (`file.c:297`, `317`); reading or writing at the last byte looks at
  `all_blocks[140]`.
* `delete_dir_entry` frees a block on the disk before the inode that names it
  is written (`dir.c:186`); the rollback of `sys_mkdir` is in memory only
  (`fs.c:550`). `DirsComplete` excepts a block freed that way and not yet forgotten by its inode.
* `inode_sync` reads and writes back a sector of inodes (`inode.c:75`): two
  processes can undo each other's inode. With two users `fsdisk` checks
  `TakenOnce` only.
* `sys_unlink("/")` and `sys_rmdir("/")` fail an ASSERT (`fs.c:414`).
* With a disk that interrupts for further sectors a write may return while the disk
  still works on it (`ide.c:89`, `177`); the disk ignores the next command, and
  `busy_wait` finds no DRQ and the kernel panics (`ide.c:144`, `169`) although nothing
  failed. `IdeIgnoresNone` proves that a disk that interrupts once per command
  never ignores one.
* A nap of `busy_wait` in a system call (`timer.c:23`) would last for ever if no
  other thread were ready with IF on: the idle thread is made ready only when the
  list is empty, and the napping thread keeps returning to it. Main is that other thread.
* A given waiter of a lock can starve (a woken thread that finds it taken goes
  to the tail); a zombie inherited by init does not wake it, so `NoMissedExit`
  and `WaitReturns` exclude init; `ioq_putchar` drops a key when the queue is
  full (`ioqueue.c:51`).

## 4. Proofs

`tlapm` checks every theorem for all values of the constants.

* `SyncProofs`, the scheduler: what one scheduler operation preserves (`ScheduleKeeps`,
  `BlockKeeps`, `UnblockKeeps`, `StartKeeps`, `TickKeeps`, ...), as lemmas over
  `CpuInv`. They speak of Sched alone, so every module built on it can use them:
  `ProcessProofs` extends `SyncProofs` for them, and uses nothing of Sync.
* `LocksProofs`, the scheduler: `TypeCorrect`, `SchedulerConsistent`, `SchedulerNeverPanics`
  for Threads. The inductive invariant is `ThreadsType`, `intr[Idle]` and `CpuInv`:
  no panic, `RunningIsCurrent`, `ReadyListExact` and an idle thread that is
  RUNNING, READY or BLOCKED. `NoSchedPanic` alone is not inductive: that the ASSERT of `schedule()` holds when the list is empty
  needs that the idle thread is then BLOCKED, which follows from "READY exactly
  when listed" and "RUNNING exactly when current". `NobodyOvertakes` proves the
  action property `NoOvertaking` in two steps: every step changes the list in
  one of six ways (`ReadyMoves`), and each of them keeps the order
  (`MovesInOrder`), since in a list without repetitions an element has one
  place, which append, pop and push shift for all alike.
* `SyncProofs`, semaphores and locks: what each operation of Sync preserves (`AcquireKeeps`,
  `DownTakesKeeps`, `UpKeeps`, `HandlerUpKeeps`, ...), as lemmas over
  `SyncInv`, which has three parts. `CpuInv` is the scheduler's. `LockInv`
  counts: the value of a lock's semaphore is 1 when nobody owns the lock and 0 when exactly
  one thread does, where owning spans the two windows in which `holder` does
  not show it (`op` "took" and "up"); `HolderLags` says what `holder` is in
  them. Mutual exclusion alone says nothing of `value` and is not inductive.
  `SleepInv` is `SleepersListed`, `NoLostWakeup` and that the idle thread never
  waits: that `sema_up` wakes a thread whose `thread_unblock` does not fail
  needs that those on a waiters list are just the BLOCKED ones in "sleep", and
  that a thread that was woken and finds the semaphore taken goes back to
  the list needs that it is then on none. Each lemma has as hypotheses what its
  callers must ensure (a `sema_up` needs value 0), so the three modules built on
  Sync share them.
* `LocksProofs`, the locks: `LocksExclude`, `LocksConsistent`, `LocksCountRight`,
  `LocksNeverPanic`, `LocksSleepersListed`, `LocksLoseNoWakeup`,
  `LocksImplementMutex`. `NestAgrees` ties the
  lock's count to the callers' own counts: it is why a caller that releases is
  the holder, so that the ASSERT of `lock_release` holds. The refinement follows
  step by step: `DownTakes` is Acquire, a nested `LockAcquire` is Reenter,
  `LockRelease` is Leave, `Up` is Free, all else stutters.
* `IoQueueProofs`: `IoQueueNeverPanics`, `ConsumerRegistered` and the
  refinement `QueueDeliversInOrder`. `PcOf` ties the place in `ioq_getchar`
  to the call of Sync the reader is in and to whether it holds the queue's
  lock; `ConsumerInv` says the registered consumer is asleep, still holding the
  lock, and that no other reader sleeps so. Hence the second reader cannot
  reach `ioq_wait`, whose ASSERT holds, and `wakeup` finds a thread it may
  unblock. That a woken reader finds a key is false with two readers (finding
  1); `ReadOf` states it for one, and the refinement needs it. The ring's
  arithmetic (`RingShape`, `RingPut`, `RingTake`) is proved from the definition
  of the remainder, for every buffer size.
* `DiskProofs`, the channel: `IdePanicsOnlyInBusyWait`, `IdeIgnoresNone`, `IdeDataIsOwn`,
  `IdeMovesWholeRequest`. What `intr_hd_handler`'s ASSERT rests on is `DoneInv`: while a command is
  under way (`Pending`), an interrupt is expected exactly if `disk_done` is
  down, and otherwise none is and it is down. So a late, repeated or unexpected
  interrupt either finds value 0 or does nothing. `PcOf` gives
  the phases that need the channel to the holder of its lock alone; `DevOf`
  then says that the disk works on the holder's command, or ignored it because it
  still wrote (`Ignored`), in which case `busy_wait` finds no DRQ and does not come to
  the data; and `DataOf` counts the sectors. `NoLateIrq` is what a disk that interrupts
  once per command adds: nothing is on the line that is not expected, so the wait
  of a write ends when the disk has written, and the next command finds it
  ready. The invariant is split at the panic of `busy_wait` (`CpuPart`), after
  which only types and the cause of the panic are left.
* `DiskProofs`, the tables of open files: `TablesOneInode` and
  `TablesCountSlots`, for any number of processes, files, slots and descriptors.
  Each needs the other: that `sys_unlink`, which looks only at the slots, leaves
  no inode of the file in memory rests on the counts, since a listed inode
  counts at least one slot. `TablesInv` also speaks of the middle of a call:
  an inode that a create has in hand is in its slot and not yet listed
  (`InCreate`), a file that is being read from the disk is not listed
  (`InOpen`), nor is one whose number is being freed (`InRemove`). They hold because
  calls follow each other (`Runs`): two opens at a time could both read the
  same inode.
* `DiskProofs`, the bytes of a file: `FileBlocksOwned`, `FileReadIsExact` and the
  refinement `FileImplementsByteFile`, for every geometry (`FileShape`: blocks
  are not empty, the root has one, and the arguments of calls are not negative;
  `FileAssumption` of OneFile says so). The invariant `FileInv` says which place of the file has
  which block (`PlacesInv`), and that the table is empty as long as it has no
  block, since a table that is made later shows the entries there were before.
  A write gives the places that lack a block the clear bits in order: that
  the n-th one exists is `NthFreeIs`, by the least index up to which n bits are
  clear, and that they differ is `NewBlocks`. Then `WritePlaces` says where the
  blocks are afterwards, `WriteContents` what they hold, and `WriteBytes`, with
  the arithmetic of block and offset, what each byte of the file is.
* `ProcessProofs`: `ProcessNeverPanics`, `PidPoolExact`, `WaitMissesNoExit` and
  the refinement `ProcessesImplementFamily`. None of these is inductive alone.
  That `sys_exit` finds its parent, and finds the right one, needs two things: a pid has
  one holder (`PidInv`: a `task_struct`, one that a fork is filling in, or a
  `wait` on its way to `release_pid`), and whoever is not of the boot has a
  parent that has not begun to exit (`FamilyInv`; an exit gives its children to
  init before it can be switched away from). The second would fail if the child
  of a fork half done lost its parent: it holds because a process exits only
  from user code, where it is filling in no child (`PlaceInv`, `ChildInv`). That `wait`
  misses no exit needs that no child of a sleeping parent is past its wake-up
  (`WaitInv`), and that nobody runs between that wake-up and the exiter's own
  sleep, since IF is off (`PlaceInv` at "hang"). Under the refinement
  the end of `copy_process` is Fork, `sys_exit` is Exit, the sleep in "hang"
  is Die, `thread_exit` in `sys_wait` is Collect, all else stutters. That every
  process has one parent, which its parent pid names (`MapIs`), rests on the
  same two parts.
* `MemoryProofs`, the pools alone: `ScanFirstFit`, that `bitmap_scan` is first
  fit on bitmaps of every length, and `PoolsGiveBack`, that a page goes back by
  the bit it was taken by, for every size of memory, with the one exception above. The
  argument of the first: the bit at which the loop returns ends a run of `cnt`
  clear bits (`HitEndsRun`), and the end of the first run is such a bit
  (`FirstRunIsHit`). That a set of naturals has a least element comes from the
  library's theorem that finite sets are well-founded under strict inclusion,
  used on the intervals `0 .. j`.
* `MemoryProofs`, the requests: `GrantsStay`, that `GrantsMapped` always holds, for any
  threads, memory sizes and preemptions, and `ScanCorrect`, that `ScanIsFirstFit` does. `GrantsMapped` is
  not inductive: that unmapping one grant spares another needs that grants do
  not overlap, and that needs the same of addresses which are reserved and not
  yet granted. `IInv` adds both, and that the pages of a request up to `done`
  are mapped. Mapped means `Entered`: the entry is there, or it is under a page
  table whose page somebody else got as well (`Spoilt`), which a memset may have
  wiped; only tables can lose entries, and those that do are in `garbled`
  (`ZeroedKeeps`). `Acquire` keeps `IInv` because `bitmap_scan` returns clear bits
  (`ScanFinds`); no lock is needed, since each change of a bitmap is by its
  owner or in the step that scanned it.
* `MemoryProofs`, the physical pages: `FramesStayExact`, that `FramesExact` always holds. `Owners`
  says of a pool that each page which is held is held in one place, with its bit
  set, and `Claim` what a request has in hand between two steps. `Owners` of the user pool
  is kept under preemption, because a request has that pool's lock from the
  scan to the bit it sets (`Locked`), as long as no page table has a second owner whose
  memset takes entries away: `Guarded` says when it is claimed. Of the kernel pool it is kept only
  as long as nobody was preempted, because a page table is taken from it without its
  lock. Without preemption `garbled` stays empty: a page that was found free is neither
  a table nor anybody's (`SpoiltStep`), and a granted page is no table (`GrantedApart`), so
  that no memset takes an entry away (`ZeroedNone`). Every step is one of four: the places
  stay, one takes a page, a page moves from the request to the table, some are
  freed. `GrantSound` is needed for the last: what is given back is mapped. The
  theorem assumes `WholeBytes`, that the kernel pool has a multiple of 8 pages: otherwise
  the first page of the user pool goes back by a bit of the kernel pool. With
  32 MB it has 3840.
* `MemoryProofs`, the processes' memory: `SpaceBits`, `SpaceKernelPages` and `SpaceHeaps`, that
  `BitsAreTables`, `KernelPagesExact` and `HeapExact` always hold. The first two are inductive
  together with the types. Of the heap what is promised is not: that freeing one
  arena leaves the others their pages needs that no two arenas overlap, and that a
  large block has no neighbour in its arena; and a page that `malloc_page` finds
  free must not be mapped, which is `BitsAreTables`. `SpaceInv` adds these
  (`Heap`). A step changes one process, so `OneChanges` reduces each of them to
  that one: its heap, its bitmap, and that the pool pays for what it holds now
  (`KernelStep`, on `TotalChanges`: a union of disjoint finite sets, one for each process, grows by
  what one of them grows). That an arena is empty exactly when its count is full
  is counting: its free blocks are as many as its blocks.
* `FsDiskProofs`: `TakenOnceHolds`, that `TakenOnce` always holds, for any number of
  processes, any partition and any number of power failures. What is promised speaks of
  the calls under way; that it stays so needs that nothing anybody may still write
  names a block of somebody else: inodes on the disk, sectors of the
  inode table that an `inode_sync` has read and will write back, its snapshot of
  the inode, tables of indirect blocks held by a call, and tables left on the disk. So the
  invariant (`TakenBy`) gives every block an owner, the place of a file it was
  first taken for, for good, and says that whoever names a block names it at its
  place and that its bit is set. Although `inode_sync`s undo each other, what
  they bring back was true once, and with creations alone stays true. `Alloc` extends the owners by the
  place the call will enter the block at (`Dest`), which the order of what is to
  do (`Todo`) and the room left in the directory (`Under`) determine. `Takers` is the hypothesis that
  where several processes make calls they create files and directories:
  `TakenOnce` is claimed for these, since a removal would undo what is said for good.
* `FsTreeProofs` and `FsDiskProofs`, between the calls of one process: `BlocksExactHolds`, `NamesExactHolds`
  and `SizeIsEntriesHolds`, that `BlocksExact`, `NamesExact` and `SizeIsEntries` always
  hold, for any partition, any names and any calls, growth into the indirect blocks,
  a full disk and a full directory included. In the middle of a call nothing these say is
  true: a block is marked and nobody names it, a table in memory names a block that its
  copy on the disk does not, a removed directory is neither in the tree nor free. So
  the invariant is in two layers. A *view* is the tree as the call means it: which inodes
  live, the inode, the table and the blocks of each, the entries of each block of a
  directory, and what does not fit a tree: blocks in hand, an inode that has no name yet
  or no longer, an inode whose size is late. `Agrees` says of a view that it is a
  tree (`Tree`: every live inode but the root and the one without a name has
  one name, and a set that holds the root and what its directories name holds every
  directory), that no block has two places
  (`Owned`), that sizes count entries (`Sizes`), that an empty file has no block
  (`EmptyFiles`), and that the bitmaps and sectors show it (`Laid`, `Shown`). What a change does to a view (a block that is put or dropped, an
  entry that is added or removed, an inode that begins or ends) is proved in
  `FsTreeProofs`, without steps; `FsDiskProofs` says which step makes which change. The *phase* of a call says which view it works on at each element of
  `todo`: what is in hand, what the disk does not have yet, and what the steps to come
  will make of it. `TreeInv` is that there is a view in the phase of the call under way.
  Between calls nothing is in hand, the disk has all of it, and the view is what the
  disk shows: its directories are `Dirs`, the least set closed under names.
  The hypothesis `Room` is that `sys_mkdir` finds room for its entry. It is needed:
  where the directory is full (`fs.c:550`) the rollback takes the inode number back in memory only,
  and the block of "." and ".." stays marked on the disk as in memory. The other calls
  that run out of room (`file_create`) are covered.

Assumptions: those the modules state of their constants (`SchedAssumption`,
`ThreadsAssumption`, `SyncAssumption`, `LocksAssumption`, `IoQueueAssumption`,
`IdeAssumption`, `ProcessAssumption`, `MemoryAssumption`,
`OpenFilesAssumption`, `FileAssumption`, `UserSpaceAssumption`,
`FsDiskAssumption`). The threads that wait when the story of
Locks, IoQueue or Ide begins are listed once, and neither main nor the idle
thread is among them: `thread_start` appends a `task_struct` it has just made,
and its ASSERT excludes one that is listed (`thread.c:101`).

Only model-checked: all liveness properties (fairness and ENABLED are outside
the prover's reach), the overrun half of finding 1, and of FsDisk `DirsComplete`, which
speaks of the disk in the middle of a call and after a power failure, where the view above
is not what the disk shows. Recursive operators
and induction over data are also out of reach; no module uses a recursive
operator.

## 5. Plan

Done: all components of the kernel with state of their own, in the order in
which they rest on each other, and the proofs of the scheduler, the locks, the
keyboard queue, the IDE channel, the processes, the memory of the kernel and of
processes, open files, and directories, with all that several processes may do at once and one process between
its calls. Open: `DirsComplete`, for which the view would have to say what the disk shows
at every access.

## 6. Not modelled

* Boot, console, strings and formatting, the TSS, descriptor tables, the key
  map: they run once, or no property depends on them.
* `identify_disk` and `partition_scan`, above.
* Program loading is modelled in what it does to memory; the ELF format and the
  fake interrupt frame are data layout.
* `sys_readdir`, `sys_stat`, `sys_getcwd` change nothing on the disk; the
  inodes the last leaves open are in OpenFiles.
* The shell and commands: sequential clients of the system calls, which the
  models replace by arbitrary clients. Pipes: `shell/pipe.c` is a stub.
* Two overlapping opens of one file (`inode.c:56`): OpenFiles has calls that follow
  each other.
* In-core inodes live in the heap of the process that created the file
  (`file.c:94`); objects have no address in OpenFiles.
* `ticks_to_sleep` (`timer.c:22`) is modelled in Ide, as a loop of `thread_yield` until
  the ticks have come; the wrap of `ticks` at 2^32 is not.
* What the system does once it reads or writes an entry of a page table that has a
  second owner: Memory stops there.
* The link fields of lists: a list is a sequence, and `elem_find` one step.
* Device timing, the TLB and the contents of data other than file bytes.
