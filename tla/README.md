# TLA+ models of the uniks kernel

uniks is a small SMP operating system for RISC-V (two harts under QEMU): a
preemptive kernel with per-hart schedulers, processes with fork/exec/wait,
sleeping locks, timed sleep, pipes, an ext2 file system on a virtio disk with a
write-back block cache, copy-on-write memory and a terminal. This directory
holds TLA+ modules translated from its C source, TLC configurations that check
them on small instances, and proofs checked by TLAPS. `PROJECT.json` maps every
definition to the lines it models and lists runs, mutants, hazards and theorems.

## 1. Inventory

| Component | State | Operations | Interacts with |
|---|---|---|---|
| Scheduler (`process/proc.c`) | `pcbtable[].state`, `ticks` (time slice), `cpu_t.proc`, `pcblock[]` | `scheduler`, `sched`, `yield`, `proc_block`, `proc_unblock_all` | every sleeping operation; timer interrupt |
| Spin lock (`sync/spinlock.c`) | `locked`, `cpu`, per-hart nesting count | `acquire`, `release`, `push_off`, `pop_off` | interrupts of the same hart |
| Mutex (`sync/mutex.c`) | `locked`, `pid`, `waiters`, its spin lock | `mutex_acquire`, `mutex_release` | scheduler |
| Timed sleep (`sys_msleep`, `time_wakeup`, `libs/priority_queue.c`) | `sleep_queue`, `ticks` | sleep, wake by timer, remove by kill | scheduler, clock |
| Process life cycle (`proc.c`, `sysproc.c`) | pids, parent, `child_list`, `wait_list`, `w4child`, `wait_lock` | fork, exit, reparent, wait4, kill | scheduler, files, memory |
| Pipe (`file/pipe.c`, `libs/queue.c`) | ring, two ends, two wait lists | alloc, read, write, close | file table, inode table, scheduler |
| File table and descriptors (`file/file.c`, `sys/sysfile.c`) | `f_count`, idle queue, `fdtable`, `icwd`, `cwd` | open, creat, mkdir, link, dup, pipe, close, chdir ... | inodes, pipes, fork, exit |
| Inode table, path walk (`fs/ext2fs.c`) | `inode_table`, `i_count`, `i_valid`, `i_mtx` | `iget`, `ilock`, `iput`, `namex`, `ialloc`, `ifree` | file calls, disk |
| File contents, directories (`fs/ext2fs.c`) | block bitmaps, block maps, directory entries | `balloc`, `bmap`, `bunmap`, `writei`, `itruncate`, `dirlink` | cache |
| Block cache (`device/blkbuf.c`, `blk_dev.c`) | buffers, hash, LRU list, wait list, `syncing`/`rw_operating` | `getblk`, `blk_read`, `blk_release`, `blk_write_over`, `blk_sync_all` | disk driver, mutex |
| Disk driver (`device/virtio_disk.c`) | descriptors, rings, `b_disk` | submit, completion interrupt | device, cache |
| Page allocator (`mm/phys.c`) | order lists, per-page count and order, slub lists | alloc, free with merging, dup/undup, kmalloc | memory, every component |
| Virtual memory (`mm/vm.c`, `process/execve.c`) | page tables, `brk` | COW copy, page faults, brk, exec | page allocator, fork, exit |
| Terminal (`device/tty.c`, `uart.c`) | receive and cooked queues | two interrupt handlers, read | scheduler |

What is hard in it: wake-ups against going to sleep, two harts on one process,
interrupts on top of held locks, the order of `wait_lock` and the process locks
and of the inode mutexes along a path, state that was true before a sleep and
is used after it (cache, inode table, a shared page), buffers, slots,
descriptors and fcbs at their limit, reference counts that decide when
something is freed, ring indices that wrap, calls that fail half way. Each
instance is a "hazard" in `PROJECT.json`, at its line, with the properties that
would catch it, or with a note why none does.

What makes the components correct:

* scheduler: a process runs on one hart at a time; a blocked process can be
  found by a waker; a ready one runs in the end; the kernel's own assertions;
* mutex: exclusion, no lost wake-up, a wanted lock gets taken;
* life cycle: pids unique and never lost; every exited child can be found by its
  parent; no lock cycle; fork and exit finish;
* pipe: a byte stream; no one asleep on a true condition; end of file seen;
* files and inodes: counts cover references; one slot per inode; no fcb lost and
  nobody waiting for one that is idle; names lead to live inodes; no ring of
  inode locks; the cwd string names the cwd;
* file contents: a file is an array of words; every used block is in exactly
  one place; directory entries lie apart, within the directory;
* block cache: the right contents, no write lost, sync means on disk; the free
  list is exactly the unused buffers;
* disk: each request transfers its own buffer once and ends;
* memory: blocks tile the memory; counts equal mappings; each process sees a
  memory of its own; objects of `kmalloc` do not overlap;
* terminal: a reader gets the edited line, and does not sleep beside a line
  whose end it could have been woken for.

## 2. Modules

| Module | Models | Role |
|---|---|---|
| `Sched` | scheduler, context switch, mutex, msleep, timer interrupt | core |
| `SleepLock` | what a mutex promises | abstract specification of `Sched`'s mutex |
| `SchedProofs`, `PipeProofs`, `BlkCacheProofs`, `DeviceProofs` (about `VirtioDisk` and `Tty`), `WaitExitProofs`, `FilesProofs` and `NamesProofs` (both about `Files`, the second also about `DirBlock`), `VmProofs` | | inductive invariants and theorems (section 5) |
| `PriorityQueue`, `MinQueue` | the heap of the sleep queue; what it promises | algorithm against its abstraction |
| `WaitExit` | allocpid, fork, exit, reparent, wait4 | life cycle, on top of an abstracted scheduler |
| `Pipe`, `ByteStream` | pipe and ring; what it promises | component and abstraction |
| `Files` | inode table, path walk, fcb table, descriptors, the file calls, fork and exit | composition of inodes, files and processes |
| `Ext2`, `PlainFiles` | block bitmaps, block maps, truncation; what they promise | algorithm against its abstraction |
| `DirBlock` | the entries of a directory block | component |
| `BlkCache` | block cache and its clients | component |
| `VirtioDisk`, `BlockDevice` | disk driver, device, completion interrupt; the one-step transfer `BlkCache` assumes | component and abstraction |
| `Phys` | buddy allocator and slub caches | operators, used by `Vm` |
| `Vm`, `PrivateMemory` | page faults, copy-on-write, fork, exit, exec over `Phys`; what programs are promised | composition and abstraction |
| `RingQueue` | `libs/queue.c` | operators, used by `Tty` |
| `Tty`, `EditedLine` | serial and terminal interrupt handlers, reads; what a reader is promised | component and abstraction |
| `MC*` | | the instances TLC checks |

A definition whose name differs from its neighbour's by a suffix (`PushBehind`
and `queue_push`, `Found` and `FoundEarly`) is that neighbour with a plausible
mistake in it; only the mutants use it.

### Sched

One step is one acquisition or release of a spin lock or one `switch_to`; what
the code does under the lock that protects the data belongs to the step that
takes it. A spin lock is its owner hart (`lk->cpu`). `ctx[h]` says where hart
h's `scheduler()` is (`scan`, `check`, `back`) or that it has switched to a
process (`proc`); `pc[p]` where the kernel thread of p is; `ih[h]` where the
timer handler on top of either is. A timer interrupt comes only to a hart that
owns no spin lock: that is what `push_off` in `acquire` ensures. The wait list is
a set, so wake-ups happen in any order. The sleep queue is a set of
`<<tick, pid>>` with the order of `__pair_less_than`; `PriorityQueue` shows that
the array behaves so. Left out: the `killed()` exit at the end of a trap, the
registers and page tables of a switch, and I/O interrupts, which take the same
path as the timer's.

### WaitExit

Locks are named by the process whose thread owns them. The scheduler is reduced
to what `Sched` establishes: dispatch hands a ready process its own `pcblock`,
and the lock held across `sched()` is released once the process is off its
stack. `freeproc()` is one step; the files and the memory it gives back are in
`Files` and `Vm`. A process that still points to a freed pcb stops in
`ws_stale`: what it does is undefined. `killed()` is modelled as false, since
only a process's own faults and kill calls set its flag. `StatusFaults` says
whether wait4's status address may be bad, `WaitPids` which pids programs wait
for.

### PriorityQueue

The array with slots above the heap kept as they were last written, because
`down()` reads one of them. A pid is pushed at most once at a time, as
`sys_msleep` does. `done` records the last call with what it was given or gave back,
in the heap and in `MinQueue`, so that a pop of any entry but the least is no step of
`MinQueue`, although its `Drop` may remove the entry of a given pid. `pop_k` is not
modelled: nothing calls it, and with two entries of one key its inner loop would run
below the start of the array.

### Pipe

A step is one iteration of a loop under `pi->lk`. `proc_block` and
`proc_unblock_all` are atomic here. `fds` gives the ends each process has open,
so `f_count` of an end is the number of its holders; `Fork` duplicates,
`Close` drops, the last one goes on to `pipeclose`. When both ends are closed the
inode slot is free and `PipeAlloc` may use it again.

### Files

`slot` is `inode_table` (device, number, `i_count`, `i_valid`, mode, links),
`imtx` the holders of `i_mtx`, `iwait` and `fwait` those asleep in `iget()` or
`pipealloc()` and in `file_alloc()`; `dnode` and `entries` the inodes and
directories on disk; `files` and `idle` the fcb table; `fdtable`, `icwd` and
`cwd` belong to a process. A system call is a path of steps, each one a section
under a table lock or what is done with an inode between two points at which
the process may wait: `PathCall`, `WalkLock`, `Look`, `WalkEnd` are `namex()`;
`Create*` is `create()` with its undo; `LinkOld`, `LinkNew`,
`LinkUndo`, `Linked` are `sys_link`; `Pipe*` is `sys_pipe`; `ITruncate`, `IFree`,
`IDrop` are the deletion inside `iput()`, during which `inode_table.lock` is
free. `Dents`, `DentsFault`, `DentsEnd` are `sys_getdents`, which keeps the directory
locked while a page fault on its buffer reads the program's inode. A path has two
forms, because two parsers read it: `elems`, the names `skipelem()` gives `namex()`, and
for `chdir` `text.toks`, the pieces `abspath()` sees, where `"gap"` is an empty piece;
`cwd` is a sequence of such pieces. A failed assertion sets `panic`. References the code never gives back
(stat, creat, mkdir, some paths of chdir) stay in `i_count`, as in the code.

### Ext2

A block is `PER` words, each data or a block number, so that an index block
starts with what the block held before. `Map` and `Index` are `bmap()`, `Copy`
and `Wrote` the loop and the end of `writei()`, `Grow`, `Shrink`, `CutDirect`,
`CutIndexed`, `Down`, `Up`, `UpTop` and `CutDone` are `itruncate()` with
`bunmap()`. One call runs at a time, because callers hold the file's mutex and the
bitmaps' buffers are locked. `bad` ends a behaviour where the code leaves what it
defines (section 3).

### DirBlock

`dents` is a directory as a sequence of entries, each a name and the distance to the
next, and `size` its `i_size`. `DirMake` is `create()` of a directory, `DirLink` a call of
`dirlink()`, which scans with `dirlookup()` and splits the first entry with room
(`Split`). The room test subtracts without a sign and ignores the alignment, and the
model does both: an entry may reach beyond its record, `writei()` then makes the
directory grow, and the next call writes behind the end of the first block (section 3).
Every call holds the directory's mutex and touches nothing else of the file, so this is
a module apart from `Ext2`; `Files` uses its result, that names are only ever added.

### BlkCache

Contents are `<<block, version>>`. Clients read, change a part of a block
(through `blk_read`), or write a whole block (through `getblk`), besides sync. A
disk transfer is one step under the buffer's mutex, which is what `VirtioDisk`
implements. The write-back branch of `blk_read` is dead code and one device is
modelled. The NULL return of `getblk` is unreachable, since `pages_alloc` asserts
success; so is the failure path of `blk_read`, since the interrupt handler
asserts the status. The gate of `syncing` and `rw_operating` is left out: inode
and bitmap accesses do not pass it, so sync runs beside any access. `spoilt` is a
history variable: the blocks whose contents the code has given up, in one of the four
ways section 3 lists: its new buffer is still valid or dirty from another block
(`Inherits`), it has two buffers (`Doubles`), its dirty buffer is taken away (`Evicts`), or
it is written whole into a buffer that is not valid (`Unread`). Buffers are recycled
freely; what is said of contents is said of the blocks outside `spoilt`, those evicted
clean among them, and so holds beside any amount of recycling of other blocks.

### VirtioDisk

A process's step is one `virtio_disk_lock` section up to the next sleep. The
device takes announced chains in order and completes them in any order; `used`
and `avail` are rings of `VIRTIO_DESC_NUM` entries whose indices count modulo
`IndexSpan` (2^16 in the code). The handler takes one step per used entry with
the lock held, and re-reads the used index each time. `Start` is the number of
requests already served, so that the indices wrap inside the run.

### Phys and Vm

`Phys` has the free lists and the record of orders and counts as one value, with
`pages_alloc` and `pages_free` as operators; the caches of `kmalloc` likewise.
`Vm` gives each page a lock, each process a page table (a function from virtual
pages to a page and `PTE_W`), and one action per section of `buddy_lock` or of a
page's lock: `do_no_page`; `do_wp_page`, of a store to a page that may not be written or a
fetch of instructions from a page of text that was loaded without `PTE_X`, with `WpCopy`; one
`copy_pgtable` step per page of a fork; one `release_phypg` and `FreePage` per page
of an exit or exec. Besides them the kernel takes and frees blocks and small
objects.

### Tty

`do_uart_interrupt` collects a burst in the receive ring, `copy_to_cooked` edits
it into the ring that `tty_read` takes from. The rings are those of `RingQueue`.

## 3. Disagreements between the code and its comments or assertions

Modelling turned up places where the code does not do what a comment, an
assertion or its caller expects. The passing runs stay clear of them by their
constants, by a history variable that says where they were met (`spoilt`, `plain`), or
stop at them; where a property is named, checking it with the constants or the change
shown makes TLC produce the trace.

| Property | In | With | The code | Against |
|---|---|---|---|---|
| `NoLostExit` | `wait_any` | as it is | `wait(-1)` gives up `wait_lock` before it sets `w4child` (`sysproc.c:121`): a child that exits in between wakes nobody | "Helps ensure that wakeups of wait()ing parents are not lost", `proc.c:43` |
| `LockCycleFree` | `wait_any` | `WaitPids = {2}` | wait(pid) takes `wait_lock` with a process lock held (`sysproc.c:144`) | "Must be acquired before any p->lock", `proc.c:44` |
| `ReapedByParent` | `wait_any` | `WaitPids = {2, 3}` | wait(pid) reaps a process that is not the caller's child (`sysproc.c:133`) | comment on `do_exit`, `proc.c:563` |
| `ChildLists` | `wait_any` | `WaitPids = {2, 3}`, or `StatusFaults` with `TRUE` | wait(pid) leaves the node in the parent's `child_list` (`sysproc.c:160`); a bad status address strands the unlinked zombie (`sysproc.c:153`) | assertion in `sys_wait4`, `sysproc.c:105` |
| `IndicatedContents` | `blk_data` | without `Unread` in `spoilt` | a block written as a whole is dirty but not valid, so the next `blk_read` reads the disk over it (`blk_dev.c:63`) | comment on `blk_read`, `blkbuf.c:143` |
| `UniqueBuffer` | `blk_full` | as it is | no second search after the sleep in `get_LRU_blk` (`blkbuf.c:109`) | comment on `getblk`, `blkbuf.c:87` |
| `IndicatedContents` | `blk_data` | without `Inherits` in `spoilt` | `b_valid` survives recycling (`blkbuf.c:156`) | comment on `blk_read`, `blkbuf.c:143` |
| `NoWriteLost` | `blk_data` | without `Evicts` in `spoilt` | the write-back test is never true (`blkbuf.c:150`) | "write-back strategy", `blkbuf.c:151` |
| `ScanEnds` | `ext2` | as it is | the room test does not align (`ext2fs.c:711`): the last entry may reach 4 bytes beyond its record, `i_size` grows, `getdents()` returns the last name again, and the next `dirlink` finds room for anything there, because the difference has no sign, and gives the new entry a record of 65532 bytes | "The distance between two entries is enough to insert new one", `ext2fs.c:710` |
| `CwdNamesIcwd` | `files` | for all of `alive` instead of `alive \cap plain` | `abspath()` keeps empty pieces and cuts at `\` too (`sysfile.c:404`), `skipelem()` skips runs of `/` (`ext2fs.c:754`): from the root `chdir("a//")` leaves `/a//` and then `chdir("..")` leaves `/a/`, with the root as inode; and a path like `a/` or `a/.` does not end the string, so that what the buffer held before comes next | `getcwd` returns the string, `sysfile.c:390` |

The three about recycled buffers need more blocks in use than the 8192 buffers of
`NBBUF`; the disk of the makefile has 65536. The others, visible in the definitions or
their comments:

* priority queue: `pop_v` never examines the last slot (`priority_queue.c:101`),
  so an entry may stay although the header says "Pop up all the elements that
  have the same value"; `Drop` in `MinQueue` therefore may leave some.
* exit: `assert(parentp->state = TASK_BLOCK)` (`proc.c:606`) assigns. `do_exit()`
  closes files as a zombie with two spin locks held (`proc.c:589`). `sys_kill`
  (`sysproc.c:194`) sets the flags of the caller, and takes a sleeping target out
  of the queue without waking it.
* terminal: a reader is woken only if the last character of a burst ends a line
  (`tty.c:70`); a read that meets EOT first returns 0 although a comment
  guarantees one character; the size a program passes reaches an assertion; a
  line may be split between two readers.
* page allocator: merged blocks keep the order recorded for their first page, so
  some merges are missed (`phys.c:216`), and two free blocks of the greatest order
  reach past the array of lists; the NULL handling of callers is dead, since
  `pages_alloc` asserts.
* memory: exec with more than a page of arguments maps pages of count 0; page
  tables are never freed; shrinking `brk` does not unmap; exec's error paths leak;
  `free_mm_struct` reads a node after `kfree`.
* disk: processes that find no room and give descriptors back wake each other
  in turn; an error status of the device panics.
* files: `open()` without O_CREAT, O_APPEND or O_TRUNC never reads the inode, so
  close, read, lseek and chmod use what the slot had before (`file.c:81`, `:110`);
  `stat`, `creat` and `mkdir` keep their reference; `pipe()` with a bad address keeps
  two descriptors of count 0, and `truncate()` of a missing file unlocks NULL, both
  of which end in a panic; `dup2` does not check the old descriptor; those who
  wait for an inode slot are woken only by a deletion, and before the count
  drops (`ext2fs.c:187`); a closed pipe frees its slot without lock or wake-up
  (`file.c:89`); two failing creates of one number can leak it.
* file contents: `balloc` skips its own group without counting it
  (`ext2fs.c:127`) and reports a full disk as -1 where `bmap` tests for 0; an index
  block is not cleared; `itruncate`'s assertion counts index blocks on one side
  only; error returns leave
  `rw_operating` raised, after which sync spins (`blk_dev.c:10`);
  `sync_sb_and_gdt` copies the size of a pointer; `ifree` divides `i_no` and not
  `i_no - 1` (`ext2fs.c:231`).

## 4. Runs and bounds

| Run | Instance | Shows |
|---|---|---|
| `sched` | 2 harts, 2 processes besides idle, time slices of 2, 2 ticks, mutex and msleep | one hart per process; the kernel's assertions; no lost wake-up; the mutex is `SleepLock`, with its fairness; every ready process runs; due sleepers return |
| `wait_any` | 4 pids, `wait(-1)` | pids, child lists, lock order, who reaps; fork and exit finish |
| `wait_pid` | 3 pids, `wait(pid)` too, bad addresses | whoever is woken is asleep |
| `pq_heap` | 5 sleepers, 2 keys | refinement of `MinQueue`: pop takes the least, nothing is lost |
| `pipe` | 3 processes, 2-byte ring, transfers up to 2 | `ByteStream`, sleepers, life of the page; closing releases the peers |
| `blk_data` | 2 processes, 3 blocks, 2 buffers, 1 write per block, all operations | contents, no write lost, sync, of the blocks not in `spoilt` |
| `blk_full` | 3 processes, 3 blocks, 2 buffers | free list, sleepers |
| `disk` | 3 processes, 8 descriptors, 4 calls, indices modulo 16 from 14 | rings, room, `BlockDevice`, every request ends |
| `tty` | 2 readers, rings of 2 and 3, bursts of 3, 5 kinds of character | `EditedLine`, no reader asleep beside a line |
| `mem` | 4 pages, 2 processes, 3 virtual pages, one kernel block, 2 objects | partition, exact counts, objects apart, `PrivateMemory` |
| `ext2` | 2 files, 2 groups of 10 blocks, 1 direct block, 2 words a block, 4 calls; or 6 names of 2 to 17 bytes, a block of 88 bytes | exact bitmap, `PlainFiles`; entries lie apart, within the directory |
| `files` | 2 processes, 3 slots, 4 inode numbers, 3 fcbs, 2 descriptors each, 4 calls | counts, slots, fcbs, names, lock order, cwd |

Why these are enough to be interesting: two harts is what the makefile builds,
and a holder, a waiter and a timer on two harts meet at every lock; four pids
let an orphan meet a sibling; transfers fill the pipe's ring, so writers block
in the middle; three blocks on two buffers make buffers change their block, clean and
dirty; three processes on two buffers run the cache dry, and on eight
descriptors run the driver out of them while the ring indices wrap; bursts
overflow both rings of the terminal; four pages let blocks split, merge and run
out while a page is shared and copied; with one direct block and two words a
block, files of eight blocks use all three levels of index; names of six lengths fill a block
of 88 bytes exactly, spill over its end and go on behind it; three slots with
two taken make a file, a pipe and a waiter compete for one. Counters are capped
by named constants (`MaxTicks`, `MaxSleep`, `MaxLen`, `MaxVer`, `MaxCalls`,
`MaxBurst`, `MaxCnt`, `MaxOps`, `MaxKernel`, `MaxObjs`). Symmetry is used only
where no liveness is checked.

The deadlock check is off where the system really may stop: in `wait_*` (the
lost exit of section 3), `pipe` (a process that reads an empty pipe whose only
write end is its own), and where the number of calls is bounded or memory or a
table may be exhausted (`disk`, `mem`, `ext2`, `files`). A behaviour of `mem` also
stops where `pages_alloc` would assert.

`MCExt2` runs `Ext2` and `DirBlock`, which share no state, one or the other from the
initial state, since all interleavings would only multiply their states.

`blk_data` follows a behaviour until the cache has given up every block (constraint
`SomeSound`): from there on nothing is left to check. The paths of `files` include `/` and
`//`, which `abspath` cuts into one and two empty pieces and `namex` into none; of what the
buffer held before, one piece is kept (`OldText`).

The type invariants (`TypeOK` of `Sched`, `WaitExit`, `Pipe`, `BlkCache` and
`Files`) hold on the same instances; they are kept for the proofs and are no
properties of the runs.

Every property of a run has a mutant in `PROJECT.json`: a definition changed as a
plausible bug would, under which TLC finds the property violated.

### Fairness

`Sched`: strong fairness of each hart's own steps, of its handler and of its
timer. A hart never stops; a spin lock that keeps being released is obtained by
a hart that spins on it (the test-and-set of the hardware is fair enough; weak
fairness would let two harts starve a third for ever); timer interrupts keep
coming. Which system calls programs make is not constrained. `WaitExit` and
`Pipe`: strong fairness of each process's kernel steps, which is what `Sched`'s
liveness gives them. `VirtioDisk`: weak fairness of processes inside the driver,
of the device (it fetches what is announced and completes what it fetched) and
of the interrupt; nothing makes programs issue requests. `SleepLock` promises
only that someone gets a free lock, because a woken waiter may be overtaken any
number of times.

## 5. Proofs

The modules `*Proofs` hold theorems for every value of the constants: any number
of harts, processes, pids, buffers, blocks, descriptors, any capacity, any bound
and any choice of system calls. Assumed is only what each component's named
ASSUME says (sizes are positive, sets of processes are finite where a count is
taken, special values such as "no owner" or "no block" name nothing else), and
for some theorems a hypothesis that is written in their statement. In every
module the proof that a step preserves the inductive invariant has one lemma per
action and, under it, one step per conjunct that the action can disturb; each
inductive invariant was first checked by TLC.

### SchedProofs

`OneHart` (`RunsOnOneHart`), `NoAssertionFails` (`KernelAssertions`) and
`WakersFindAll` (`WakeupsFind`) are the safety invariants of run `sched`; the
latter two are conjunctions, whose parts are `SchedIsCalledRight`,
`WakersAreRight`, `NeverReacquires`, `WakeupsAreKept` and `BlockedCanBeWoken`.
Besides them `TypeCorrect`, `MutualExclusion`, and `Refinement`: the mutex
implements `SleepLock`. All follow from `Invariance`. None of the invariants is
inductive alone; `IInv` adds what the code relies on without saying it:

* `CtxInv`: a hart in `check`, `proc` or `back` works on the entry its loop index
  names, and owns that entry's lock except while the process runs;
* `OneHartInv`, `OffHartInv`: a process on no hart stands at a point where it can
  be resumed, with its lock free, ready or blocked;
* `PcbInv`, `MlkInv`, `SlkInv`: who may own each spin lock, by program point; this
  is what excludes a handler meeting its own hart's lock;
* `RunInv`: which state goes with which program point;
* `WaitInv`, `OnceInv`: a process is on the wait list, in a waker's hand or in the
  sleep queue in at most one way, and only at the points where it sleeps;
* `SleepInv`, `HolderInv`, `WakeInv`: the sleep queue, the mutex's holder and the
  waker's hand agree with the program points.

### PipeProofs

`PipeIsSound` (`PipeSound`) and `StreamRefinement` (`IsByteStream`): the ring is a
queue for any capacity, wrap included. Sleepers alone are not inductive: in the
middle of its loop a writer has filled an empty ring without having woken the
readers yet. `SleepInv` says which of the two sides may be asleep beside which
content, by where the owner of `pi->lk` stands; `UserInv` and `CloseInv` tie the
counts to the processes inside, so that no page goes under a sleeper; `RingInv`
relates head, tail and size. For the refinement the bytes in the ring are the
sequence read from `head`; a lemma each shows that push appends to it and pop
takes its head.

### BlkCacheProofs

`PoolIsExact` (`PoolExact`): whatever clients do, buffers running out included, the free
list is exactly the unused buffers and nobody sleeps beside a free one.

`ReadsIndicatedContents` (`IndicatedContents`), `NoWriteIsLost` (`NoWriteLost`) and
`SyncIsPersistent` (`SyncPersists`) follow from `CacheContents`, for any number of blocks and
buffers and any operations, whole writes included. There is no hypothesis on the size of
the cache: a block drops out of what they say at the moment the code gives up its
contents (`spoilt`), and not before. So they show that the four ways listed under
`BlkCache` are all the ways in which contents go wrong, and that a block which meets none
of them is unharmed by the recycling around it. For blocks outside `spoilt`, `HashUnique`
says that there is one buffer at most, `BufInv` that a valid buffer is current and a
dirty one valid, `DiskInv` that the disk is current unless there is a dirty buffer, and
`SyncInv`, for a running sync, which blocks may still differ from what was written when it
began. `Doubles` needs three processes, two of which sleep for one block, so only the
proof meets it.

### DeviceProofs

The module extends both drivers, which share nothing: `Tty`'s own names (`TtyInit`,
`tty_wait_list`, `reader_pc`) keep the two apart.

*The disk.* `RingsAlwaysAgree` (`RingsAgree`), `NobodySleepsWithRoom` (`NoSleepWithRoom`) and
`DriverImplementsDevice` (`ImplementsDevice`), for any table of at least three
descriptors and any index span that is a multiple of it, as 2^16 is of 8.
`ChainInv` gives each request in flight its three descriptors and says that the
chains are disjoint and with the free ones make up the table; `RingInv` says what
each slot between two indices stands for, modulo the span, and that announced,
working and ended chains are distinct and at most a table full, which is why the
slots of the rings are never overwritten; `SleepInv` says who sleeps on what.
Together with `BlkCacheProofs` this covers a disk access from `blk_read` to the
device: `BlockDevice` is the transfer that `BlkCache` takes as one step.

*The terminal.* `TerminalImplementsLine` (`ImplementsLine`): the terminal is the sequence of
characters that was typed, edited, cut to the newest that fit, and read from the
front up to a line's end. `NoSleeperMissesALine` (`SleepersMissNoLine`) and
`RingStaysSound` come with it. The work is in `queue.c`: `Ring` says that the slot
behind the tail is the one `size` slots behind the head up to one turn in either
direction, because the tail starts at -1 and `queue_back_pop` may leave it one past
the last slot, where the next push folds it back; a lemma each shows that
`queue_push` appends, `queue_front_pop` takes the first and `queue_back_pop` the last
element (`PushAppends`, `FrontPopTail`, `BackPopFront`). The loops of
`copy_to_cooked` and `tty_read` are recursive functions: that they have a value at
all, and that the value is what editing or reading a sequence gives, is an
induction over their turns (`CookedLoop`, `CookedAllIsEdited`, `PopFrontRest`).

### WaitExitProofs

`PidsAreConserved` (`PidPool`) and `WokenProcessesAreAsleep` (`WokenAreAsleep`) hold
for all calls, waiting by pid and bad status addresses included. They follow from
`Life`: who owns `wait_lock` and every process lock (`WlockInv`, `PlockInv`), the
process each function has in hand and in which state (`TgtInv`), who is asleep
and on which list (`SleepInv`), and that a pid is free, taken by one `allocpid`, in
use or about to be cleared (`PidInv`).

`ChildListsAgree` (`ChildLists`), `NoLockCycle` (`LockCycleFree`) and
`ZombiesAreReapedByParents` (`ReapedByParent`) are proved under `WaitOnly`: programs
call wait4 as `wait()` with a mapped status address, which is how the two programs
of the repository that wait (init and the shell) call it; section 3 shows that
each is false otherwise. They need `Family`: every living process is on its
parent's list, or in the hand of a parent that has just unlinked it to move or
reap it. No cycle of waiting exists because whoever holds a process lock that
somebody wants either waits for nothing or holds a lock whose owner is not
waiting: chains are at most two long (`ChainsEnd`).

### FilesProofs and NamesProofs

`FilesFcbsAccounted` (`FcbsAccounted`), `FilesOneSlotPerInode` (`OneSlotPerInode`),
`FilesCountCoversRefs` (`CountCoversRefs`), `FilesNamesLive` (`NamesLive`),
`FilesNoLockRing` (`NoLockRing`) and `FilesCwdNamesIcwd` (`CwdNamesIcwd`): all the safety
properties of `Files`, for any number of processes, slots, fcbs and descriptors and
any calls, the failing ones included. The last three also take the disk at boot to
be one that `mkfs.ext2` and the `fs` rule of the makefile write (`TreeAssumption`): a
finite set of names besides `.` and `..`, which every directory has; `..` leads to the
directory that has the name; and what has entries or is led to has a name itself.
Four inductive invariants carry them, each using those before it: `FcbInv` and
`TableInv` in `FilesProofs`, `NameInv` and `CwdInv` in `NamesProofs`.

`FcbInv`: each fcb is idle, bare (named by one descriptor with `f_count` 0) or in use
(`FcbState`). That is not inductive alone: `fcbno_free`, the later steps of `pipe` and
of `dup2`, and `exit` rely on descriptors that an earlier step found or made. `Control`
says for each process and program point which descriptors it has in hand and in
which state; `Eff` looks through the steps in which a call is putting the last
reference of an inode to the point where it will go on.

`TableInv`: what `CountCoversRefs` counts is regrouped as one set of `Places` (every
fcb, every current directory, every variable of every call), each of which names
at most one slot (`Held`). A step changes what one or two places name and books the
change on one count, and `OnePlace` (or `FewerPlaces`, when references are dropped
without `iput`) says that the counts then still cover the places; so a process that
goes to sleep or is overtaken between two steps keeps its slot because its
variable is a place. `PutKeeps` and `GotOne` state what `iput` and `iget` do to the
table, the three steps of a deletion included. `RefsAreHeld` connects the places to
the definition that TLC checks.

`NameInv`: an inode is *settled* when it is the root or has a name, and a slot *sits*
when it holds a settled inode. There is no unlink, so a settled inode stays settled,
and the invariant is that every reference except that of a `create` in progress sits,
and that the link count of a settled inode covers its names, the links that `link`
has added for a name not yet made and, for the root, its own. Hence `iput` frees
nothing but the inode a failed `create` gives up (`SitsLives`, `Dies`). The parts:
`TreeInv` for the directories, `LinksInv` for the counts, `InSlotInv` (a slot once read
shows the disk, although `ilock` and the calls write the two in different steps),
`LockInv` (who owns a mutex is at a point where it holds it), `PairInv` (two creations
never have the same number, nor one that is just being freed), `HomeInv` and `SizeInv`
for current directories and open files, and `CallInv` for each point of each call. A
step of one process has to keep what all others rely on: `Calm` says what they need
(slots in use keep their inode, no entry goes, their mutexes stay) and most steps are
`TameStep`s, which are calm because they leave the disk alone (`TameCalm`).
`NamesLive` is a part of it. For `NoLockRing`: of the processes of a ring each holds a
mutex and waits; by `LockInv` that is only `create` before it locks its new inode and
`getdents` before its page fault locks the program's (`WaitingHolder`). Both hold a
directory with a name (`WaitersHoldDirs`), while the one waits for an inode without a
name and the other for a regular file, so nobody in the ring holds what another waits
for.

`CwdInv`: `sys_chdir` computes the new string from the text of the path and takes the
inode from the walk, and the two agree although the walk locks one directory at a
time while others add entries. `Leads` says that the names of a string lead from the
root to an inode; `Traces`, that during `chdir` the string `abspath` has after as many
elements as the walk has passed leads to where the walk is. Both are about processes in
`plain`, a history variable: those whose string was made by paths that `abspath` and
`namex` cut alike and that end the string (`Plain`: the same pieces, but for one `/` at
the end, and not a path like `a/`). Without that the property is false of the code
(section 3). The step is `LeadsTurn`:
`.` keeps the place, a name goes down (`LeadsDown`), and `..` drops the last name because
`TreeInv` makes `..` of a directory the one that names it (`LeadsUp`). `AbspathTurns` shows
that the recursive function in `abspath` is this element-wise string. `Steady` is what a
step of anybody keeps: numbers of slots in use and entries (`OffQuiet` to `OffCloses`).

`DirEntriesTile` (`EntriesTile`) and `DirEntriesStay` (`EntriesStay`), at the end of
`NamesProofs`: whatever names are added in whatever order to a directory of whatever
block size, the entries lie apart and within the directory and none moves, which is what
`Files` takes for granted when it keeps a directory as a function of names.
`EntriesStay`, an action property, is stated in `DirBlock` and no property of a run. Both
include the entries that reach beyond their record and the directories that grow. The
invariant is `DirInv`: an entry before the last takes exactly what it needs (`Tight`), so
only the last one has room (`RoomIsLast`), and it reaches to the end of the block, or,
after a spill, of the 65536 bytes that the record counts modulo; it may need at most 4
bytes more than its record (`RoomFor`), because 8 bytes of header and a name are aligned
upwards by at most 3 and records are multiples of 4. A split of the last entry keeps this
(`SplitTiles`). `SplitReach` says what the split does to the bytes that the first k entries
take; to show it, `ReachSums` first shows that the recursive `Reach` is the only function
that starts at 0 and grows by the lengths.

### VmProofs

`VmPagesPartition` (`PagesPartition`), `VmCountExact` (`CountExact`),
`VmObjectsApart` (`ObjectsApart`) and `VmImplementsPrivateMemory`
(`ImplementsPrivateMemory`), for any memory, any greatest order up to 30, any caches
and any processes and virtual pages. Assumed besides the sizes is that an object of
the greatest cache and the header fit a page (1536 and 40 bytes in 4096), and that
processes and virtual pages are finite sets.

*The buddy system.* `BuddyInv` is: the free blocks and the blocks in use are aligned
and tile the memory (`Tiles`), lists name nothing twice, and the order recorded for a
free block is at most its own. The last part is what makes stale records harmless:
`pages_free` takes a page with count 0 and recorded order k for a free buddy of
order k; if the block at that page were larger, it would reach over the block that is
being freed, so it is of order k and on the list of that order (`MergeOne`). The loop of
`pages_free` keeps `MergeInv`, that the blocks merged so far together are one aligned
block (`FreeKeeps`), `pages_alloc` the tiling through its splits (`AllocKeeps`), and
`mount_orderlist` begins with one, because the small blocks of the end of memory are
its binary digits. Powers of two, the loop and the binary search of `kmalloc` need
induction; the module has a rule of its own for sets of numbers instead of the
library's rules for operators.

*Pages.* `VmInv` says for each page which uses exclude each other (`PageOk`): mapped by
processes, given back by one, prepared as a stack by `execve`, a block of the kernel,
a slub page. A mapped page has order 0 and as many references as mappings, less one
while a process copies it under its lock; a writable one has one mapping. `ForkInv`
and `TablesInv` say what a child under construction and a process that leaves still
map, since fork and exit go page by page while others fault on the same pages.

*Refinement.* What a process sees changes at its own stores, brk, execve, exit and the
end of its fork only; every other step maps to a stutter. That a store is not seen
elsewhere is the second half of `CountExact`; that a copy holds what the page held,
though its other users may be releasing it, is the count that `do_wp_page` keeps until
the copy is made.

*The slub allocator.* `SlubInv`: the partial list of a cache holds each of its pages
with room once, the free objects of a page are slots of its cache, and so are the live
ones, each at a slot of its own. `ObjectsAre` shows that the slots of a fresh page are
inside it and apart, `SearchFinds` that the binary search finds a cache whose objects
are large enough for the size asked.

### Only model-checked

* The liveness properties `ReadyRuns`, `DueSleeperReturns`,
  `ImplementsFairSleepLock`, `CallsComplete`, `PeersGoneReturns` and `RequestsEnd`: the
  prover handles neither fairness nor ENABLED.
* What `PriorityQueue` computes: `up` and `down` are RECURSIVE operators, in whose
  presence the prover has no arithmetic.
* `Ext2`: `BlocksExact` and the refinement of `PlainFiles`.

## 6. Plan

The models are complete along the plan of the inventory, and every component but
`Ext2` and the priority queue has its safety properties proved. What is left is
`BlocksExact` of `Ext2`, whose inductive invariant has to follow `bmap` through the
allocation of index blocks.

## 7. Not modelled

Register save and restore in assembly, boot, the PLIC and SBI calls (single
register accesses); printing and string functions (no state); ELF parsing and the
Sv39 bit layout (pure data); the device table (constant after boot); user
programs (clients: the models let them make any call). Of modelled components:

* the nesting count of `push_off`: `Sched` has what it is for, interrupts off
  exactly while a lock is owned;
* `sys_kill`: as written it changes the caller (section 3); its queue operation
  is `pop_v` in `PriorityQueue`;
* the gate of `syncing` and `rw_operating`: an error return leaves it shut for
  ever, and most accesses do not pass it;
* the terminal's output and echo, and `sys_lseek`'s position: no other state
  depends on them;
* the list of vm areas and the references exec keeps to the program's inode, so that
  `DentsFault` may read any program there is;
* page faults inside other calls on files than `getdents`: those verify their buffers
  before they lock an inode; and the one of a `getdents` on a descriptor that a failed
  `pipe()` left;
* disk errors, which the driver turns into a panic, and crashes: the file system
  has no recovery, and a restart begins from whatever is on disk.
