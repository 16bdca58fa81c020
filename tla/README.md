# A TLA+ verification project for guatOS

guatOS (`src/v1-src`) is a small teaching kernel for one 32-bit x86 CPU. This
directory holds TLA+ models of it, from the scheduler to the shell, the TLC
configurations that check them on small instances, and TLAPS proofs of their
safety for instances of any size: the scheduler and the lock, process life, the
keyboard, line editing and the prompt, the disk driver, the bitmap, page frames
and who owns them, the heap's free lists, open files, the contents of files
through power cuts, directories and the tree of paths. Paths below are relative to
`src/v1-src`.

## 1. The system

### Components, their state and their operations

| component | state | operations | what makes it correct |
|---|---|---|---|
| scheduler (`thread/thread.c`, `device/timer.c`, `lib/list.c`) | running thread; per thread status, ticks, `general_tag`; `thread_ready_list`, `thread_all_list` | `schedule`, `thread_block`, `thread_unblock`, `thread_yield`, `thread_exit`, `idle`, timer interrupt | lists and statuses agree, no ASSERT fails, ready threads run |
| lock, semaphore (`thread/sync.c`) | `value`, `waiters`, `holder`, `holder_repeat_nr` | `sema_down/up`, `lock_acquire/release` | one owner, recursion counted, no lost wakeup |
| processes (`userprog/fork.c`, `wait_exit.c`, pid pool in `thread.c`) | PCBs, `pid`, `parent_pid`, pid bitmap | `sys_fork`, `sys_wait`, `sys_exit` | unique pids, every exit reaches a parent, only the dead are reaped |
| keyboard buffer (`device/ioqueue.c`) | ring, `head`, `tail`, `consumer`, lock | `ioq_getchar`, `ioq_putchar` | FIFO, nobody sleeps unseen |
| keyboard driver (`device/keyboard.c`) | five static flags | `intr_keyboard_handler` | flags follow the keys across interrupts |
| disk driver (`device/ide.c`) | channel lock, `expecting_intr`, `disk_done` | `ide_read`, `ide_write`, `intr_hd_handler` | an interrupt matches a request, requests end |
| bitmap (`lib/bitmap.c`) | bytes | `bitmap_init/scan/set` | first fit, no bit handed out twice |
| memory: pages (`kernel/memory.c`, `userprog/process.c`) | two physical pools, virtual address bitmaps, page tables | `malloc_page`, `get_a_page`, `mfree_page`; the pages fork copies and exit frees | a frame has one user, the bitmaps say what is mapped, a process gives back what it took |
| memory: heap (`kernel/memory.c`, `lib/list.c`) | arenas and the free lists through their blocks | `sys_malloc`, `sys_free` | a free list is the free blocks; an arena's count is right and an empty arena is returned |
| file system: descriptors (`fileSystem/fs.c`, `file.c`, `inode.c`) | `fd_table`, `file_table`, list of open inodes, inode bitmap | `sys_open`, `sys_close`, `sys_unlink`, fork, exit | open counts match, an open file keeps its number and name |
| file system: contents (`file.c`, `inode.c`) | inodes and block bitmap in memory and on disk, blocks, `fd_pos` | `file_write`, `file_read`, `sys_lseek`, `inode_sync`, `inode_release`, mount | what was written is read back, a block has one owner, also after a power cut |
| file system: directories (`direct.c`) | entries in blocks, size, indirect table | `sync_dir_entry`, `delete_dir_entry`, `dir_read`, `search_dir_entry` | a listing is complete, an empty directory can be removed |
| file system: tree (`fs.c`, `direct.c`) | directories, `..`, counts of open directories, `cwd_inode_nr` | `sys_mkdir`, `sys_rmdir`, `sys_opendir`, `sys_closedir`, `sys_chdir`, `sys_getcwd`, path search | a path leads back to where it came from |
| file system: layout (`fs.c`, `inode.c`) | super block | `partition_format`, `inode_locate` | the parts of a partition do not overlap |
| shell (`shell/*.c`) | `cmd_line`, `cwd_cache` | `readline`, `my_shell`, built-in commands | the line is what was typed, the prompt is where the shell is |
| program loading (`userprog/exec.c`, `process.c`) | page directory, stack, ELF image | `sys_execv`, `process_execute` | segments mapped, failure keeps the old image |
| interrupt set-up, system call table, TSS, text output, strings | tables written at boot | none later | - |

### Interaction

Everything runs on one CPU. Threads enter the kernel by system calls through an
interrupt gate, with the interrupt flag off until they return; `main`, and `init`
until it enters user mode, run kernel code with interrupts on. So a user thread
gives up the CPU only where its call blocks, while `main` and `init` can lose it
between any two statements outside `intr_disable`. The device interrupts call
`thread_unblock` (keyboard through `ioq_wakeup`, disk through `sema_up`), the
timer calls `schedule`. Locks sleep on the same `general_tag` that links a thread
into the ready list. A failed `ASSERT` ends in `panic_spin`, which never returns.

The file system has no lock. Each disk access blocks the caller on `disk_done`,
so a system call of the file system is a sequence of steps, one from each disk
access to the next, and the calls of other processes come in between. Memory is
guarded by one lock per pool, which `mfree_page`, `free_a_phy_page` and the page
tables that `page_table_add` takes go past.

### Where it is hard

Preemption inside `lock_acquire`/`lock_release`; one list link shared by all
queues; wakeups at the front of the ready list; a status (`TASK_HANGING`) with
two meanings; pids, PCB pages, inode numbers and blocks that are reused at once;
interrupts that come early, late or once too often; disk accesses between a test
and the change it allows; a power cut between two of several writes; a heap that
fork copies while its list heads stay behind; boundary cases of rings, bitmaps,
blocks and buffers. The list, with lines and the properties that cover each
item, is `hazards` in `PROJECT.json`.

## 2. Modules

| module | models | checked by |
|---|---|---|
| `Threads` | scheduler, lock, timer | `MCThreads`; proved in `ThreadsProofs` |
| `RecursiveLock` | abstract specification of a lock, implemented by `Threads` | `MCThreads`, `ThreadsProofs` |
| `Processes` | fork, wait, exit, pids | `MCProcesses`; proved in `ProcessesProofs` |
| `IoQueue` | keyboard ring with several readers | `MCDevices`; proved in `DevicesProofs` |
| `CharQueue` | abstract specification of the ring, implemented by `IoQueue` | `MCDevices`, `DevicesProofs` |
| `Ide` | disk requests on one channel; disk and interrupt controller external | `MCDevices`; proved in `DevicesProofs` |
| `Bitmap` | scan and set through allocation and release of runs | `MCMemory`; proved in `MemoryProofs` |
| `Pages` | frames, virtual pages, page tables, process creation, fork, exit | `MCMemory`; proved in `MemoryProofs` |
| `Heap` | `sys_malloc`, `sys_free`, the linked free lists, fork | `MCMemory`; proved in `MemoryProofs` |
| `OpenFiles` | descriptors, `file_table`, open inodes | `MCFiles`; proved in `FilesProofs` |
| `FileData` | contents of files, block bitmap, inodes on disk, crashes | `MCFiles`; proved in `FilesProofs` |
| `Directory` | the entries of one directory | `MCDirectory`; proved in `DirectoryProofs` |
| `Tree` | paths, directories, current directories | `MCShell`; proved in `TreeProofs` |
| `Layout` | where a partition's parts are | itself |
| `Keyboard` | scan code handler; controller external | `MCShell`; proved in `InputProofs` |
| `Shell` | line editing, path washing, `cd`, `mkdir`, `rmdir`, nested shells | `MCShell`; proved in `InputProofs` |

`MCDevices`, `MCMemory`, `MCFiles` and `MCShell` put modules that share no state
into one run: the variable `part` chooses one of them at first and only that one
moves, so the run explores the sum of their state spaces, not the product. A
module that is proved about is extended by its MC module, not instantiated, so
that its assumptions are evaluated and the run and the theorem speak of the same
definition; the names of `Ide`, `Bitmap`, `Heap`, `Shell`, `Tree` and `FileData` carry
their component for that reason (`IdeSpec`, `ShellSpec`, `DataSpec`, ...). The
proofs of two components of one kind share a module; they do not use each other.

Operators named `x_suffix` after a comment "Variant" are faulty versions of `x`:
putting one in the place of `x` must break the property it is listed with under
`mutants` in `PROJECT.json`, which shows that the property depends on that code.

In `Tree`, `Shell`, `Directory`, `FileData` and `OpenFiles` a variable (`broken`;
in `Shell` `fault`, in `FileData` `lost`) says why a behaviour is not followed
further: the code failed an ASSERT or followed NULL, or came to a state the
hazards name (a race between two disk accesses, a loop that does not end) after
which the tables contradict each other. The properties say what holds until then
and, where it is known, that nothing but that cause can break it.

### Threads

`cur`, `status`, `ticks`, `ready` are `running_thread()`, the task fields and the
ready list as a sequence; `value`, `waiters`, `holder`, `repeat` are the fields of
each `struct lock`; `pc` and `want` say where a thread is in the lock functions
and for which lock; `panic` names the function whose ASSERT failed. `schedule(r, s,
caller)` is the body of `schedule()` entered with ready list `r` and statuses
`s`; `thread_block`, `thread_unblock` and the timer use it. Every statement of
`lock_acquire` and `lock_release` that runs with interrupts on is an action of its
own; `sema_down`'s loop body and `sema_up` are atomic because the code disables
interrupts. Callers are abstracted to "some lock call": recursive acquisition is
explored up to `MaxRepeat` because the code provides for it, although no caller in
the kernel nests its own locks today. `Uses[t]` are the locks that the code of `t`
takes: any lock for the safety properties, those of the devices for liveness. A
thread of `Sleepers` waits for a device while it holds a lock (as in `ide_read`
and `ioq_wait`). `TASK_WAITING` is never set in the kernel and is left out;
`TASK_HANGING` belongs to `Processes`.

### Processes

System calls run with interrupts off, so each is one step up to its
`thread_block`. Which runnable process goes next is left open (`READY` covers
`RUNNING`), which allows every schedule. Names are left out, and a full pid pool
or a name that has grown too long (`fork.c:36`) stops the kernel: there the model
only goes on without that fork or with it, which adds behaviours. A freed PCB page
can be the next one `fork` gets. `victims` is a history variable: processes that
were reaped without having exited. When `sys_exit` looks up a parent that no
longer exists it dereferences NULL; that is `fault`, after which the exception
handler spins. The pages that `fork` copies and `exit` releases are in `Pages`,
the descriptors in `OpenFiles`.

### IoQueue, Ide, Keyboard, Bitmap

`IoQueue`: a reader runs without interruption between the two places where it
can block (lock, `ioq_wait`). The handler tests `ioq_full` before `ioq_putchar`,
so the producer never waits and `ioq->producer` stays NULL. `Keyboard`: the
external controller delivers the bytes of one make or break code at a time; the
properties speak about complete codes. `Ide`: the channel lock is used by its
abstract promise; the disk raises an interrupt per sector and the controller
latches one; `MaxOp` stands for the 256 sectors of one command, whose count goes
through a register modulo `MaxOp`. A busy disk in `busy_wait` ends in
`thread_yield`, hence a panic. `Bitmap`: `ByteBits` bits per byte instead of 8;
index `Total` is the bit behind the map, which `bitmap_scan` reads.

### Pages and Heap

`Pages`: `mem` is both pool bitmaps (`pool`), the bitmap of kernel virtual pages
(`kvaddr`) and the kernel's page table entries (`kmap`); `task[p]` has the pages
of a PCB, of its bitmap and its page directory, and the process's own bitmap and
entries. An entry keeps its frame when only its present bit is cleared, as
`page_table_pte_remove` leaves it, because `release_prog_resource` tests
`pte * 1`. System calls are atomic. `main` allocates with interrupts on, and
`start_process` maps the stack of `init` with interrupts on, the page table under
the lock of the other pool: the `palloc` of each is a scan and a set, and the
other's may come in between (`raced`). `vaddr_btmp_bytes_len` and `PAGE_SIZE` are
chosen so that the bitmap does not fill its last page, as in the code.

`Heap`: the links of the free lists are modelled one by one (`next`, `prev`), as
each process sees them: the list ends are in the PCBs, which everyone shares, the
blocks are in user pages, which fork copies. An arena of the child still names
the descriptor of its parent. `foreign` records that a block was freed that way.

### OpenFiles, FileData, Directory, Tree, Layout

`OpenFiles`: files of one directory; a call is split where it waits for the disk
between choosing a slot, a number or a victim and using it. `sys_unlink` is six
steps: the look at `file_table`, `delete_dir_entry`, and in `inode_release` the
walk along the open inodes, the inode when it has been read, its number, and the
close after `inode_delete`. An inode made by `file_create` of a process is in
that process's heap (`heap`): the `sys_free` of its last close fails an ASSERT,
another process that follows the pointer finds something else (`Foreign`,
`foreign`), and fork copies it. The callers are processes; `main`, which creates
and writes `/cat` at start-up with interrupts on, has finished its file calls, and
what it left is in `OnDisk`. That holds for `FileData` too. A command typed while
`main` is still in those calls is not covered.

`FileData`: byte `i` of file `f` is `<<f, i>>`, so that a byte at a wrong place
is seen. `block_bitmap`, `minode` are in memory; `disk_bitmap`, `dinode`, `data`,
`table`, `entry` on disk; `reboot` is a power cut at any moment followed by
`mount_partition`. `Grown` gives `i_sectors`, `all_blocks` and the indirect table
as the three branches of `file_write` leave them. Positions wrap at `PosBits`, as
`fd_pos` does when an empty file is written (`i_size - 1`).

`FileData` gives the several `bitmap_sync`s of a `file_write` one step, the first:
bits that are on disk before the inode is cover blocks nobody names yet, and what
other calls allocate between them is a matter of which blocks are free.

`Directory`: an insert or delete has a step that looks, one that writes the block
and one that changes `i_size` when the write has ended; deleting the sole entry of
a direct block writes no block and joins the last two.
`Tree`: a call is one step; paths are sequences of names. `Layout` has the sizes
of the source.

### Shell

Keys are stored in `cmd_line` before they are looked at. Which command a line
spells is left open; a line of blanks ends in a page fault, as `argv[0]` is NULL
(`blank_line`). A shell keeps the number of its directory: when that is removed the
shell has `lost` it, and a later mkdir may be given the number and with it the
shell (`buildin_mkdir`). A child of `fork` that finds no program goes on as a shell
(`shells` grows) while its parent waits.

## 3. What TLC checks

| run | shows |
|---|---|
| `threads` | `MutualExclusion`, `HolderIsOwner`, `OneListPerThread`, `NoLostWakeup`, `OnlyYieldPanics`, `FullSlice`, and that the lock implements `RecursiveLock`, with `main`, `init`, one user thread, idle, slices of one tick, recursion to depth 2 |
| `threads_live` | `ReadyRuns`, `ContendedLockIsReleased` under `FairSpec`, with two threads that sleep for devices and a `main` that computes |
| `threads_yield` | violation: `thread_yield` stops the kernel |
| `processes` | `PidsAreUnique`, `ZombieNeverRuns`, `ExitWakesParent`, `ParentExists`; three processes below init, six pids |
| `processes_wait` | violation: a waiting child is reaped as if it had exited |
| `devices` | the ring: `NoPanic`, `SleeperIsRegistered`, `ImplementsQueue`, `BufferedCharIsRead`; the disk: `DiskDoneIsBinary`, `TransferWhenReady`, `CommandOnIdleDisk`, `RequestEnds` |
| `memory` | pages: `OneOwnerUnlessStale`, `LeakIsOnePagePerExit`, `BitmapIsMapping`; heap: `FreeListSound`, `ArenaCounts`; `ScanIsFirstFit` |
| `files` | `OpenCounts`, `OpenFilesExist`; `WritesSurvive`, `BlocksOwned` |
| `files_large` | violation: the write that crosses to indirect blocks goes to the boot sector |
| `directory` | `ListingComplete`, `EmptyHasOneBlock` |
| `shell` | `NoStuckModifier`, `KeyTypesItsChar`; `LineIsAsTyped`, `PromptIsCwd`; `GetcwdIsPath` |
| `layout` | violation: inodes beyond the first sector of the table lie in data blocks |

Bounds. Two preemptible threads and one that is not are enough for every pair of
positions in the lock functions, for barging between a wakeup and its retest, and
for an empty ready list; the safety results do not depend on the bound, since they
are also proved. Three processes below init give parent, child and grandchild, and
six pids with five pages make both pids and pages come back. Three readers are one
in `ioq_wait`, one in `sema_down` and one that barges in. Requests of three
sectors in commands of two give a full command, a short one and leftover
interrupts. Fourteen kernel frames let a child come and go until the leak of
`release_prog_resource` has used up the pool and fork panics; a page table per
page makes every user page need one. Two arenas of two blocks are the least in
which blocks of different arenas mix on a list. Three processes, two slots and two
files are enough for two opens of the same inode, a fork of one and a third party
that unlinks, or creates a file under the number that is set free; three inodes in
memory are one more than there are slots, for `inode_release`. Two files with two
direct blocks and two indirect ones, on five blocks, reach the change to the
indirect table, a full partition and a block that changes hands; names and blocks
that are only compared are few. Five entries of two to a block fill both direct
blocks and begin the table; two calls at a time meet in every pair of their steps.
Paths of three components include `..` and `.` at every place. A line of three
keys is full after three; two shells are a parent that waits and a child, and one
name, nested, is a directory to be in, one above it and one to be made under an
old number.

Fairness. A thread that keeps getting the CPU gets on with the lock function it
is in; a latched interrupt is delivered; a critical section ends; the timer ticks
and a device that is waited for answers. No caller is forced to start anything.
`ReadyRuns` has two threads that sleep and are woken, the user of the disk and
the reader of the keyboard, and a `main` that computes and never blocks. Although
`thread_unblock` puts a woken thread at the front, it cannot keep the others out:
`ticks` is refilled only when the slice has run out (`schedule`, `thread.c:249`)
and not when a thread blocks, so every tick that finds one of them running brings
it nearer to the end of the list. The variant that refills it on blocking starves
a ready thread. `BufferedCharIsRead` speaks
of a reader that is alone, as in the system that boots; a second one can take
the lock and sleep beside a character that is already in the buffer, because
`ioq_getchar` does not test `ioq_empty` again after `lock_acquire`.

Deviations found are listed under `findings` in `PROJECT.json`: `thread_yield`
panics; `sys_wait` marks a waiting process like an exited one; a file that grows
past its direct blocks does not read back; the inode table is one sector long.

What the properties except, because the code does not do better:

* `ExitWakesParent` leaves `init` out: `init_adopt_a_child` does not wake `init`
  for a child that had already exited (`wait_exit.c:82`). `ParentExists` holds
  until the first live child is reaped.
* `ScanIsFirstFit`: a run may end one bit past the map when the bit behind it is
  0. A full map fails the ASSERT of `bitmap.c:34`, so the callers' tests for -1,
  and with them the pool lock that `get_a_page` would keep, are never reached.
* `OneOwnerUnlessStale`: until an exit frees a frame through an entry that is no
  longer present, or `main` and `start_process` have found the same frame.
* `LeakIsOnePagePerExit` says that exactly the last page of the bitmap is lost.
* `FreeListSound` and `ArenaCounts` hold until a process frees a block it has from
  before a fork.
* `OpenCounts` and `OpenFilesExist` hold until two calls meet between disk
  accesses, a descriptor shared by fork is closed, or a process follows the
  pointer to an inode in another's heap, or forks or exits with one in its own.
  That there is one writer is not claimed: `file_create` does not set `write_deny`
  and any close clears it (`file.c:190`).
* `WritesSurvive` leaves out files that have crossed to indirect blocks,
  `BlocksOwned` what a crash does to their table's bit. Growth within the table
  takes every block of the partition (`file.c:315`).
* `ListingComplete` holds until two calls race or a second indirect entry makes a
  new table; while a call waits for the write of its entry `i_size` is one off,
  and `EmptyHasOneBlock` speaks of moments when no insert waits. Deleting the last
  entry of an indirect block never ends (`direct.c:266`).
* `WritesSurvive` and `BlocksOwned` end for a file whose inode another
  `inode_sync` has undone.
* `GetcwdIsPath` excepts processes whose directory has been removed, `PromptIsCwd`
  the shell whose directory was removed since its last cd: its prompt is stale.

## 4. What is proved

Every theorem is `Spec => []P`, `Spec => A` or a refinement, for the
specification that TLC runs and every value of its constants.

| module | theorems (each is a property of a run, except those in italics) |
|---|---|
| `ThreadsProofs` | `TypeCorrect`, `MutualExclusionHolds`, `HolderIsOwnerHolds`, `OneListPerThreadHolds`, `NoLostWakeupHolds`, `OnlyYieldPanicsHolds`, `FullSliceHolds`, `ImplementsLockHolds` |
| `ProcessesProofs` | *`TypeCorrect`*, `PidsAreUniqueHolds`, `ZombieNeverRunsHolds`, `ExitWakesParentHolds`, `ParentExistsHolds` |
| `DevicesProofs` | *`TypeCorrect`*, `NoPanicHolds`, `SleeperIsRegisteredHolds`, `ImplementsQueueHolds`; *`IdeTypeCorrect`*, `DiskDoneIsBinaryHolds`, `TransferWhenReadyHolds`, `CommandOnIdleDiskHolds` |
| `InputProofs` | `NoStuckModifierHolds`, `KeyTypesItsCharHolds`; `LineIsAsTypedHolds`, `PromptIsCwdHolds` |
| `MemoryProofs` | `ScanIsFirstFitHolds`, *`BitsHaveOneHolderHolds`*; *`Inductive`*, `BitmapIsMappingHolds`, `OneOwnerUnlessStaleHolds`, `LeakIsOnePagePerExitHolds`; *`HeapInductive`*, `FreeListSoundHolds`, `ArenaCountsHolds` |
| `FilesProofs` | *`Inductive`*, `OpenCountsHolds`, `OpenFilesExistHolds`; *`DataInductive`*, `BlocksOwnedHolds`, `WritesSurviveHolds` |
| `DirectoryProofs` | *`Inductive`*, `ListingCompleteHolds`, `EmptyHasOneBlockHolds` |
| `TreeProofs` | `GetcwdIsPathHolds` |

Assumptions. Only the named `ASSUME`s of the modules, all evaluated by TLC on the
instances. They say that sizes are positive, that model values are distinct and
what boot leaves behind. One is less obvious: `KeysAssumption` excludes a key with
make code 0x60. Its break code would be 0xe0, the prefix byte, and the handler
could not tell them apart; no key of the set the driver knows has it. The bounds
of the model (`MaxRepeat`, `MaxHeap`, `NHeap`, `MaxSectors`, ...) are arbitrary in
the proofs. So are the sizes of the file system: blocks, direct and indirect
entries, the bits that `bitmap_sync` writes at once, the width of `fd_pos`.

### The arguments

*Threads.* None of the invariants is inductive by itself. `IInv` is, in two
halves. `LockIInv` relates the place of each thread to the lock's fields: besides
`MutualExclusion` and `HolderIsOwner` it needs the value of `holder_repeat_nr` at
each place (`RepeatCounts`: it is 0 from the outer release until the next
owner's assignment), otherwise the ASSERT of `lock_acquire` could not be
excluded, and that only workers hold locks. `SchedIInv` relates statuses to
lists: besides `OneListPerThread` and `NoLostWakeup` it needs `OffReady`: exactly
`cur` is RUNNING, a blocked worker is in `sema_down` or asleep for a device, only
`main` dies. `ScheduleSafe` is the heart of the second half: if list and statuses
agree on entry, `schedule()` fails no ASSERT (in particular idle is BLOCKED
whenever the list is empty) and they agree on exit. `LockNext` and `SchedNext` go
through the actions; the list lemmas (`AppendList`, `PushList`, `PopList`) say
what `lib/list.c` does to membership and duplicates. `ImplementsLockHolds` maps
every step to a step of `RecursiveLock` or a stutter: the owner changes only in
the step that takes the semaphore and in the `sema_up` of the outer release.

*Processes.* `IInv` adds to the four properties what the place in a system call
says about the status (`PlacesOK`), that init, main and idle stay (`SystemOK`),
and `ParentsOK`: nobody is the child of itself, of main or of a process that has
exited. The last is what adoption establishes, and without it the reuse of a pid
could give a sleeping parent an exited child. `PidsAreUnique` rests on
`allocate_pid` returning a free pid and on what `list_remove` leaves.

*IoQueue.* The lock's semaphore is 0 exactly while a reader is in `ioq_wait`, and
its waiters are in `sema_down`, each once. For the refinement, `Contents` (the
characters between `tail` and `head` modulo `bufsize`) is shown to grow and
shrink by one at the right end, wrapping included.

*Ide.* `DoneOK`: an interrupt is expected or `disk_done` has been upped, never
both, so an interrupt left over from an earlier command cannot up it twice.
`DiskOK` says what the disk may be doing while a thread has a command out, and
`OneSectorOK` ties interrupt and command together as long as commands are of one
sector.

*Keyboard.* `WireOK`: the wire is quiet, or holds the rest of the code of the last
event with `ext_status` set exactly between the two bytes. From it `LastByte`
shows that the handler puts the key's own code together.

*Bitmap.* `ScanIsFirstFit` is about a loop, a recursive function of the model.
The library's induction theorems cannot be used here, so what the loop computes
is shown by taking the least round at which it would be wrong, which exists
because `<` is well-founded on the naturals. `BitsHaveOneHolder`, which no run
checks, says that runs handed out are disjoint and their bits set.

*Pages.* `IInv` is written with the memory and the tasks as arguments
(`KernelOK(m, T)`, `UserOK(m, T)`) because a fork passes through many memories in
one step. `KernelOK`: a kernel frame is mapped once and in the pool, and no page
table is mapped or shared; it holds until `raced`. `UserOK`: a present entry's
frame is in the pool and nobody else's; it holds until `stale` or `raced`. A
frame that `main` or `start_process` has found is not its own yet: when a page
table takes a frame that `main` has found too, or has set meanwhile, `raced` is
true.
`TaskOK`: the bitmap is the mapping, the heap is inside it, the kernel pages of a
process are inside the kernel's space, an exited process has no entries. The
lemmas follow the calls: `PallocIs` (a frame that is found is nobody's),
`GetKernelPages` and `CopiedIs` (the two loops, by least counterexample;
`ChildSoFar` is the loop invariant of `copy_body_stack3`, with the room that is
left for the pages still to come), `MfreeKernel`. `SysExitStep` is where `stale`
is needed: the frames of entries that are no longer present may be another's.

*Pages, the leak.* `Owned` says whose each kernel page is. `OwnersOK`: the PCB,
the directory and the pages of the bitmap of all processes, the kernel's heap
and the page of `main` are all different and all in use. `UsedIsMapped` and
`PoolIsUsed` make a page in use a mapped page and a frame in use a mapped one or
a page table, so a fork that gets as far as its last page has not run out of
frames on the way. `LostCount`: the pages in use that nobody owns are
`exits * (bitmap_pg_cnt - release_pg_cnt)`. Sets are counted by one-to-one
functions; that only finitely many processes exist follows from their PCB pages.

*Heap.* `HeapInv` says what holds until a block is freed to another process's
list. `ListIs(N, V, p, d, S)`: there are an `n` and a function from `0..n + 1` that
gives the elements in order, head and tail at its ends, different blocks of `S` in
between and all of them, each linked to the next by `N` and back by `V`. `HeaderOK`:
a header counts the blocks its process does not have and names the list of a
process that exists, so a new child's lists are empty. `HeldOK`: what a program may
free is a block of a mapped arena or an area whose pages no other area has. A
list operation is shown to keep `ListIs` with one element more or less, and to touch
only the blocks of that list and its ends (`Touches`), so that other lists, in other
address spaces too, are as before (`OtherList`). The loops that fill and empty an
arena and the walk of `elem_find` are followed by least counterexample; `ChainIs`
shows that the walk meets the elements in order, which is `FreeListSound` and
is also why `sys_free`'s ASSERT finds every block of a full arena.

*OpenFiles.* `IInv` is the type and, while `broken` is "none", seven parts.
`CreatorsOK` is the one that is not obvious: between the disk accesses of
`file_create` the call's slot, inode and number are in nobody else's hands, the
inode is not listed, and the number is in the directory exactly after
`sync_dir_entry`; without it the rollback could free the number of another file.
`UnlinkersOK` says the same of `sys_unlink`: from `delete_dir_entry` on no name
and no slot has its number, and the inode that `inode_release` has opened is its
own. `SlotsOK` and `FdsOK` lead from a descriptor to a file that exists, `DirOK`
gives each number to one name, `ListedOK` is the first half of `OpenCounts`.
`CountsOK` counts users (`Users(F, T, o)`, a function of the descriptors and the
slots). Three lemmas say how it changes: `FillSlot` (a slot is filled: one more),
`NameSlot` (a descriptor is made to name a slot that none named: the same),
`CopyProcess` (fork: one more per descriptor). Open is the first and the second,
close both backwards; `LastUser` shows that a count of one leaves no other slot
when `inode_close` frees the inode.

*FileData.* `DataInv` says what holds of each file (`FileOK`) until `lost`; it is
kept in a state that has panicked too, because a power cut can follow it. A file
is an owner of blocks while it has an entry, and between losing it and
`inode_release`. `DataCallOK` relates the place in a call to the two inodes: they
are equal outside calls. `OwnerOK`: the inode has as many blocks as its size and
what is left to write need (`ShapeOK`); the inode on disk is the one in memory at
an earlier moment (`Prefix`); the blocks are marked in memory and a write stays
inside them. `ContentOK`, for files of direct blocks: the blocks are marked on
disk, at different places, and hold the bytes written. `AckedOK`: the size on
disk covers what `file_write` has returned. `OwnersApart`: no
block has two owners. `GrownShort` and `GrownLong` say what the three branches of
`file_write` do to `i_sectors` and the table, `TakenIs` that `block_bitmap_alloc`
gives different free blocks, `StepOf` that a step about one file leaves the
others alone. After a reboot the inodes are those on disk: `EarlierBlocks` shows
that the blocks of the earlier inode are among those of the later.

*Directory.* `IInv` is the type and seven parts. `BlocksOK`: a block the
directory names is marked, named once and never empty; `delete_dir_entry` keeps
this by freeing the block with its last entry, and `EmptyHasOneBlock` follows
from it and `SizeOK` (the size, with the inserts that are not counted yet, is the
number of entries with the deletes that are not), with `DotsOK`. `NamesOK` puts a
name in one place. `CallsOK` and `FreshOK` are about the disk access in between:
what a call has read still has its free slot or its entry, and a block taken for
an insert is marked and nobody else's. Each call has a lemma for each of its three
steps; the last moves one process out of the uncounted.

*Shell.* `LineInv`: the buffer up to `pos` is what was typed and not erased, and
`pos` stays inside it. `ShellsInv` says of every shell, the waiting ones
too, that `cwd_cache` is its directory and exists, or that it has `lost` it.

*Tree.* `TreeOK` makes the entries a tree:
every inode in use but the root has exactly one name, `..` is the directory that
has it, and going up ends (`NoCycle`, a height that falls towards the root;
`sys_mkdir` extends it, `sys_rmdir` only removes a directory without entries).
`sys_getcwd` climbs by `..` and looks for the name of each child; the loop is
followed backwards by least counterexample, and `search_file` walks the path
down again.

### Only model-checked

* Liveness (`ReadyRuns`, `ContendedLockIsReleased`, `RequestEnds`,
  `BufferedCharIsRead`): out of the proof system's reach.
* The violations of `threads_yield`, `processes_wait`, `files_large`, `layout`
  are counterexamples; there is nothing to prove.

## 5. Not modelled

* Boot loader and assembly entry code, the GDT, IDT, TSS and the system call
  table: written once at boot, without state a later step changes.
* `identify_disk` and `partition_scan`: they run once, before the file system,
  and only fill tables from what the disk says.
* `load` and `sys_execv`: they copy segments of an ELF file into pages that
  `get_a_page` gives, which `Pages` has; on their own they keep no state.
* `sys_stat`, `sys_readdir`'s callers, `sys_ps`, `cmd_parse`, `ls`, `cat`, screen
  output and string functions: they read or format and change nothing that a
  property here depends on. `cmd_parse` tests the number of arguments after it has
  stored one, so one too many is written behind `argv` before it is refused.
* `thread_exit` reads the pid from a PCB page it has just unmapped
  (`thread.c:80`): what a stale TLB entry gives is not in the model.

## 6. What is left

Every invariant, action property and refinement that a passing run checks is also
proved; of the properties only liveness rests on the small instances alone. What
would extend the project is on the side of the models: the heap after a foreign
free, where `Heap` stops, and `sys_execv` with a file that cannot be read to
its end.
