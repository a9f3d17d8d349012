# Stable Genius: a TLA+ verification of the kernel

Stable Genius is a hobby operating system for i686 written in C++: a kernel
(`src/kernel`), a C++ standard library that the kernel and user programs share
(`src/stdlib`) and two user programs (`src/user`).  This directory holds TLA+
modules that model the kernel's own logic, TLC configurations that check them on
small instances, and proofs that TLAPS checks.  `PROJECT.json` lists the runs,
the source lines every definition stands for, the hazards the properties are
aimed at, the mutants that show each property can fail, and the theorems.

## 1. Inventory

### How the machine runs

One CPU.  Every gate of the IDT is a trap gate, so the interrupt flag stays set
in interrupt handlers and system calls: a timer tick (IRQ0) or a key (IRQ1) can
arrive between any two instructions of the kernel, and a tick can switch to
another process from the middle of a system call, because every process has a
kernel stack of its own.  There are no locks and no `cli` sections; four global
flags (`switch_blocked_for_switch/init/exec/notify`) are all that keeps a tick
from switching, and nothing keeps a key from being handled.  Most of what is
hard about this kernel follows from that.

### Components

| Component | State | Operations | What makes it correct |
|---|---|---|---|
| Scheduler, swap_in/swap_out, launch/resume (`Scheduler`, `ProcTable`, `Process`, `interrupt.s`, `launch_process.s`, `yield.s`) | `current_proc`, statuses, saved contexts, kernel stacks, four flags | tick, yield, launch, resume, exec, fork, block, key | a context is saved under the process it belongs to and on a stack that is still there; user code runs as `current_proc`; every runnable process runs again |
| SignalManager | pending polls and waits, happened waits | poll, notify_file, tick_down, waitpid, notify_wait, purge_process | no wake-up is lost; lists hold exactly the calls in progress; whoever can return does |
| FileTable | descriptions with reference counts | open, close, fork's copies, exec, destructor | counts are exact; a descriptor keeps its file; opens are private |
| ProcTable | pid to process, `last_pid` | insert, erase, scans | fails only when full, never overwrites, never follows a deleted process |
| KernelHeap, UserHeap | list of blocks in memory | malloc with alignment, free, growth | blocks tile the heap, are disjoint, mapped and reused |
| PageFrameAllocator, PageDescriptorTable, Process memory | used frames, page tables, break, stack | exec, fork's copy, reap, brk, stack growth, switch | no frame is shared or free while mapped; what a process owns is mapped; the CPU uses the right tables |
| Pit, Pic | millisecond and fraction counters, masks | tick, sleep, acknowledge | time neither stops nor goes back; spurious IRQs are not acknowledged |
| VirtualFileSystem, DevFileSystem, MemoryFileSystem | mount table, device names, tmpfs names and inodes | mount, look-up, open, close, unlink, rename, mkdir | a name leads to one file; the memory of a file lives as long as a handle |
| Ext2 | super block, group descriptors, bitmaps, inodes, each with a cache | open, write, truncate, close, unlink, mkdir, rmdir, mount | a block belongs to one inode; counts are exact; an open file survives unlink; nothing stays in a cache |
| Files (BlockFile, Ext2File, MemoryFile) | position, sector buffer, size | read, write, seek, flush | reads return what was written, and so does the medium after a flush |
| Ide, DiskPartition | selected drive, registers, partition bounds | identify, read table, read and write a sector | a transfer reaches the sector it names on the drive it names |
| Tty, Keyboard, Ps2Controller, VGA text screen | line buffer, modifiers and locks, cells and cursor | key interrupt, read, print | what is typed is what is read; the screen is the end of what was printed |
| Elf, AOut | header tables behind bare pointers | parse, allocate, load, copy, move, destroy | every byte of a segment is where it belongs; every array has one owner |
| stdlib exceptions and RTTI (`cxxabi`) | caught and uncaught exceptions, class hierarchies | throw, personality, catch, rethrow, dynamic_cast | the innermost handler is entered, no cleanup is skipped; exceptions are freed once; casts follow the language |
| MultiBoot, Pci, Serial, Logger, Vbe, Gdt, boot code | parsed tables, device registers | initialisation, output | none that other parts depend on |
| stdlib containers, strings, streams, C library | values | the C++ library interface | agreement with the reference definitions (the repository has unit tests) |

Interactions: the PIT handler calls `SignalManager::tick_down` and then the
scheduler; `Tty::add_char`, called in the keyboard interrupt, calls
`SignalManager::notify_file`, which sets process statuses that the scheduler
reads; `read` polls before it reads; `exit` calls `notify_wait`, and the parent's
`waitpid` erases the child from ProcTable, whose destructor closes descriptors
in FileTable and frees memory through the PDT; `execve` replaces a Process
object and takes over its descriptors; both heaps grow through the page tables,
and the page tables are allocated from the kernel heap.

The hard behaviours, each at its line, are the `hazards` of PROJECT.json:
ticks and keys between a test and the action taken on it, flags lowered by code
that did not raise them, error paths that leave a flag up, resources at their
limit (pids, frames, heap pages), boundary arithmetic of pages and blocks, and
stale copies (loaded page tables, `last_alloc`, requests of dead processes).

## 2. Modules

Each module carries its mutants (operators named for the bug they plant,
commented as mutants) next to the definition they replace.

**Tasking** models a kernel stack as an array of frames.  A frame records what
entered it (`by`), where its code is (`pc`), the process its handler works on
(`it`) and where it returns to (`ret`).  The CPU executes the frame `esp` names;
depth 0 is user mode.  A context saved by `swap_out` is such an `esp`.  A frame
that has been left is `dead`, so a context that refers to one shows memory that
has been reused.  `next_proc` is one action per statement that touches shared
state (scan, chosen, swapped, resume, args, iret, ret); `launch`, `exec`,
`fork`, the blocking calls and the two interrupts are modelled the same way.
The three stretches in which the code relies on no tick arriving are the
constant `Windows`: `"yield"` (`next_proc` called by a system call, for which
nobody raises the switch flag), `"launch"` (between lowering the flag and
`iret`), `"exec"` (after `Process::launch` lowers the exec flag).  `MovlClobbers`
says which one-byte flags lie in the four bytes that `movl $0` writes, a choice
of the linker.

**SignalManager** has one action for every stretch of poll and waitpid between
two points at which an interrupt matters.  A switch is one step here (Tasking
models how it happens), the keyboard handler scans the list one request per step
on the stack of the process it interrupted.  `tick_down` runs on every tick and
lowers the notify flag whoever raised it, so this flag protects nothing across
a tick; `Windows` lists the four stretches the code relies on (`"check"`,
`"sleep"`, `"notify"`, `"wait"`).

**FileTable** has the global table and every process's descriptors.  The two
steps of `execve` (copy the descriptors, delete the old object) are apart;
`open_file` is its search for a key and its insertion.  `Preempt` says whether
other processes run between these two.

**ProcTable** has the pid search step by step over `last_pid`, with the
wrap-around, and the two steps of `erase`.  **PidPool** is what it promises: a
request for a PID is answered with one nobody holds or, when all are held,
refused, and it is answered.  The mapping (`Pool` in ProcTable) takes a PID as
held while it is in the table, a request as open while its insert is searching
and the result of insert as the answer; erase is a release at its second step,
when the entry goes and the PID becomes free.

**Heap** has memory as an array of block headers, so that a write to the wrong
place destroys what is there.  Each step of a walk is a step of the model: `Pass`
and `Stop` along the list, `NextPage` page by page, `Merge` block by block.
`doing` is where a process is; when `next_page` needs a page table, `NewTable`
parks it and begins the malloc that puts the table onto the heap being grown, and
`Return` goes on with `MapPage`.  The unit is `heap_align` (16 bytes), which is
also the size of a header.  With `HPreempt` other processes run between the steps.

**Memory** has the bitmap of frames, an allocator position per page descriptor
table, the page tables of every process, those the CPU uses (`loaded`), and the
calls in progress, one page per step.  `crash` is the kernel's panic, with its
reason.

**Ext2** has the driver object and the drive below it as two records, so that
what is only in a cache can be told from what is written.  A driver operation is
one step: allocation searches, the pointer tree with singly and doubly indirect
blocks, truncation, directories that are rewritten as a whole, link counts and
the deletion at the last close.  Positions count whole blocks.

**Files** has the three kinds of file with a position and a buffer, one of them
per behaviour, beside a reference: the bytes written and the position the calls
add up to.  **Vfs** has the mount table, the prefix look-up on paths made of
tokens, tmpfs with the memory behind its files, and the device names; an address
that is given out is never given out again, so a dangling pointer stays visible.
**Disk** has the four slots of an IDE controller, the identification at boot,
MBR and GPT tables, and a transfer as its four steps on a channel whose
registers all processes share; the drives are external.  **MCStorage** puts the
three side by side: a behaviour runs one while the others rest.

**Console** follows a key from the bytes of scan code set 2 over the decoder,
the modifiers and locks and the character tables to the line buffer and its
reader, and a printed character to the cells of the screen.  **Loader** answers
two questions about Elf and AOut: where the bytes of a program are after
`allocate` and `load`, and who owns the arrays of the table objects through
copies, moves, assignments and failing constructors.  **Exceptions** has stacks
of frames with their call site tables, the two walks of the unwinder (external)
over the personality routine, and the counts of caught exceptions.
**MCPlatform** puts these three side by side.  **Rtti** computes
`dynamic_cast` and the upcast of a handler by the walks of `cxxabi.cpp` and by
the rules of the language, over every hierarchy of a few classes.

| Module | Code |
|---|---|
| Tasking | `Scheduler.cpp`, `ProcTable.cpp` (swap_in/out), `Process.cpp` (launch, resume), `Syscall.cpp`, `InterruptHandler.cpp`, `interrupt.s`, `launch_process.s`, `yield.s` |
| SignalManager | `SignalManager.cpp`, `Syscall.cpp` (read, wait, exit), `Tty.cpp` |
| FileTable | `ProcTable.cpp` (FileTable), `Process.cpp` (descriptors), `Syscall.cpp` |
| ProcTable, PidPool | `ProcTable.cpp`, `Syscall.cpp` (fork, wait) |
| Heap | `KernelHeap.cpp`, `UserHeap.cpp` |
| Memory | `PageFrameAllocator.cpp`, `PageDescriptorTable.cpp`, `Process.cpp` (memory), `InterruptHandler.cpp` (page fault), `Elf.cpp` (allocate) |
| Ext2 | `Ext.cpp`, `Ext.h`, `ProcTable.cpp` (is_open) |
| Files | `File.cpp`, `File.h`, `Ext.cpp` (Ext2File) |
| Vfs | `FileSystem.cpp`, `MemoryFileSystem.cpp`, `DevFileSystem.cpp`, `ProcTable.cpp` (is_open) |
| Disk | `Ide.cpp`, `DiskPartition.cpp`, `DevFileSystem.cpp` (add_ide) |
| Console | `Keyboard.cpp`, `Ps2Controller.cpp`, `Tty.cpp`, `VgaController.cpp`, `VgaCursor.cpp` |
| Loader | `Elf.cpp`, `Elf.h`, `AOut.cpp`, `Process.cpp` (constructor) |
| Exceptions, Rtti | `cxxabi.cpp`, `cxxabi`, `klib_cstdlib_impl.cpp` |
| *Proofs | theorems about the module of the same name; StorageProofs about Files, Vfs and Disk, PlatformProofs about Console, Loader and Exceptions |

## 3. Runs

### Passing

* **tasking_safe**: two processes making every system call, one key, ticks
  nested to depth five.  `TypeOK`, `ContextIntegrity` (a saved context belongs to
  the process it is saved under and is still there), `UserRunsAsCurrent`,
  `NoPanic`, and `Served`: every runnable process gets the CPU, unless an execve
  has failed.
* **signal_safe**: three processes reading the terminal, forking, exiting and
  waiting.  No line and no exit is lost (`NoLostLine`, `NoLostExit`), an exit is
  recorded once, and a sleeping waiter has its request.
* **signal_live**: polls that fired or timed out return, a line wakes its
  sleeper, a wait for a terminated child returns.
* **filetable**: three processes, two descriptors each, four keys: `RefCounts`,
  `SameFile`, `OpenIsPrivate`.
* **proctable**: up to three processes, pids wrapping round any number of times:
  `NoOverwrite`, and `ImplementsPool`, the refinement of PidPool with its fairness
  (every request is answered, with a refusal only when every PID is in use).
* **heap**: every sequence of malloc and free with three blocks in use, on the
  kernel heap across page-table boundaries and on the user heap, brk failing or
  not: `Tiled`, `BlocksSound`, `InMappedMemory`, `OneTableAtATime`.
* **memory**: two processes until physical memory runs out: `Isolation`,
  `MappedAreUsed`, `OwnedMapped`.
* **ext**: eight operations on a small file system that fills up, two files open
  at once, remounts in between: `BlocksOnce`, `ReferencedAllocated`,
  `CountsExact` (of the super block), `NamedLive`, `DiskCurrent`.
* **storage**: `ReadsMatch` and `FlushedMatch` of the three kinds of file against
  the reference, `HandlesSound` (no handle has freed memory, whatever is unlinked,
  renamed, truncated or unmounted), `DiskFaithful` (every transfer reached its
  sector, CHS, LBA and packet devices mixed, behind MBR and GPT partitions).
* **platform**: `KeysFaithful`, `ScreenFaithful`; `ImageWhole`, `TablesOwned`;
  `HandlersInnermost`, `ExceptionsOwned` with two processes and nested throws.
* **rtti**: `CastsRight` over all hierarchies of four classes with public,
  private, virtual and repeated bases.

### Violation

* **tasking_yield_window**: a tick inside the `next_proc` of a yield stores the
  yielding process's context into the process about to run; `Scheduler.h` says
  the flag blocks a switch while one is in progress.  The finding in PROJECT.json
  quotes the line.

### What the passing runs assume, and what happens without it

The passing runs say that the code is right *outside* the stretches it leaves
unprotected and for callers that avoid the cases it does not handle.  They do not
say that the kernel as shipped never fails: each assumption is a constant, and
changing it in the configuration shows the case.

* `Windows = {}`: a tick that falls in a named stretch stays latched in the PIC
  until the stretch is left.  `Preempt`, `DPreempt` `= FALSE`: a call is not
  interrupted.
* `ReusePids = FALSE`: no PID is used twice (SignalManager).
* `Misuse`, `MaxPerName` (Ext2): callers do not open directories or create below
  files, and a name is open once.
* `Careful`, `VCareful`, `KCareful`, `LCareful`, `RCareful`, `XCareful`: the cases
  listed in the module at `CarefulWrite`, `VfsRules`, `SinglyNamed`, `WellPlaced` and `Slow`,
  `WellLinked` and `TableRules`, `RttiRules` and `ThrowTypes` are left out.
* `DiskAssumption`: a disk has no more sectors than 48-bit addresses, or the
  cylinders of a disk without LBA, can name; geometry has no zero; entries of
  partition tables are numbers of the right form.
* `ExtAssumption`: the tables of a group leave room for the root directory, the
  reserved inodes include it, a group has fewer blocks and inodes than its 16-bit
  counters can count, and a file has no more blocks than an inode can point to.
* `ExcAssumption`: what a compiler guarantees of call site tables.  Regions do not
  overlap, a cleanup is the last action of a site, and a call is longer than a byte,
  so its last byte is not right behind a region (`contains_ip` counts that byte as
  inside).
* `ConsoleAssumption`: the keys used are those of the scan-code tables, and the screen
  has two rows or more (it has 25).
* Memory assumes one allocate or free of a page to be a step, page-aligned
  binaries of one segment at the usual address (so that the wrong arithmetic of
  `free_user_space` reaches none of their pages).  `BrkCareful`: nobody moves a break
  that the stack has reached.

| Change | TLC reports | Where in the code |
|---|---|---|
| tasking_safe, `Windows = {"launch"}` | `ContextIntegrity` violated | `launch_process.s:38` |
| tasking_safe, `Windows = {"exec"}` | deadlock: the CPU returns to a frame that is gone | `Process::launch` lowers the exec flag |
| tasking_safe, invariant `ExecFlagOnlyInExec` | violated: a failed execve leaves the flag up | `Syscall.cpp:458` |
| signal_safe, `Windows = {"check"}`, `{"sleep"}` or `{"notify"}` | `NoLostLine` violated | `SignalManager.cpp:83` |
| signal_safe, `Windows = {"wait"}` or `ReusePids = TRUE` | `ExitRecordedOnce` violated | `SignalManager.cpp:198` |
| filetable, `Preempt = TRUE` | `RefCounts` violated | `ProcTable.cpp:174` |
| proctable, `Preempt = TRUE` | `NoOverwrite` violated | `ProcTable.cpp:51` |
| heap, `HPreempt = TRUE`, `HProcs = {p1, p2}` | `BlocksSound` violated | `KernelHeap.cpp:181` |
| heap, `TablePages = 2` and `PageAssumption` without its bound | `OneTableAtATime` violated: the table of the heap needs a table | `PageDescriptorTable.cpp:713` |
| memory, `BrkCareful = FALSE` | `OwnedMapped` violated: where the stack has reached the break, a shrinking brk frees the lowest stack page | `Process.cpp:546` |
| memory, invariant `ForkDuplicates` | violated: brk in a forked child uses the headers of a blank ELF | `Process.cpp:512` |
| ext, property `EntriesSurvive` | violated: a name is lost when its directory cannot be rewritten; the group counter goes down, not up, when a block is freed | `Ext.cpp:2058` |
| ext, `NGroups = 2`, `MaxOps = 6` | `BlocksOnce` violated: a search outside the inode's group keeps the index of another | `Ext.cpp:1865` |
| ext, `MaxPerName = 2` or `Misuse = TRUE` | `NamedLive` violated | `ProcTable.cpp:263`, `Ext.cpp:1187` |
| storage, `Careful = FALSE` (`Kinds = {"ext2"}` or `{"memory"}`) | `FlushedMatch` violated | `Ext.cpp:389`, `File.cpp:373` |
| storage, `EndOffsets = {0, 1}`, `Kinds = {"block"}` | `FlushedMatch` violated: the offset from the end is subtracted | `File.cpp:305` |
| storage, `VCareful = FALSE` | `HandlesSound` violated | `MemoryFileSystem.cpp:267` |
| storage, `DProcs = {p1, p2}`, `DPreempt = TRUE` | `DiskFaithful` violated: two transfers mix on one channel | `Ide.cpp:646` |
| storage, `Beyond = {"master", "slave"}` | `DiskFaithful` violated: `switch_device` indexes `channels` by slot and reads behind it | `Ide.cpp:800` |
| platform, `KCareful = FALSE` | `ScreenFaithful` violated (newline on an empty bottom row), `KeysFaithful` alone too (`read_key` drops what arrived meanwhile) | `VgaController.cpp:212`, `Keyboard.cpp:275` |
| platform, `LCareful = FALSE` | `TablesOwned` violated (self-assignment, a moved-from Elf that stays valid), `ImageWhole` alone too (unaligned segment) | `Elf.cpp:560`, `Elf.cpp:1238` |
| platform, `XCareful = FALSE`, invariant `PointersDereferenced` | violated: a thrown pointer is compared without being followed | `cxxabi.cpp:1370` |
| rtti, `RCareful = FALSE` | `CastsRight` violated: `result` is tested for `result2`, and `&` stands for `or` | `cxxabi.cpp:349`, `cxxabi.cpp:543` |

Read while modelling and outside every run: `lookup` matches `/tmpx` to the
mount point `/tmp`; `mount` does not notice a device that is mounted already;
`rmdir` on tmpfs always fails; `__cxa_finalize` calls its functions in the order
of registration; the emergency exception buffer exists once; at
`MultiBoot.cpp:638` `AOutSymTab` is given the tag, not the data mapped for it.

### Bounds

| Bound | Value | Why it is enough |
|---|---|---|
| Tasking `Pids` | 2 (3 in the yield window run) | switch away and back; a third only adds a longer scan |
| `MaxDepth` | 4, 5 | a system call, a tick in it, a key in that, and one frame more; ticks do not nest deeper because the switch flag is up |
| `MaxKeys` | 0, 1 | the keyboard handler does not nest in itself (the PIC holds IRQ1 back) |
| SignalManager `NPids` | 3 safe, 2 live | parent, child and a bystander whose request may be taken |
| `MaxLines`, `Timeouts` | 1; {1} or {2} | a line that is there or not; a timeout that runs out at once or later |
| FileTable | 3 processes, 2 fds, 4 keys, 2 names | sharing by fork, private opens, and a full table |
| ProcTable `max_pid` | 4 | wrap-around and a full table |
| Heap `PageUnits`, `TablePages`, `MaxPages` | 4, 4, 11 | three page tables, so growth crosses two table boundaries |
| Heap `Sizes`, `MaxLive` | {2, 3}, 3 | the end of a freed page is worth a split or is not, free neighbours on either side, the last block at every place in its page |
| Ext2 `BPG`, `IPG`, `Direct`, `APB` | 7, 5, 1, 2 | blocks and inodes run out, a file reaches its doubly indirect block |
| Ext2 `MaxOps` | 8 | create, fill, unlink, remount and reuse what was freed |
| Files `S`, `Size`, `Lens` | 3, 6, {1, 2, 4} | transfers inside a sector, across a boundary and over a whole one |
| Vfs | 4 paths, 2 handles, 3 allocations | one file open twice, one reallocated, one reused |
| Disk `W`, `HeadsLba`, `Spt`, `Hpc`, `DSectors` | 2, 2, 3, 2, {1, 2, 16} | registers of two values, so that each address mode overflows into the next digit and LBA28 into LBA48 |
| Console | 10 keys, 5 events, 2 by 2 screen | a modifier held over a key, every form of scan code, scrolling by text and by newline |
| Loader | 2 segments, 3 frames, 2 objects, 5 calls | segments that meet in a page, frames running out, assignment over an owner |
| Exceptions | 3 frames, 3 throws, 2 processes | a throw from a handler and its rethrow |
| Rtti `NClasses` | 4 | the smallest diamond, with a class below or a repeated base beside it |
| Memory | 13 frames, 6 pages in 3 tables, stack of 3 | a fork that fits, every operation running out of memory, and a stack that reaches the break |

`CHECK_DEADLOCK FALSE` appears only where the system really stops (heap and
memory: the kernel panics when it has no page) or where a bound on the number of
operations ends the behaviour (ext, storage, platform, rtti).  Symmetry is used
for handles, table objects and the processes of Exceptions, in runs without
liveness properties; nothing orders these values or tells them apart.

### Fairness

* Tasking: `WF(Execute)`, the CPU keeps executing, and `SF(Pit)`, a tick that is
  possible again and again is delivered, since the PIT is periodic and the PIC
  latches its request.
* SignalManager: `SF` of each process's steps inside the kernel (a time slice is
  longer than a step), of the keyboard handler once entered, and of the tick.
  User code need never make a call and nobody need type.
* ProcTable: `WF` of the search loop of a process; switching during it is
  excluded there.  It implies the fairness of PidPool: a request is answered.
* The other modules state safety only: their operations run to their end in the
  caller, and nobody has to make a call.

## 4. Proofs

All proofs are for every value of the constants that meets the named ASSUMEs.
Where a run closes a window or leaves out a case that the code does not handle
(section 3), the theorem has the same restriction as a hypothesis.

* **TaskingProofs**, `TypeCorrect`: `Spec => []TypeOK`.  TypeOK says that `esp`
  and every saved context are within a kernel stack and that `current_proc` is in
  the table.  It is not inductive: `TypeInv` adds that every frame works on a pid
  of the table, that the contexts it can return to and the saved ones leave room
  for one more frame, and that poll runs at the bottom of its stack
  (`GoodStacks`).  Lemmas `PutFrame`, `GotoGood`, `PopGood`, `PushGood` say how
  each way of changing a stack keeps it; one lemma per group of actions follows.
* **TaskingProofs**, `ContextsKept`, `CurrentRuns` and `NeverPanics`, under
  `Windows = {}`: a resumed context is what was saved, user code runs as
  `current_proc`, and the process switched to has a context.  `TaskInv` sorts the
  frames of a stack into those at which a tick may switch (`SafeFrame`) and those
  at which it may not (`Critical`); a critical frame is the one the CPU executes, a
  saved context ends in safe frames, and what is saved for a process equals the
  reference copy taken at the save.  With a window open `TaskInv` breaks at the
  step in which a tick finds a critical frame, and so does `ContextIntegrity`:
  **tasking_yield_window** shows it.
* **SignalManagerProofs**, five theorems on three invariants that build on each
  other.  `BaseInv` ties the request in each list to the place its process is at
  (`TypeCorrect` needs no more).  `PollInv` adds that nothing comes between the
  check of the input and the sleep, and that the handler reaches every request
  whose line is there (`NoLostWakeUp`, with the three windows of poll closed).
  `WaitInv` and `ExitInv` follow a child from its exit over the request or the list
  of exits to its parent (`RequestStays`; `NoExitLost` and `ExitOnce`, for which no
  pid may be reused).
* **FileTableProofs**, `CountsExact`, `DescriptorsKeepFile` and
  `DescriptionsPrivate`, under `~Preempt`.  The count of a key is the cardinality of
  a set of pairs; `RowSplit` and `RowChange` reduce a change in one process's
  descriptors to a change in that row, `AddFd`, `RemoveFd`, `HoldsOne`,
  `CopiedCount` and `ClosedCount` count one row.  The invariant adds `Quiet` (what
  open and exec in progress hold).  That a descriptor keeps its file follows
  because a description in use is never removed or renamed; that open inserts a
  key nobody else holds, because a key with no holder has count zero.
* **ProcTableProofs**, `FailsWhenFull` and `InsertsAtFreePid` under `~Preempt`:
  the invariant `Searched` says every pid the search has passed, from
  `start_pid` round the circle to `last_pid`, is in use, and `Exclusive` that only
  the running process is inside a call.  `TableIsPool`: every behaviour is, under
  the mapping, one of the safety part of PidPool.  `StepLive` keeps that the
  running process and init are in the table, which the mapping of erase needs;
  `StepPool` maps every action to a step of the pool or to none.
* **MemoryProofs**, `ProcessesIsolated` and `MappedFramesMarked`.  The invariant
  is `Shape /\ OnePage /\ Marked /\ CopiesApart`: a frame backs one page; mapped
  frames and the copy pages of fork are marked used; copy pages are mapped
  nowhere.  `AllocateKeeps`, `FreeKeeps` and `DestroyKeeps` carry the three ways a
  mapping changes, `StepKeeps` the rest.
* **MemoryProofs**, `PagesStay` and `UserSeesOwn`, under `BrkCareful` and
  `TablesBelow`: between two calls every page of a process's binary, heap and
  stack is mapped, and the page tables the CPU uses are those of the process that
  runs and hold all of them.  `TablesBelow` says that what `free_user_space` frees
  by mistake lies below the binary, as it does at the real addresses.  `MapInv`
  says which pages each call in progress has mapped so far (`Given`).  The addresses
  enter only through the number of pages below them (`PageCounts`, `Below`,
  `Above`).  `UserSeesOwn` is proved of `CurrentLoaded`, which no run checks.
* **MemoryProofs** (about Heap), `HeapTiled`, `HeapBlocks`, `HeapMapped` and
  `HeapOneTable`, under `HPreempt = FALSE` (with it `BlocksSound` fails, section 3),
  for either heap, any number of processes, sizes of requests and of pages, and page
  tables of three pages or more.  `HInv` adds to the tiling: every block that is not
  free has its one use, no larger than the block (`LiveOK`); `end` is below `top`, and
  the pages below `top` are those mapped (`SpaceOK`); a walk is at a block, with the
  one before it in `prev`, and a block being merged is free (`DoingOK`); while a call
  is parked, its page is the first of its page table and `end` is below that page
  (`NestedOK`), so the two pages more that the table needs are under it too: that is
  why `OneTableAtATime` holds, and it is false with tables of two pages.
  `SplitTiling`, `MergeTiling`, `AppendTiling` and the four `Move` lemmas say what
  each way of changing the list does to the tiling; `AlignKeeps`, `SplitEndKeeps`,
  `ClaimKeeps`, `AlignLastKeeps` and `AppendKeeps` do the same for the operators of
  `find_free_block` and `new_block`, the unsigned comparisons included; `KeptLive`,
  `Grant` and `Flagged` follow the blocks in use.
* **Ext2Proofs**, `NoBlockServesTwice`, `ReachedIsMarked`, `FreeIsCounted`,
  `NamesAreLive` and `NothingInMemoryOnly`, under `NGroups = 1`, `MaxPerName = 1` and
  `Misuse = FALSE`, for any numbers of blocks, inodes, pointers, names, open files and
  operations.  These hypotheses are those of the run **ext**, and not for the sake of
  the proof: without any one of them an invariant is false (section 3).  An operation
  of the driver is one step made of small ones on its state; each of these has a lemma
  that says what it leaves of the `View`, which does not depend on what is cached
  (`SettingInode`, `FlushingMetadata`, `Marking`, `Deallocating`).  The invariant is
  `World /\ Tidy`.  `BlocksOK`: the places of inodes that hold an address hold
  different marked blocks outside the tables, and no doubly indirect block holds any
  (`inode_set` never enters the block it allocates below one).  While an operation
  passes a new block on, it is `Spare`: marked and held nowhere (`Taking`,
  `InodeSetting`, `Allocating`).  `TreeOK` and `OpenOK`: names form a tree and the path
  of an open file leads to its inode or nowhere.  This strengthening `NamedLive` needs:
  `unlink` and the last close decide on the deletion of an inode by its path.
  `CacheOK` and `Tidy`: the caches hold only what is open or being written, but for
  the last inode.  One lemma per operation (`StepFopenExisting`, `StepFopenCreate`,
  `StepWrite`, `StepClose`, `StepRemove`, `StepMkdir`, `StepRemount`) and `FirstState`
  for a drive that has just been formatted.
* **StorageProofs** (about Files), `ReadsDeliver` and `FlushWrites`, under
  `Careful` and `EndOffsets \subseteq {0}`: through any order of reads, writes, seeks
  and flushes of any lengths a read returns what was written at its position, and a
  flush leaves the file equal to the reference.  `FilesInv` sees the file as its
  bytes overlaid with the dirty part of the buffer (`BlockOverlay`, `ExtOverlay`),
  and says that this is the reference and that the positions agree.
* **StorageProofs** (about Vfs), `HandlesStaySound`, under `VCareful`: no FILE of
  tmpfs refers to freed memory or to another file's, and each FILE belongs to the file
  system mounted nearest above its path, for any paths, FILEs and disks.  `VfsInv`: no
  two names share an address and no two FILEs a name, addresses in use are below the
  next one to be given out.  One lemma per way of opening (`Creating`, `Reopening`,
  `Outside`) and one per call that changes names.
* **StorageProofs** (about Disk), `SectorsFaithful`, under `~DPreempt` and `"slave"
  \notin Beyond` (what lies in memory behind `channels` does not read as a slave): a
  read delivers what was last written to that sector of that partition, for any
  hardware in the slots, any partition tables, disk sizes and geometry.
  `RegistersRight` decodes the registers of each address mode back to the sector;
  `DiskInv` says how far the registers, the selected device and the command of a
  channel have come in the transfer that runs.
* **PlatformProofs** (about Exceptions), `HandlersAreInnermost` and
  `EveryExceptionOwned`, under `XCareful`: for any tables, any depth of calls and any
  nesting of throws, rethrows and cleanups of any number of processes.  `ExcInv` has
  for each process `Walk` (every flight has passed only frames that do not take it, and
  each is suspended above the cleanup of the one before), `Shape` (which frames may be
  in a cleanup or about to catch) and `HandlersOK` (`handlerCount`, the chain of caught
  exceptions and the handlers on the stack agree); and that the exceptions processes
  hold are disjoint and together all there are.  `Change` says what a step of a process
  may do to the exceptions, so that the others keep theirs (`StepKeeps`).  `ActionChosen`
  and `SiteChosen` characterise the personality routine; the byte behind a region,
  which `contains_ip` counts as inside, is why `ExcAssumption` is needed.
* **PlatformProofs** (about Loader), `ProgramsWhole` and `ArraysOwned`, under
  `LCareful`.  A loaded program has each byte of its segments, and zero behind
  them, at its address, for any segments, page size and number of frames:
  `ImageInv` says that the pages allocated so far are those the segments passed
  touch (`TouchedIsMapped`, `SegmentInPages`), that the bytes of the segments
  passed are there, and that the break is behind all of them (`Greatest`,
  `BreakBehindAll`).  Every array of a table object has one owner and the right
  size: `Sound` relates the arrays alive, the calls in progress and the objects;
  `ReplaceOne` is the one way in which copy, move and assignment change an object.
* **PlatformProofs** (about Console), `KeysFollowed` and `ScreenShows`, under `KCareful = TRUE`, for
  every size of the screen, set of keys, length of typing and order of reads.
  `KeysInv`: the controller is empty and the driver agrees with the fingers, or it
  holds exactly one code, with which the driver will agree; `CodeRead`, `Makes` and
  `Breaks` say that every code of the keyboard is read whole and decoded to its key,
  `MeansAscii` that `get_ascii` is what the user means.  `ScreenInv`: the character
  in column c of row r is that of the text; cells are named by `At(r, c)`, whose
  order (`AtBelow`, `AtOnce`) replaces the arithmetic of offsets.  `PutInRow`,
  `PutFull` and `PutNewline` are the three ways in which `putchar` moves on.

Only model-checked, and why:

* every liveness property (`Served`, `PollReturns`, `LineWakes`, `WaitReturns`) and
  the fairness of PidPool: fairness is outside the prover's reach;
* Rtti: the two walks over the class hierarchy are RECURSIVE operators, and what
  they compute is an induction over data.

## 5. Plan

Done: every module above, and the theorems of section 4.  Left, in this order:

1. The counters of the PIT at their width, and `sleep`.
2. The buffers of the stdlib streams on top of Files.

## 6. Not modelled

* Boot code, the GDT, PCI enumeration, MultiBoot: straight-line code that runs
  once, before interrupts are enabled, into tables that are only read afterwards.
* Serial output, the logger, VBE: they write to a device, and no other component
  depends on their state.
* stdlib containers, strings, streams and the C library: sequential value types
  whose promises are those of the sequences and functions TLA+ has; the repository
  tests them on the host.
* The user programs are replaced by processes that make any call at any time.
* Inside the modelled components: triply indirect blocks, permission bits and time
  stamps of ext2; ATAPI transfers; 4 MB pages and device mappings; realloc; the raw
  mode of the keyboard.

PROJECT.json says for each component what is missing.
