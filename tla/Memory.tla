------------------------------- MODULE Memory -------------------------------
(* Physical pages and the user half of the address spaces:                   *)
(* PageFrameAllocator, PageDescriptorTable, and the operations of Process    *)
(* that change user memory: launch (by execve), fork_duplicate, brk,         *)
(* set_user_stack (by the page fault handler), the destructor and resume.    *)
(*                                                                           *)
(* Only the kernel's page descriptor table is ever loaded. Its user half     *)
(* refers to the page tables of the current process, which are shared        *)
(* objects: a page entered in one of them is seen through both descriptor    *)
(* tables, but a page table added to the descriptor table of the process is  *)
(* seen by the processor only after update_user_space. A page table is       *)
(* deleted when its last page goes and made for its first, so it exists      *)
(* exactly when a page of it is mapped.                                      *)
(*                                                                           *)
(* Every loop is one step per page, so that ticks, and with them the calls   *)
(* of other processes, come between any two pages; only execve blocks task   *)
(* switching. One allocate or free of a page is a step: the windows inside   *)
(* it are not modelled. Of the kernel heap (module Heap) only the page sized *)
(* blocks are here that fork copies through, each with the frame under it.   *)
EXTENDS Integers

CONSTANTS Procs,        \* processes
          Kernel,       \* stands for the kernel's page descriptor table
          First,        \* the process launched at boot
          NumFrames,    \* number_of_pages of physical memory
          BootFrames,   \* frames in use by the kernel at boot: 0 .. BootFrames-1
          PageSize,     \* page_size, in the unit addresses are counted in
          TableSize,    \* pages of a page table, PageTable::sz
          FreeSpan,     \* trips of the inner loop of free_user_space
          Base,         \* first page of a binary
          ElfBreak,     \* end of its segments, an address: get_break_point()
          Top,          \* kernel_virtual_base, as a page number
          MaxStack,     \* max_stack, in pages
          BrkCareful    \* is no break moved that the stack has reached? see Brk

ASSUME ProcsAssumption == Kernel \notin Procs /\ First \in Procs
ASSUME FramesAssumption == NumFrames \in Nat /\ BootFrames \in 1 .. NumFrames
ASSUME LayoutAssumption ==
    /\ PageSize \in Nat \ {0} /\ TableSize \in Nat \ {0} /\ FreeSpan \in Nat
    /\ Base \in Nat \ {0} /\ Top \in Nat /\ MaxStack \in Nat
    /\ ElfBreak \in Nat
    /\ Base * PageSize < ElfBreak /\ ElfBreak < (Top - 1) * PageSize

VARIABLES used,     \* used_pages: the frames in use
          last,     \* last_alloc of the PageFrameAllocator in each descriptor table
          map,      \* map[p][v]: the frame of page v in p's page tables, or 0
          loaded,   \* page tables of the current process the kernel's table refers to
          break,    \* break_point of each process
          stack,    \* current_stack, in pages
          forked,   \* processes made by fork: blank ELF, no kernel half in the pdt
          alive,    \* processes in the process table
          current,  \* the scheduler's current_proc
          call,     \* the system call or fault each process is in
          blocks,   \* frames under the free page sized blocks of the heap; 0: none
          crash     \* why the kernel stopped, or "no"

vars == <<used, last, map, loaded, break, stack, forked, alive, current, call,
          blocks, crash>>

Frames == 0 .. NumFrames - 1
\* last_alloc of a new PageFrameAllocator.
StartAlloc == BootFrames - 1
Pages == Base .. Top - 1
TableOf(v) == v \div TableSize
Tables == {TableOf(v) : v \in Pages}
Addresses == Base * PageSize .. Top * PageSize

\* No page mapped.
Unmapped == [v \in Pages |-> 0]

\* The page tables that exist for the mapping m.
TablesIn(m) == {TableOf(v) : v \in {w \in Pages : m[w] # 0}}

\* What a process is doing in the kernel: nothing; launching, with the page to
\* map next; forking the process "child", with the page to copy next and the frame
\* under the copy space; in brk for the address "to", "at" being break_bot or v_bp;
\* growing its stack to "to" pages.
InUser == [op |-> "user"]
Launching(v) == [op |-> "launch", page |-> v]
Forking(c, v, f) == [op |-> "fork", child |-> c, page |-> v, copy |-> f]
Growing(to, at) == [op |-> "grow", to |-> to, at |-> at]
Shrinking(to, at) == [op |-> "shrink", to |-> to, at |-> at]
Stacking(to) == [op |-> "stack", to |-> to]

Calls == [op : {"user"}]
    \cup [op : {"launch"}, page : Base .. Top]
    \cup [op : {"fork"}, child : Procs, page : Base .. Top, copy : Frames]
    \cup [op : {"grow", "shrink"}, to : Addresses, at : 0 .. Top * PageSize]
    \cup [op : {"stack"}, to : Nat]

Crashes == {"no", "out of memory", "page fault", "blank ELF", "no kernel half",
            "no copy space"}

Init ==
    /\ used = 0 .. BootFrames - 1
    /\ last = [d \in Procs \cup {Kernel} |-> StartAlloc]
    /\ map = [p \in Procs |-> Unmapped]
    /\ loaded = {}
    /\ break = [p \in Procs |-> ElfBreak]
    /\ stack = [p \in Procs |-> 1]
    /\ forked = {}
    /\ alive = {First}
    /\ current = First
    /\ call = [p \in Procs |-> IF p = First THEN Launching(Base) ELSE InUser]
    /\ blocks = {}
    /\ crash = "no"

-----------------------------------------------------------------------------
(* PageFrameAllocator::allocate takes the first free frame after last_alloc. *)
(* Its second loop leaves after testing frame 0, which is the hardware's, so *)
(* that frames at or below last_alloc are never found again.                 *)
IsNext(f, l, u) ==
    /\ f \in Frames \ u
    /\ l < f
    /\ \A g \in l + 1 .. f - 1 : g \in u

NoNext(l, u) == \A g \in Frames : g > l => g \in u

\* allocate(v) by descriptor table d on p's behalf succeeds: a frame for the
\* page and, if the page table is missing, the frame new_page_table takes for it.
Allocate(d, p, v) ==
    /\ map[p][v] = 0
    /\ \E f \in Frames :
        /\ IsNext(f, last[d], used)
        /\ map' = [map EXCEPT ![p][v] = f]
        /\ IF TableOf(v) \in TablesIn(map[p])
             THEN /\ used' = used \cup {f}
                  /\ last' = [last EXCEPT ![d] = f]
             ELSE /\ d \notin forked
                  /\ \E g \in Frames :
                        /\ IsNext(g, f, used \cup {f})
                        /\ used' = used \cup {f, g}
                        /\ last' = [last EXCEPT ![d] = g]

\* allocate(v) returns false: the page is mapped already, or no frame is found.
AllocateFails(d, p, v) == map[p][v] # 0 \/ NoNext(last[d], used)

\* allocate(v) has a frame, needs a page table, and stops the kernel: the
\* descriptor table made by fork has no table over temp_page_table, or there is
\* no frame left for the table.
AllocateStops(d, p, v) ==
    /\ map[p][v] = 0
    /\ TableOf(v) \notin TablesIn(map[p])
    /\ \E f \in Frames :
        /\ IsNext(f, last[d], used)
        /\ \/ d \in forked /\ crash' = "no kernel half"
           \/ /\ d \notin forked
              /\ NoNext(f, used \cup {f})
              /\ crash' = "out of memory"

\* PageDescriptorTable::free of the pages vs of the current process: the frames,
\* then the entries of the page tables.
FreePages(vs) == used' = used \ ({map[current][v] : v \in vs \cap Pages} \ {0})

\* Mutant: the entry of the page table is left as it is.
WithoutEffect(m, vs) == m

Without(m, vs) == [v \in Pages |-> IF v \in vs THEN 0 ELSE m[v]]

\* Mutant: free_user_space counts pages from the start of the page table.
FreedWithWholeTable(i) == {v \in Pages : TableOf(v) = i}

\* free_user_space on the kernel's table: for every page table i it frees the
\* pages numbered from i, not from i * TableSize.
FreedWithTable(i) == {v \in Pages : i <= v /\ v < i + FreeSpan}
FreeUserSpace == {v \in Pages : \E i \in loaded : v \in FreedWithTable(i)}

\* The destructor of process q. User memory is freed through the kernel's table,
\* which shows the memory of the current process; the page tables of q and
\* their frames are forgotten.
Destroy(q) ==
    LET left == Without(map[current], FreeUserSpace) IN
    /\ FreePages(FreeUserSpace)
    /\ map' = [map EXCEPT ![current] = left, ![q] = Unmapped]
    /\ loaded' = loaded \cap TablesIn(left)

\* update_user_space: the kernel's table refers to the page tables of m.
Load(m) == loaded' = TablesIn(m)

Running(op) == crash = "no" /\ call[current].op = op
Become(c) == call' = [call EXCEPT ![current] = c]

-----------------------------------------------------------------------------
(* execve and Process::launch                                                *)

\* The user half of the kernel's table is cleaned, then the old process is
\* deleted: free_user_space finds no page table and its frames stay in use.
ExecBegin ==
    /\ Running("user")
    /\ loaded' = {}
    /\ map' = [map EXCEPT ![current] = Unmapped]
    /\ break' = [break EXCEPT ![current] = ElfBreak]
    /\ stack' = [stack EXCEPT ![current] = 1]
    /\ forked' = forked \ {current}
    /\ Become(Launching(Base))
    /\ UNCHANGED <<used, last, alive, current, blocks, crash>>

\* The pages of the segments, then the page of the stack.
LaunchNext(v) == IF (v + 1) * PageSize < ElfBreak THEN v + 1
                 ELSE IF v = Top - 1 THEN Top ELSE Top - 1

LaunchMap ==
    LET v == call[current].page IN
    /\ Running("launch")
    /\ v < Top
    /\ Allocate(Kernel, current, v)
    /\ loaded' = loaded \cup {TableOf(v)}
    /\ Become(Launching(LaunchNext(v)))
    /\ UNCHANGED <<break, stack, forked, alive, current, blocks, crash>>

LaunchPanics ==
    LET v == call[current].page IN
    /\ Running("launch")
    /\ v < Top
    /\ \/ AllocateFails(Kernel, current, v) /\ crash' = "out of memory"
       \/ AllocateStops(Kernel, current, v)
    /\ UNCHANGED <<used, last, map, loaded, break, stack, forked, alive, current, call, blocks>>

\* The descriptor table of the process is a copy of the kernel's, allocator
\* included.
LaunchEnd ==
    /\ Running("launch")
    /\ call[current].page = Top
    /\ last' = [last EXCEPT ![current] = last[Kernel]]
    /\ Become(InUser)
    /\ UNCHANGED <<used, map, loaded, break, stack, forked, alive, current, blocks, crash>>

-----------------------------------------------------------------------------
(* fork: Process::fork_duplicate and duplicate_user_space                    *)

\* A block for the copy space: a free one, or a new one at the end of the heap.
CopySpace(f) ==
    \/ /\ f \in blocks
       /\ blocks' = blocks \ {f}
       /\ UNCHANGED <<used, last>>
    \/ /\ blocks = {}
       /\ IsNext(f, last[Kernel], used)
       /\ used' = used \cup {f}
       /\ last' = [last EXCEPT ![Kernel] = f]
       /\ UNCHANGED blocks

ForkBegin(c) ==
    /\ Running("user")
    /\ c \notin alive
    /\ \A p \in alive : call[p].op = "fork" => call[p].child # c
    /\ \E f \in Frames : CopySpace(f) /\ Become(Forking(c, Base, f))
    /\ map' = [map EXCEPT ![c] = Unmapped]
    /\ break' = [break EXCEPT ![c] = break[current]]
    /\ stack' = [stack EXCEPT ![c] = stack[current]]
    /\ UNCHANGED <<loaded, forked, alive, current, crash>>

\* The heap cannot grow.
ForkPanics ==
    /\ Running("user")
    /\ alive # Procs
    /\ blocks = {}
    /\ NoNext(last[Kernel], used)
    /\ crash' = "out of memory"
    /\ UNCHANGED <<used, last, map, loaded, break, stack, forked, alive, current, call, blocks>>

\* Pages the kernel's table shows.
Shown(v) == TableOf(v) \in loaded /\ map[current][v] # 0

ForkSkip ==
    LET c == call[current] IN
    /\ Running("fork")
    /\ c.page < Top
    /\ ~Shown(c.page)
    /\ Become(Forking(c.child, c.page + 1, c.copy))
    /\ UNCHANGED <<used, last, map, loaded, break, stack, forked, alive, current, blocks, crash>>

\* Mutant: the copy space keeps its frame, which is the child's as well.
RemapMissing(f) == f = call[current].copy /\ UNCHANGED <<used, last>>

\* The copy space gets another frame; whether that succeeded is not looked at.
Remap(f) ==
    \/ /\ IsNext(f, last[Kernel], used)
       /\ used' = used \cup {f}
       /\ last' = [last EXCEPT ![Kernel] = f]
    \/ /\ f = 0
       /\ NoNext(last[Kernel], used)
       /\ UNCHANGED <<used, last>>

\* The page is copied, and the frame under the copy space goes to the child.
ForkCopy ==
    LET c == call[current] IN
    /\ Running("fork")
    /\ c.page < Top
    /\ Shown(c.page)
    /\ c.copy # 0
    /\ map' = [map EXCEPT ![c.child][c.page] = c.copy]
    /\ \E f \in Frames : Remap(f) /\ Become(Forking(c.child, c.page + 1, f))
    /\ UNCHANGED <<loaded, break, stack, forked, alive, current, blocks, crash>>

\* memcpy to a copy space without a frame.
ForkFaults ==
    LET c == call[current] IN
    /\ Running("fork")
    /\ c.page < Top
    /\ Shown(c.page)
    /\ c.copy = 0
    /\ crash' = "no copy space"
    /\ UNCHANGED <<used, last, map, loaded, break, stack, forked, alive, current, call, blocks>>

\* The copy space is freed, and the child enters the process table. Its own
\* allocator starts afresh.
ForkEnd ==
    LET c == call[current] IN
    /\ Running("fork")
    /\ c.page = Top
    /\ blocks' = blocks \cup {c.copy}
    /\ last' = [last EXCEPT ![c.child] = StartAlloc]
    /\ alive' = alive \cup {c.child}
    /\ forked' = forked \cup {c.child}
    /\ Become(InUser)
    /\ UNCHANGED <<used, map, loaded, break, stack, current, crash>>

\* No PID is free: the child is deleted.
ForkFails ==
    LET c == call[current] IN
    /\ Running("fork")
    /\ c.page = Top
    /\ blocks' = blocks \cup {c.copy}
    /\ Destroy(c.child)
    /\ Become(InUser)
    /\ UNCHANGED <<last, break, stack, forked, alive, current, crash>>

\* waitpid of the current process reaps the terminated process q.
Reap(q) ==
    /\ Running("user")
    /\ q \in alive \ {current}
    /\ call[q].op = "user"
    /\ Destroy(q)
    /\ alive' = alive \ {q}
    /\ forked' = forked \ {q}
    /\ UNCHANGED <<last, break, stack, current, call, blocks, crash>>

-----------------------------------------------------------------------------
(* brk. The address 0 is a query and changes nothing. set_user_stack lets    *)
(* the stack reach the break; when both are at a page boundary, the page at  *)
(* the break is the lowest of the stack, and a break that shrinks frees it.  *)

\* Round up to the page boundary above: an address on one goes to the next.
RoundUp(a) == a - (a % PageSize) + PageSize

\* The highest page start that is taken to be mapped.
BreakBot(a) == IF a % PageSize = 0 THEN a - PageSize ELSE a - (a % PageSize)

Brk(a) ==
    LET b == break[current] IN
    /\ Running("user")
    /\ current \notin forked
    /\ ElfBreak <= a
    /\ RoundUp(a) < (Top - stack[current]) * PageSize
    /\ BrkCareful => b < (Top - stack[current]) * PageSize
    /\ Become(IF a > BreakBot(b) + PageSize THEN Growing(a, BreakBot(b))
                                           ELSE Shrinking(a, b))
    /\ UNCHANGED <<used, last, map, loaded, break, stack, forked, alive, current, blocks, crash>>

\* get_break_point reads the program headers of the blank ELF of a forked
\* process through a null pointer.
BrkFaults ==
    /\ Running("user")
    /\ current \in forked
    /\ crash' = "blank ELF"
    /\ UNCHANGED <<used, last, map, loaded, break, stack, forked, alive, current, call, blocks>>

\* One page more, at break_bot + page_size.
BrkGrow ==
    LET c == call[current]
        v == c.at \div PageSize + 1 IN
    /\ Running("grow")
    /\ c.to > c.at + PageSize
    /\ Allocate(current, current, v)
    /\ Become(Growing(c.to, c.at + PageSize))
    /\ UNCHANGED <<loaded, break, stack, forked, alive, current, blocks, crash>>

\* allocate fails: -1, and the pages mapped so far stay.
BrkGrowFails ==
    LET c == call[current]
        v == c.at \div PageSize + 1 IN
    /\ Running("grow")
    /\ c.to > c.at + PageSize
    /\ \/ /\ AllocateFails(current, current, v)
          /\ Become(InUser)
          /\ UNCHANGED crash
       \/ AllocateStops(current, current, v) /\ UNCHANGED call
    /\ UNCHANGED <<used, last, map, loaded, break, stack, forked, alive, current, blocks>>

\* One page less, the one v_bp lies in; free does nothing if it is not mapped.
BrkShrink ==
    LET c == call[current]
        v == c.at \div PageSize IN
    /\ Running("shrink")
    /\ RoundUp(c.to) <= c.at
    /\ FreePages({v})
    /\ map' = [map EXCEPT ![current] = Without(@, {v})]
    /\ Become(Shrinking(c.to, c.at - PageSize))
    /\ UNCHANGED <<last, loaded, break, stack, forked, alive, current, blocks, crash>>

\* break_point is set and the kernel's table updated. pdt_changed is not
\* initialised, but without a change the update changes nothing either.
BrkEnd ==
    LET c == call[current] IN
    /\ \/ Running("grow") /\ c.to <= c.at + PageSize
       \/ Running("shrink") /\ RoundUp(c.to) > c.at
    /\ break' = [break EXCEPT ![current] = c.to]
    /\ Load(map[current])
    /\ Become(InUser)
    /\ UNCHANGED <<used, last, map, stack, forked, alive, current, blocks, crash>>

-----------------------------------------------------------------------------
(* PageFaultHandler::handle and set_user_stack                               *)

\* A process touches a page that is not mapped. The distance to the top is
\* rounded up to the next page boundary, one page too many for the first
\* address of a page. Every failure ends in a panic.
PageFault(v, first) ==
    LET pages == Top - v + (IF first THEN 1 ELSE 0) IN
    /\ Running("user")
    /\ map[current][v] = 0
    /\ v < Top - stack[current]
    /\ IF pages <= MaxStack /\ pages <= Top /\ (Top - pages) * PageSize >= break[current]
         THEN Become(Stacking(pages)) /\ UNCHANGED crash
         ELSE crash' = "page fault" /\ UNCHANGED call
    /\ UNCHANGED <<used, last, map, loaded, break, stack, forked, alive, current, blocks>>

StackGrow ==
    LET v == Top - stack[current] - 1 IN
    /\ Running("stack")
    /\ stack[current] < call[current].to
    /\ Allocate(current, current, v)
    /\ stack' = [stack EXCEPT ![current] = @ + 1]
    /\ UNCHANGED <<loaded, break, forked, alive, current, call, blocks, crash>>

StackFails ==
    LET v == Top - stack[current] - 1 IN
    /\ Running("stack")
    /\ stack[current] < call[current].to
    /\ \/ AllocateFails(current, current, v) /\ crash' = "page fault"
       \/ AllocateStops(current, current, v)
    /\ UNCHANGED <<used, last, map, loaded, break, stack, forked, alive, current, call, blocks>>

StackEnd ==
    /\ Running("stack")
    /\ stack[current] >= call[current].to
    /\ Load(map[current])
    /\ Become(InUser)
    /\ UNCHANGED <<used, last, map, break, stack, forked, alive, current, blocks, crash>>

-----------------------------------------------------------------------------
\* The scheduler gives the CPU to q, and resume loads its page tables. Task
\* switching is blocked from the clean_user_space of execve to the end of launch.
Switch(q) ==
    /\ crash = "no"
    /\ call[current].op # "launch"
    /\ q \in alive \ {current}
    /\ current' = q
    /\ Load(map[q])
    /\ UNCHANGED <<used, last, map, break, stack, forked, alive, call, blocks, crash>>

Next ==
    \/ ExecBegin \/ LaunchMap \/ LaunchPanics \/ LaunchEnd
    \/ \E c \in Procs : ForkBegin(c)
    \/ ForkPanics \/ ForkSkip \/ ForkCopy \/ ForkFaults \/ ForkEnd \/ ForkFails
    \/ \E q \in Procs : Reap(q)
    \/ \E a \in Addresses : Brk(a)
    \/ BrkFaults \/ BrkGrow \/ BrkGrowFails \/ BrkShrink \/ BrkEnd
    \/ \E v \in Pages, first \in BOOLEAN : PageFault(v, first)
    \/ StackGrow \/ StackFails \/ StackEnd
    \/ \E q \in Procs : Switch(q)

Spec == Init /\ [][Next]_vars

-----------------------------------------------------------------------------
TypeOK ==
    /\ used \subseteq Frames
    /\ last \in [Procs \cup {Kernel} -> Frames]
    /\ map \in [Procs -> [Pages -> Frames]]
    /\ loaded \subseteq Tables
    /\ break \in [Procs -> Addresses]
    /\ stack \in [Procs -> Nat]
    /\ forked \subseteq Procs /\ alive \subseteq Procs /\ current \in alive
    /\ call \in [Procs -> Calls]
    /\ blocks \subseteq Frames
    /\ crash \in Crashes

\* Frames of the heap's copy blocks, in use by a fork or free.
CopyOf(p) == IF call[p].op = "fork" THEN call[p].copy ELSE 0
CopyFrames == (blocks \cup {CopyOf(p) : p \in Procs}) \ {0}

\* No two pages, of one process or of two, are backed by one frame, and none by
\* a frame fork copies into: the remapping of the copy space in
\* duplicate_user_space keeps parent and child apart, whatever other processes
\* allocate or copy between two pages.
Isolation ==
    \A p \in Procs : \A v \in Pages : map[p][v] # 0 =>
        /\ map[p][v] \notin CopyFrames
        /\ \A q \in Procs : \A w \in Pages :
            map[q][w] = map[p][v] => q = p /\ w = v

\* A frame that backs a page, or the heap under a copy, is marked in used_pages,
\* so that no allocator, of the kernel's or of any process's table, gives it out
\* a second time.
MappedAreUsed ==
    /\ \A p \in Procs : \A v \in Pages : map[p][v] # 0 => map[p][v] \in used
    /\ CopyFrames \subseteq used

\* The pages below the break and of the stack of a process.
Owned(p) == {v \in Pages : v * PageSize < break[p] \/ v >= Top - stack[p]}

\* Everything brk, the stack, launch and fork have given a process is mapped, for
\* every process in the table, and stays so while others come and go.
OwnedMapped ==
    \A p \in alive : call[p].op \in {"user", "fork"} =>
        \A v \in Owned(p) : map[p][v] # 0

\* A process in user mode sees its own pages: the user half of the kernel's
\* table refers to every page table its memory needs and to no deleted one.
CurrentLoaded ==
    call[current].op = "user" =>
        /\ {TableOf(v) : v \in Owned(current)} \subseteq loaded
        /\ loaded \subseteq TablesIn(map[current])

\* "Duplicates everything from the other process apart from the status, kernel
\* stack, exception globals and PPID": a forked process can do what its parent
\* could.
ForkDuplicates == crash \notin {"blank ELF", "no kernel half"}
=============================================================================
