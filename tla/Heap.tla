-------------------------------- MODULE Heap ---------------------------------
(***************************************************************************)
(* The heaps: KernelHeap, which grows page by page and keeps the kernel's  *)
(* own page tables, and UserHeap, the same list of blocks without          *)
(* alignment, which grows with brk.                                        *)
(*                                                                         *)
(* Addresses and sizes are in units of heap_align (16 bytes), which is     *)
(* also the size of a block's metadata.  A page has PageUnits of them, and *)
(* a page table maps TablePages pages.                                     *)
(*                                                                         *)
(* Every trip of a loop is a step: along the list in find_free_block, page *)
(* by page in new_block, block by block in free.  With HPreempt another    *)
(* process may run between two steps, as it may in the kernel; without it  *)
(* a call is not interrupted.                                              *)
(***************************************************************************)
EXTENDS Integers, FiniteSets, Sequences

CONSTANTS
    Kinds,       \* the heaps to look at: "kernel", "user"
    HProcs,      \* the processes that use the heap
    PageUnits,   \* size of a page
    TablePages,  \* pages mapped by one page table
    MaxPages,    \* bound: pages of address space the heap may grow into
    Sizes,       \* the sizes asked for, rounded up to heap_align
    MaxLive,     \* bound on the blocks in use at a time
    HPreempt     \* whether ticks are delivered inside malloc and free

ASSUME KindsAssumption == Kinds \subseteq {"kernel", "user"}
ASSUME SizesAssumption == Sizes \subseteq Nat \ {0}
\* A page table for the heap takes up to three pages of it: the end of its
\* metadata, the table and the new last block.  There are 1024 in a table.
ASSUME PageAssumption == PageUnits \in Nat \ {0} /\ TablePages \in Nat \ (0 .. 2)
ASSUME BoundAssumption == MaxPages \in Nat \ {0} /\ MaxLive \in Nat
ASSUME PreemptAssumption == HPreempt \in BOOLEAN

MaxAddr == MaxPages * PageUnits
Addrs == 0 .. MaxAddr
Null == -1
data_size == 1
heap_align == 1

\* Memory that is not a block's metadata holds anything; here it is Blank.
Blank == [size |-> 0, next |-> Null, free |-> FALSE]
EmptyLast == [size |-> 0, next |-> Null, free |-> TRUE]

VARIABLES
    kind,    \* which heap this is
    mem,     \* memory: at each address the metadata of a block, or Blank
    start,   \* address of the first block
    end,     \* "last": address of the empty block after all others
    top,     \* next_page_addr of the kernel heap, the break of a user heap
    mapped,  \* pages that are present
    tables,  \* page table indices that are present
    live,    \* blocks handed out: their data, and what was asked for by whom
    doing,   \* the call each process is in, the innermost if malloc is nested
    parked   \* the calls around it: next_page, waiting for a page table

list == <<mem, start, end>>
space == <<top, mapped, tables>>
heap_vars == <<kind, list, space, live, doing, parked>>

\* What a process is doing: nothing; in find_free_block, at the block "at"
\* after "prev"; past its loop; in new_block; in next_page, with the page still
\* to be mapped; in the loop of free.
Idle == [op |-> "none"]
Searching(n, align, prev, a) ==
    [op |-> "find", size |-> n, align |-> align, prev |-> prev, at |-> a]
Stopped(f, fits) ==
    [op |-> "stop", size |-> f.size, align |-> f.align, prev |-> f.prev,
     at |-> f.at, fits |-> fits]
Extending(f) == [op |-> "grow", size |-> f.size, align |-> f.align]
Mapping(f, page) ==
    [op |-> "map", size |-> f.size, align |-> f.align, page |-> page]
Merging(a) == [op |-> "merge", at |-> a]

\* The heap begins at a page boundary with one page and one page table.
HInit ==
    /\ kind \in Kinds
    /\ mem = [a \in Addrs |-> IF a = 0 THEN EmptyLast ELSE Blank]
    /\ start = 0 /\ end = 0
    /\ top = IF kind = "kernel" THEN PageUnits ELSE data_size
    /\ mapped = {0} /\ tables = {0} /\ live = {}
    /\ doing = [p \in HProcs |-> Idle]
    /\ parked = [p \in HProcs |-> <<>>]

\* p runs: a call is not interrupted, unless ticks are delivered.
Runs(p) == HPreempt \/ \A q \in HProcs \ {p} : doing[q] = Idle

-----------------------------------------------------------------------------
(* malloc and find_free_block                                              *)

\* Only page tables and pages to be mapped are allocated with an alignment,
\* and they are whole pages.
Requests == {<<n, 0>> : n \in Sizes} \cup
            (IF kind = "kernel" THEN {<<PageUnits, PageUnits>>} ELSE {})

Malloc(p) ==
    /\ Runs(p)
    /\ doing[p] = Idle
    /\ Cardinality({b \in live : b.by # "table"}) < MaxLive
    /\ \E r \in Requests :
         doing' = [doing EXCEPT ![p] = Searching(r[1], r[2], Null, start)]
    /\ UNCHANGED <<kind, list, space, live, parked>>

AlignUp(a, align) == IF align = 0 THEN a ELSE ((a + align - 1) \div align) * align

\* Where the data of a block would begin, and where the block ends.
Begin(a, align) == AlignUp(a + data_size, align)
End(m, a) == a + data_size + m[a].size

\* The block at a is free and has room.  The difference is unsigned: a block
\* that ends before its aligned beginning counts as large.
Fits(m, a, size, align) ==
    /\ m[a].free
    /\ size <= m[a].size
    /\ \/ End(m, a) < Begin(a, align)
       \/ size <= End(m, a) - Begin(a, align)

\* find_free_block passes a block that does not fit.
Pass(p) ==
    LET f == doing[p] IN
    /\ Runs(p)
    /\ f.op = "find"
    /\ mem[f.at].next # Null
    /\ ~Fits(mem, f.at, f.size, f.align)
    /\ doing' = [doing EXCEPT ![p] =
                    Searching(f.size, f.align, f.at, mem[f.at].next)]
    /\ UNCHANGED <<kind, list, space, live, parked>>

\* It stops at the first that fits, or at the last.
Stop(p) ==
    LET f == doing[p] IN
    /\ Runs(p)
    /\ f.op = "find"
    /\ mem[f.at].next = Null \/ Fits(mem, f.at, f.size, f.align)
    /\ doing' = [doing EXCEPT ![p] = Stopped(f, mem[f.at].next # Null)]
    /\ UNCHANGED <<kind, list, space, live, parked>>

\* Where the block is after it was aligned.
Placed(f) == IF f.fits THEN Begin(f.at, f.align) - data_size ELSE f.at

\* The beginning of a block is worth a block of its own.
RoomBefore(a, new) == new - a >= data_size + heap_align

\* The block is moved up to its alignment: its beginning becomes a block of
\* its own, or goes to the block before, or to nobody.
AlignBlock(m, f) ==
    LET new == Placed(f)
        moved == [m EXCEPT ![f.at] = Blank,
                           ![new] = [m[f.at] EXCEPT !.size = @ - (new - f.at)]]
    IN  IF new = f.at THEN m
        ELSE IF RoomBefore(f.at, new)
        THEN [m EXCEPT ![f.at] = [size |-> new - f.at - data_size, next |-> new,
                                  free |-> TRUE],
                       ![new] = [size |-> End(m, f.at) - new - data_size,
                                 next |-> m[f.at].next, free |-> TRUE]]
        ELSE IF f.prev = Null THEN moved
        ELSE [moved EXCEPT ![f.prev].next = new, ![f.prev].size = @ + (new - f.at)]

\* Only a block with none before it takes the start of the heap along.
StartMoves(f) ==
    f.prev = Null /\ Placed(f) # f.at /\ ~RoomBefore(f.at, Placed(f))

\* Mutant: the rest of the block is cut off without being linked in.
SplitEndUnlinked(m, a, size) ==
    IF m[a].next # Null /\ m[a].size >= size + data_size + heap_align
    THEN [m EXCEPT ![a].size = size] ELSE m

\* The end of the block that is not needed becomes a block of its own.
SplitEnd(m, a, size) ==
    LET new == a + data_size + size
    IN  IF m[a].next # Null /\ m[a].size >= size + data_size + heap_align
        THEN [m EXCEPT ![a] = [@ EXCEPT !.size = size, !.next = new],
                       ![new] = [size |-> m[a].size - size - data_size,
                                 next |-> m[a].next, free |-> TRUE]]
        ELSE m

\* The rest of find_free_block, for a walk that ended at f.
Claim(m, f) ==
    LET split == SplitEnd(AlignBlock(m, f), Placed(f), f.size)
    IN  IF split[Placed(f)].next # Null
        THEN [split EXCEPT ![Placed(f)].free = FALSE] ELSE split

\* A block handed out.
Handed(at, f, by) == [at |-> at, size |-> f.size, align |-> f.align, by |-> by]

\* malloc returns the data of the block at a; a page table takes it for
\* itself, and next_page goes on.
Return(p, a) ==
    IF parked[p] = <<>>
    THEN /\ live' = live \cup {Handed(a + data_size, doing[p], p)}
         /\ doing' = [doing EXCEPT ![p] = Idle]
         /\ UNCHANGED parked
    ELSE /\ live' = live \cup {Handed(a + data_size, doing[p], "table")}
         /\ doing' = [doing EXCEPT ![p] = Head(parked[p])]
         /\ parked' = [parked EXCEPT ![p] = Tail(@)]

\* A block was found: it is claimed.
Take(p) ==
    LET f == doing[p] IN
    /\ Runs(p)
    /\ f.op = "stop"
    /\ Placed(f) # end
    /\ mem' = Claim(mem, f)
    /\ start' = IF StartMoves(f) THEN Placed(f) ELSE start
    /\ Return(p, Placed(f))
    /\ UNCHANGED <<kind, end, space>>

-----------------------------------------------------------------------------
(* new_block                                                               *)

\* KernelHeap finds no block and begins to make one.
Extend(p) ==
    /\ Runs(p)
    /\ doing[p].op = "stop"
    /\ kind = "kernel"
    /\ Placed(doing[p]) = end
    /\ doing' = [doing EXCEPT ![p] = Extending(doing[p])]
    /\ UNCHANGED <<kind, list, space, live, parked>>

\* The loop condition of new_block.
NeedsPage(size, align) == end + data_size + size + align >= top

TopPage == top \div PageUnits
TableAt(page) == page \div TablePages

\* A page is mapped and counted.  The kernel panics where the bound stops it here.
Map(page) ==
    /\ top + PageUnits <= MaxAddr
    /\ mapped' = mapped \cup {page}
    /\ top' = top + PageUnits

\* next_page maps the page at top, under a page table that is there.
NextPage(p) ==
    /\ Runs(p)
    /\ doing[p].op = "grow"
    /\ NeedsPage(doing[p].size, doing[p].align)
    /\ TableAt(TopPage) \in tables
    /\ Map(TopPage)
    /\ UNCHANGED <<kind, list, tables, live, doing, parked>>

\* Mutant: the page table is entered when it has its place on the heap.
NewTableLate(p) ==
    /\ Runs(p)
    /\ doing[p].op = "grow"
    /\ NeedsPage(doing[p].size, doing[p].align)
    /\ TableAt(TopPage) \notin tables
    /\ top + PageUnits <= MaxAddr
    /\ parked' = [parked EXCEPT ![p] = <<Mapping(doing[p], TopPage)>> \o @]
    /\ doing' = [doing EXCEPT ![p] = Searching(PageUnits, PageUnits, Null, start)]
    /\ UNCHANGED <<kind, list, space, live>>

\* PageDescriptorTable::allocate of a page that needs a page table: the table
\* covers the page at once, and is put onto this very heap by a malloc within
\* the malloc.
NewTable(p) ==
    /\ Runs(p)
    /\ doing[p].op = "grow"
    /\ NeedsPage(doing[p].size, doing[p].align)
    /\ TableAt(TopPage) \notin tables
    /\ top + PageUnits <= MaxAddr
    /\ tables' = tables \cup {TableAt(TopPage)}
    /\ parked' = [parked EXCEPT ![p] = <<Mapping(doing[p], TopPage)>> \o @]
    /\ doing' = [doing EXCEPT ![p] = Searching(PageUnits, PageUnits, Null, start)]
    /\ UNCHANGED <<kind, list, top, mapped, live>>

\* Mutant: the page is counted although the recursive call has mapped it.
MapPageTwice(p) ==
    /\ Runs(p)
    /\ doing[p].op = "map"
    /\ Map(doing[p].page)
    /\ doing' = [doing EXCEPT ![p] = Extending(doing[p])]
    /\ UNCHANGED <<kind, list, tables, live, parked>>

\* allocate goes on once the page table is in place.  If the table itself went
\* onto the page, the recursive flag tells next_page to leave top alone.
MapPage(p) ==
    /\ Runs(p)
    /\ doing[p].op = "map"
    /\ IF doing[p].page \in mapped THEN UNCHANGED <<top, mapped>>
       ELSE Map(doing[p].page)
    /\ doing' = [doing EXCEPT ![p] = Extending(doing[p])]
    /\ UNCHANGED <<kind, list, tables, live, parked>>

\* The last block is moved up to the alignment, by a new free block or by
\* growing the block before it.  The test is unsigned: where nothing has to
\* be moved it is true and the new block is the old one.
NewLast(align) == Begin(end, align) - data_size
AlignLast(align) ==
    LET new == NewLast(align)
        room == new - (end + data_size)
        prev == CHOOSE a \in Addrs : mem[a].next = end
        moved == [mem EXCEPT ![end] = Blank, ![new] = EmptyLast]
    IN  IF new = end THEN mem
        ELSE IF room >= data_size + heap_align
        THEN [mem EXCEPT ![end] = [size |-> room, next |-> new, free |-> TRUE],
                         ![new] = EmptyLast]
        ELSE IF start = end THEN moved
        ELSE [moved EXCEPT ![prev].next = new,
                           ![prev].size = new - prev - data_size]
LastTakesStart(align) ==
    /\ start = end /\ NewLast(align) # end
    /\ NewLast(align) - (end + data_size) < data_size + heap_align

\* The last block, at a, is given its size, and a new empty one follows it.
AppendBlock(m, a, size) ==
    LET new == a + data_size + size
    IN  [m EXCEPT ![a] = [size |-> size, next |-> new, free |-> FALSE],
                  ![new] = EmptyLast]

\* KernelHeap::new_block has its pages.
NewBlock(p) ==
    LET f == doing[p]
        a == NewLast(f.align)
    IN  /\ Runs(p)
        /\ f.op = "grow"
        /\ ~NeedsPage(f.size, f.align)
        /\ mem' = AppendBlock(AlignLast(f.align), a, f.size)
        /\ end' = a + data_size + f.size
        /\ start' = IF LastTakesStart(f.align) THEN a ELSE start
        /\ Return(p, a)
        /\ UNCHANGED <<kind, space>>

\* UserHeap::new_block: brk makes room for the block and the new last one.
BrkBlock(p) ==
    LET f == doing[p]
        limit == end + 2 * data_size + f.size
    IN  /\ Runs(p)
        /\ f.op = "stop"
        /\ kind = "user"
        /\ Placed(f) = end
        /\ limit <= MaxAddr
        /\ top' = limit
        /\ mem' = AppendBlock(mem, end, f.size)
        /\ end' = end + data_size + f.size
        /\ Return(p, end)
        /\ UNCHANGED <<kind, start, mapped, tables>>

\* brk fails, for want of physical memory or because the stack is in the way.
\* new_block returns a null pointer, and malloc hands the caller the address
\* data_size, which is no block; the heap is as before.
BrkFails(p) ==
    /\ Runs(p)
    /\ doing[p].op = "stop"
    /\ kind = "user"
    /\ Placed(doing[p]) = end
    /\ doing' = [doing EXCEPT ![p] = Idle]
    /\ UNCHANGED <<kind, list, space, live, parked>>

-----------------------------------------------------------------------------
(* free                                                                    *)

Free(p) ==
    /\ Runs(p)
    /\ doing[p] = Idle
    /\ \E b \in live :
         /\ b.by # "table"
         /\ live' = live \ {b}
         /\ mem' = [mem EXCEPT ![b.at - data_size].free = TRUE]
         /\ doing' = [doing EXCEPT ![p] = Merging(b.at - data_size)]
    /\ UNCHANGED <<kind, start, end, space, parked>>

\* The block after a is free, and not the last.
Merges(a) == mem[mem[a].next].free /\ mem[mem[a].next].next # Null

\* Block a takes the memory of the one after it.
Merged(a) ==
    LET b == mem[a].next
        both == [mem[a] EXCEPT !.size = @ + data_size + mem[b].size,
                               !.next = mem[b].next]
    IN  [mem EXCEPT ![a] = both, ![b] = Blank]

\* Mutant: the next block is taken without asking whether it is free.
MergeAny(p) ==
    LET a == doing[p].at IN
    /\ Runs(p)
    /\ doing[p].op = "merge"
    /\ mem[mem[a].next].next # Null
    /\ mem' = Merged(a)
    /\ UNCHANGED <<kind, start, end, space, live, doing, parked>>

\* free merges the block with the free ones after it, but not with the last.
Merge(p) ==
    LET a == doing[p].at IN
    /\ Runs(p)
    /\ doing[p].op = "merge"
    /\ Merges(a)
    /\ mem' = Merged(a)
    /\ UNCHANGED <<kind, start, end, space, live, doing, parked>>

MergeEnds(p) ==
    /\ Runs(p)
    /\ doing[p].op = "merge"
    /\ ~Merges(doing[p].at)
    /\ doing' = [doing EXCEPT ![p] = Idle]
    /\ UNCHANGED <<kind, list, space, live, parked>>

HNext == \E p \in HProcs :
    \/ Malloc(p) \/ Pass(p) \/ Stop(p) \/ Take(p)
    \/ Extend(p) \/ NextPage(p) \/ NewTable(p) \/ MapPage(p) \/ NewBlock(p)
    \/ BrkBlock(p) \/ BrkFails(p)
    \/ Free(p) \/ Merge(p) \/ MergeEnds(p)
HSpec == HInit /\ [][HNext]_heap_vars

-----------------------------------------------------------------------------
\* Every variable has its type.
Metadata == [size : Nat, next : Addrs \cup {Null}, free : BOOLEAN]
HTypeOK ==
    /\ kind \in Kinds
    /\ mem \in [Addrs -> Metadata]
    /\ start \in Addrs /\ end \in Addrs /\ top \in Addrs
    /\ mapped \subseteq 0 .. MaxPages - 1
    /\ \A p \in HProcs : doing[p].op \in {"find", "stop", "merge"} =>
                           doing[p].at \in Addrs

\* The blocks there are in m: what is linked to another, and the last.
Blocks(m, e) == {a \in Addrs : m[a].next # Null} \cup {e}

\* The blocks from s on tile the heap: each ends where the next begins, up to
\* the empty one at e, and all there are lie on the way.
Tiling(m, s, e) ==
    /\ m[e] = EmptyLast
    /\ s \in Blocks(m, e)
    /\ \A a \in Blocks(m, e) : s <= a /\ a <= e
    /\ \A a \in Blocks(m, e) \ {e} :
         /\ m[a].next = End(m, a)
         /\ m[a].next \in Blocks(m, e)
         /\ \A b \in Blocks(m, e) : b <= a \/ m[a].next <= b

\* The list of blocks tiles the heap, while malloc and free are on their way as
\* well as between the calls.
Tiled == Tiling(mem, start, end)

Data(b) == b.at .. b.at + b.size - 1

\* A block in use is nobody else's: it shares no memory with another block in
\* use or with the metadata of any block, is as large and as aligned as was
\* asked for, and the blocks not in use are free to be found again.
BlocksSound ==
    /\ \A b \in live :
         /\ b.align # 0 => b.at % b.align = 0
         /\ Data(b) \cap Blocks(mem, end) = {}
         /\ \A c \in live \ {b} : Data(b) \cap Data(c) = {}
    /\ {a + data_size : a \in {x \in Blocks(mem, end) : ~mem[x].free}} =
         {b.at : b \in live}

\* The heap lies in memory that is there: its pages are mapped one after the
\* other by page tables that exist, also while a page table is put on the heap
\* that grows, and the last block is inside.
InMappedMemory ==
    /\ end + data_size <= top
    /\ kind = "kernel" => /\ mapped = 0 .. TopPage - 1
                          /\ \A g \in mapped : TableAt(g) \in tables

\* new_page_table has one temporary page table, which the next one would wipe:
\* the pages the heap needs for a page table never need another page table.
OneTableAtATime == \A p \in HProcs : Len(parked[p]) <= 1

=============================================================================
