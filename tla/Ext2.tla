-------------------------------- MODULE Ext2 --------------------------------
(***************************************************************************)
(* The ext2 driver (kernel/cpp/Ext.cpp): block and inode allocation, the   *)
(* caches of bitmaps, inodes and descriptors with their write-back, the    *)
(* pointer tree of an inode, directories, and the life of a file from      *)
(* fopen over unlink to the close that deletes it.                         *)
(*                                                                         *)
(* One operation of the driver is one step.  Sizes and positions count     *)
(* whole blocks (the partly filled block buffer is in module Files), a     *)
(* directory fits in one block, and a path has at most two components.     *)
(* What only reads a table does not keep it cached: a cached copy equal to *)
(* the disk cannot be told from none.                                      *)
(***************************************************************************)
EXTENDS Integers, Sequences, FiniteSets, FiniteSetsExt

CONSTANTS
    NGroups,        \* block groups
    BPG, IPG,       \* blocks_per_group, inodes_per_group
    Off,            \* 1 with blocks of 1024 bytes (the boot block), else 0
    Meta,           \* blocks at the start of a group that hold its tables
    FirstInode,     \* first_inode, the index the search of group 0 begins at
    CountMod,       \* the group counters are uint16_t
    Direct, APB,    \* no_direct; block addresses per block
    Names,          \* names of files and directories
    Handles,        \* Ext2File objects behind file descriptors
    MaxFile,        \* bound: blocks of a file
    MaxPerName,     \* bound: descriptions open at once under one name
    Misuse,         \* may callers open a directory or create below a file?
    MaxOps          \* bound: operations

RootInode == 2
\* The tables leave room for the root directory, the reserved inodes include it,
\* a group counter holds the size of a group, and a file has blocks an inode can
\* point to and the file system can hold.
ASSUME ExtAssumption ==
    /\ NGroups \in Nat \ {0} /\ Off \in {0, 1} /\ CountMod \in Nat \ {0}
    /\ BPG \in Nat /\ Meta \in 1 .. BPG - 1
    /\ IPG \in Nat /\ FirstInode \in RootInode .. IPG
    /\ BPG < CountMod /\ IPG < CountMod
    /\ Direct \in Nat \ {0} /\ APB \in Nat \ {0}
    /\ MaxFile \in Nat \ {0} /\ MaxFile <= NGroups * BPG /\ MaxFile <= Direct + APB + APB * APB
    /\ MaxPerName \in Nat /\ Misuse \in BOOLEAN /\ MaxOps \in Nat

Groups == 0 .. NGroups - 1
NoBlocks == NGroups * BPG + Off
NoInodes == NGroups * IPG
Inodes == 1 .. NoInodes
Paths == { <<n>> : n \in Names } \cup { <<n, m>> : n \in Names, m \in Names }
Addr(g, k) == g * BPG + k + Off
Addrs == { Addr(g, k) : g \in Groups, k \in 0 .. BPG - 1 }
GroupOf(a) == (a - Off) \div BPG
IndexOf(a) == (a - Off) % BPG
InodeGroup(i) == (i - 1) \div IPG
InodeIndex(i) == (i - 1) % IPG

VARIABLES
    fs,     \* the Ext2FileSystem object and, as fs.disk, the drive below it
    open,   \* the open Ext2File objects
    ops     \* operations so far
vars == <<fs, open, ops>>

\* An entry of the block group descriptor table with its modified flag; grp
\* stands for the addresses of the group's bitmaps and inode table.
GroupDescriptor(g, b, i) == [grp |-> g, mod |-> FALSE, blocks |-> b, inodes |-> i]
NoPtr == [k \in 0 .. APB - 1 |-> 0]
\* Function f with the value v at x.
With(f, x, v) == [y \in DOMAIN f \cup {x} |-> IF y = x THEN v ELSE f[y]]
BlankInode == [type |-> "none", links |-> 0, size |-> 0,
               direct |-> [k \in 0 .. Direct - 1 |-> 0], s |-> 0, d |-> 0]

-----------------------------------------------------------------------------
(* The caches: what is not cached is read from the disk.                   *)
Bits(s, g) ==
    IF g \in DOMAIN s.block_alloc THEN s.block_alloc[g]
    ELSE s.disk.bmap[s.bgdt[g].grp]
InodeBits(s, g) ==
    IF g \in DOMAIN s.inode_alloc THEN s.inode_alloc[g]
    ELSE s.disk.imap[s.bgdt[g].grp]
InodeUsed(s, i) == InodeIndex(i) \in InodeBits(s, InodeGroup(i))
Inode(s, i) == IF i \in DOMAIN s.inodes THEN s.inodes[i] ELSE s.disk.node[i]
SetInode(s, i, n) == [s EXCEPT !.inodes = With(@, i, n)]

\* flush_inode writes a cached inode and, in every use here, forgets it.
FlushInode(s, i) ==
    IF i \notin DOMAIN s.inodes THEN s
    ELSE [s EXCEPT !.disk.node[i] = s.inodes[i],
                   !.inodes = [j \in DOMAIN @ \ {i} |-> @[j]]]

FlushSuperblock(s) ==
    [s EXCEPT !.disk.sbB = s.sbB, !.disk.sbI = s.sbI]

\* mutant: the descriptors stay in memory
FlushBgdtNever(s) == s
\* The modified entries are written one behind the other from the start of
\* the table: an entry that is skipped is not stepped over.
FlushBgdt(s) ==
    LET mod == { g \in Groups : s.bgdt[g].mod }
        slot(g) == Cardinality({ h \in mod : h < g })
    IN [s EXCEPT !.disk.bgdt = [q \in Groups |->
           IF \E g \in mod : slot(g) = q
           THEN LET g == CHOOSE g \in mod : slot(g) = q
                IN [s.bgdt[g] EXCEPT !.mod = FALSE]
           ELSE @[q]]]

FlushBlockAlloc(s) ==
    [s EXCEPT !.disk.bmap = [b \in Groups |->
                 IF \E g \in DOMAIN s.block_alloc : s.bgdt[g].grp = b
                 THEN s.block_alloc[CHOOSE g \in DOMAIN s.block_alloc :
                                      s.bgdt[g].grp = b]
                 ELSE @[b]],
              !.block_alloc = <<>>]
FlushInodeAlloc(s) ==
    [s EXCEPT !.disk.imap = [b \in Groups |->
                 IF \E g \in DOMAIN s.inode_alloc : s.bgdt[g].grp = b
                 THEN s.inode_alloc[CHOOSE g \in DOMAIN s.inode_alloc :
                                      s.bgdt[g].grp = b]
                 ELSE @[b]],
              !.inode_alloc = <<>>]
FlushMetadata(s) ==
    FlushInodeAlloc(FlushBlockAlloc(FlushBgdt(FlushSuperblock(s))))

-----------------------------------------------------------------------------
(* The pointers of an inode (triply indirect blocks are left out).         *)
InodeLookup(s, i, k) ==
    LET n == Inode(s, i)
        k1 == k - Direct
        k2 == k1 - APB
        s1 == IF n.d = 0 THEN 0 ELSE s.disk.ptr[n.d][k2 \div APB]
    IN CASE k < Direct -> n.direct[k]
         [] k1 \in 0 .. APB - 1 -> IF n.s = 0 THEN 0 ELSE s.disk.ptr[n.s][k1]
         [] OTHER -> IF s1 = 0 THEN 0 ELSE s.disk.ptr[s1][k2 % APB]

FreeIn(s, g, from, to) == { k \in from .. to : k \notin Bits(s, g) }

\* mutant: the first block behind the tables, free or not
FindBlockBlind(s, i, k, indirect) ==
    [found |-> TRUE, grp |-> InodeGroup(i), idx |-> Meta]
\* The search of allocate_new_block: [found, grp, idx].  When the group the
\* search starts in is not the inode's, a block found there or in the inode's
\* group is replaced by the index the last loop ends with.
FindBlock(s, i, k, indirect) ==
    LET prev == k # 0 /\ ~indirect
        start == IF prev THEN InodeLookup(s, i, k - 1) ELSE 0
        sgrp == IF prev THEN (k - Off) \div BPG ELSE 0
        igrp == InodeGroup(i)
        after == FreeIn(s, sgrp, start + 1, BPG - 1)
        before == FreeIn(s, sgrp, 0, Min({start - 1, BPG - 1}))
        home == IF s.bgdt[igrp].blocks = 0 THEN {}
                ELSE FreeIn(s, igrp, 0, BPG - 1)
        there == s.bgdt[sgrp].blocks # 0
        others == { g \in Groups \ {igrp, sgrp} : s.bgdt[g].blocks # 0 }
        rich == { g \in others : FreeIn(s, g, 0, BPG - 1) # {} }
        last == FreeIn(s, Max(others), 0, BPG - 1)
        Found(g, n) == [found |-> TRUE, grp |-> g, idx |-> n]
        Elsewhere == IF rich = {} THEN [found |-> FALSE]
                     ELSE Found(Max(rich),
                                IF last = {} THEN BPG ELSE Min(last))
    IN IF sgrp = igrp /\ there
       THEN CASE after # {} -> Found(igrp, Min(after))
              [] after = {} /\ before # {} -> Found(igrp, Min(before))
              [] OTHER -> Elsewhere
       ELSE CASE there /\ before # {} -> Found(sgrp, Min(before))
              [] there /\ before = {} /\ after # {} -> Found(sgrp, start)
              [] there /\ before = {} /\ after = {} /\ home # {} ->
                     Found(igrp, start)
              [] ~there /\ home # {} -> Found(igrp, Min(home))
              [] OTHER -> Elsewhere

\* mutant: the bit is forgotten
MarkNoBit(s, g, idx) ==
    [s EXCEPT !.bgdt[g].blocks = (@ - 1) % CountMod, !.bgdt[g].mod = TRUE,
              !.sbB = @ - 1]
Mark(s, g, idx) ==
    [s EXCEPT !.block_alloc = With(@, g, Bits(s, g) \cup {idx}),
              !.bgdt[g].blocks = (@ - 1) % CountMod, !.bgdt[g].mod = TRUE,
              !.sbB = @ - 1]
Unmark(s, g, idx) ==
    [s EXCEPT !.block_alloc = With(@, g, Bits(s, g) \ {idx}),
              !.bgdt[g].blocks = (@ + 1) % CountMod, !.bgdt[g].mod = TRUE,
              !.sbB = @ + 1]

\* allocate_new_block up to the counters: [s, a], where a = 0 is failure.
Taken(s, f) ==
    IF s.sbB = 0 \/ ~f.found \/ Addr(f.grp, f.idx) >= NoBlocks
    THEN [s |-> s, a |-> 0]
    ELSE [s |-> Mark(s, f.grp, f.idx), a |-> Addr(f.grp, f.idx)]
TakeBlock(s, i, k, indirect) == Taken(s, FindBlock(s, i, k, indirect))

\* inode_set: [s, ok].  The address of a new singly indirect block is not
\* written into the doubly indirect one: the code seeks there and stops.
InodeSet(s, i, k, a) ==
    LET n == Inode(s, i)
        k1 == k - Direct
        k2 == k1 - APB
        Put(t, p, j) == [s |-> [t EXCEPT !.disk.ptr[p][j] = a], ok |-> TRUE]
        New(t) == TakeBlock(t, i, 0, TRUE)
        Zeroed(t, p) == [t EXCEPT !.disk.ptr[p] = NoPtr]
        Failed(t) == [s |-> t, ok |-> FALSE]
        NewSingly(t) ==
            IF t.a = 0 THEN Failed(t.s)
            ELSE Put(Zeroed(SetInode(t.s, i, [n EXCEPT !.s = t.a]), t.a), t.a, k1)
        NewBelow(u) ==
            IF u.a = 0 THEN Failed(u.s) ELSE Put(Zeroed(u.s, u.a), u.a, k2 % APB)
        Doubly(t, d) ==
            LET s1 == t.disk.ptr[d][k2 \div APB]
            IN IF s1 # 0 THEN Put(t, s1, k2 % APB) ELSE NewBelow(New(t))
        NewDoubly(t) ==
            IF t.a = 0 THEN Failed(t.s)
            ELSE Doubly(Zeroed(SetInode(t.s, i, [n EXCEPT !.d = t.a]), t.a), t.a)
    IN CASE k < Direct ->
              [s |-> SetInode(s, i, [n EXCEPT !.direct[k] = a]), ok |-> TRUE]
         [] k1 \in 0 .. APB - 1 -> IF n.s # 0 THEN Put(s, n.s, k1) ELSE NewSingly(New(s))
         [] k2 \in 0 .. APB * APB - 1 -> IF n.d # 0 THEN Doubly(s, n.d) ELSE NewDoubly(New(s))
         [] OTHER -> Failed(s)

AllocateNewBlock(s, i, k) ==
    LET Entered(u, a) ==
            IF u.ok THEN [s |-> u.s, a |-> a]
            ELSE [s |-> Unmark(u.s, GroupOf(a), IndexOf(a)), a |-> 0]
        Enter(t) == IF t.a = 0 THEN t ELSE Entered(InodeSet(t.s, i, k, t.a), t.a)
    IN Enter(TakeBlock(s, i, k, FALSE))

\* deallocate_block for a set of blocks.  The superblock counts up, the group
\* descriptor down.
DeallocateBlocks(s, A) ==
    LET freed == { a \in A : IndexOf(a) \in Bits(s, GroupOf(a)) }
        freedIn(g) == { IndexOf(a) : a \in { b \in freed : GroupOf(b) = g } }
        hit == { GroupOf(a) : a \in freed }
        Debited(d, n) == [d EXCEPT !.blocks = (@ - n) % CountMod, !.mod = TRUE]
    IN [s EXCEPT !.block_alloc = [g \in DOMAIN @ \cup hit |-> Bits(s, g) \ freedIn(g)],
                 !.bgdt = [g \in Groups |-> IF g \notin hit THEN @[g]
                                            ELSE Debited(@[g], Cardinality(freedIn(g)))],
                 !.sbB = @ + Cardinality(freed)]

-----------------------------------------------------------------------------
(* Truncation and deletion.                                                *)

\* The blocks truncate frees.  It stops at the first zero pointer.
Run(f, n) == { f[k] : k \in { j \in 0 .. n - 1 : \A l \in 0 .. j : f[l] # 0 } }
Full(f, n) == \A k \in 0 .. n - 1 : f[k] # 0
TruncatedBlocks(s, n) ==
    LET ptr == s.disk.ptr
        viaS == IF n.s = 0 THEN {} ELSE Run(ptr[n.s], APB) \cup {n.s}
        fullS == n.s # 0 /\ Full(ptr[n.s], APB)
        viaD == IF n.d = 0 THEN {}
                ELSE Run(ptr[n.d], APB) \cup {n.d} \cup
                     UNION { Run(ptr[p], APB) : p \in Run(ptr[n.d], APB) }
    IN Run(n.direct, Direct)
         \cup (IF Full(n.direct, Direct) THEN viaS ELSE {})
         \cup (IF Full(n.direct, Direct) /\ fullS THEN viaD ELSE {})

\* mutant: only the size is wiped
TruncateKeepsPointers(s, i, size) ==
    IF size = 0 THEN s
    ELSE SetInode(DeallocateBlocks(s, TruncatedBlocks(s, Inode(s, i))), i,
                  [Inode(s, i) EXCEPT !.size = 0])
\* Ext2File::truncate of an open file whose size is size.
Truncate(s, i, size) ==
    LET n == Inode(s, i)
        full == Full(n.direct, Direct)
        wiped == [n EXCEPT !.size = 0,
            !.direct = [k \in 0 .. Direct - 1 |->
                IF \A l \in 0 .. k - 1 : n.direct[l] # 0 THEN 0 ELSE n.direct[k]],
            !.s = IF full THEN 0 ELSE @,
            !.d = IF full /\ n.s # 0 /\ Full(s.disk.ptr[n.s], APB) THEN 0 ELSE @]
    IN IF size = 0 THEN s
       ELSE SetInode(DeallocateBlocks(s, TruncatedBlocks(s, n)), i, wiped)

\* mutant: the superblock is not told
DeallocateInodeUncounted(s, i) ==
    LET g == InodeGroup(i)
        t == Truncate(s, i, Inode(s, i).size)
        u == [t EXCEPT !.inode_alloc = With(@, g, InodeBits(t, g) \ {InodeIndex(i)}),
                       !.bgdt[g].mod = TRUE]
    IN IF i >= NoInodes \/ ~InodeUsed(s, i) THEN s
       ELSE FlushMetadata(FlushInode(u, i))
\* deallocate_inode, with the close of the Ext2File it truncates through.
\* The last inode is refused; the group's inode counter is overwritten.
DeallocateInode(s, i) ==
    LET g == InodeGroup(i)
        t == Truncate(s, i, Inode(s, i).size)
        u == [t EXCEPT !.inode_alloc = With(@, g, InodeBits(t, g) \ {InodeIndex(i)}),
                       !.bgdt[g].inodes = (t.bgdt[g].blocks - 1) % CountMod,
                       !.bgdt[g].mod = TRUE,
                       !.sbI = @ + 1]
    IN IF i >= NoInodes \/ ~InodeUsed(s, i) THEN s
       ELSE FlushMetadata(FlushInode(u, i))

\* allocate_new_inode: the groups in cyclic order from the parent's.
InodeSearch(s, parent) ==
    LET grp(q) == (InodeGroup(parent) + q) % NGroups
        free(g) == { k \in (IF g = 0 THEN FirstInode ELSE 0) .. IPG - 1 :
                         k \notin InodeBits(s, g) }
        hits == { q \in Groups : free(grp(q)) # {} }
        q0 == IF hits = {} THEN NGroups - 1 ELSE Min(hits)
    IN [spins |-> \E q \in 0 .. q0 : s.bgdt[grp(q)].inodes = 0,
        inode |-> IF hits = {} THEN 0
                  ELSE grp(q0) * IPG + Min(free(grp(q0))) + 1]
\* A group whose counter is 0 is tried again and again.
Spins(s, parent) == s.sbI # 0 /\ InodeSearch(s, parent).spins
AllocateNewInode(s, parent) ==
    LET i == InodeSearch(s, parent).inode
        g == InodeGroup(i)
    IN IF s.sbI = 0 \/ i = 0 THEN [s |-> s, i |-> 0]
       ELSE [s |-> [s EXCEPT
                !.inode_alloc = With(@, g, InodeBits(s, g) \cup {InodeIndex(i)}),
                !.bgdt[g].inodes = (@ - 1) % CountMod, !.bgdt[g].mod = TRUE,
                !.sbI = @ - 1,
                !.inodes = IF i \in DOMAIN @ THEN @ ELSE With(@, i, BlankInode)],
             i |-> i]

-----------------------------------------------------------------------------
(* Directories.  The entries "." and ".." are always there and not listed. *)
Entries(s, i) ==
    LET n == Inode(s, i)
    IN IF n.type = "dir" /\ n.size # 0 /\ n.direct[0] # 0
       THEN s.disk.ents[n.direct[0]] ELSE {}
Lookup(s, i, name) ==
    IF \E e \in Entries(s, i) : e.name = name
    THEN (CHOOSE e \in Entries(s, i) : e.name = name).ino ELSE 0
GetInodeIndex(s, p) ==
    LET i == Lookup(s, RootInode, p[1])
    IN CASE Len(p) = 1 -> i
         [] Len(p) = 2 /\ i = 0 -> 0
         [] OTHER -> Lookup(s, i, p[2])
ParentIndex(s, p) == IF Len(p) = 1 THEN RootInode ELSE GetInodeIndex(s, <<p[1]>>)

\* Ext2Directory::flush and close: the whole directory is truncated and
\* written again; without a block for it, it stays empty.
DirectoryFlush(s, i, entries) ==
    LET t == Truncate(s, i, Inode(s, i).size)
        Filled(u) ==
            IF u.a = 0 THEN u.s
            ELSE SetInode([u.s EXCEPT !.disk.ents[u.a] = entries], i,
                          [Inode(u.s, i) EXCEPT !.size = 1])
    IN FlushMetadata(FlushInode(Filled(AllocateNewBlock(t, i, 0)), i))

\* A new inode of the given type and its entry in the parent directory.
Created(s, p, parent, type) ==
    LET t == AllocateNewInode(s, parent)
        n == [Inode(t.s, t.i) EXCEPT !.type = type, !.links = 1]
        u == SetInode(t.s, t.i, n)
        new == Entries(u, parent) \cup {[name |-> p[Len(p)], ino |-> t.i]}
    IN IF t.i = 0 THEN t
       ELSE IF type = "dir"
       THEN [s |-> DirectoryFlush(DirectoryFlush(u, parent, new), t.i, {}), i |-> t.i]
       ELSE [s |-> DirectoryFlush(u, parent, new), i |-> t.i]

-----------------------------------------------------------------------------
(* Mounting.                                                               *)
\* The state of a clean file system that holds an empty root directory.
CleanDisk ==
    LET used(g) == 0 .. (IF g = 0 THEN Meta ELSE Meta - 1)
        iused(g) == IF g = 0 THEN 0 .. FirstInode - 1 ELSE {}
    IN [sbB |-> Cardinality({ a \in Addrs : IndexOf(a) \notin used(GroupOf(a)) }),
        sbI |-> Cardinality({ i \in Inodes : InodeIndex(i) \notin iused(InodeGroup(i)) }),
        bgdt |-> [g \in Groups |-> GroupDescriptor(g, BPG - Cardinality(used(g)),
                                                   IPG - Cardinality(iused(g)))],
        bmap |-> [g \in Groups |-> used(g)],
        imap |-> [g \in Groups |-> iused(g)],
        node |-> [i \in Inodes |->
                    IF i = RootInode
                    THEN [BlankInode EXCEPT !.type = "dir", !.links = 1, !.size = 1,
                                            !.direct[0] = Addr(0, Meta)]
                    ELSE BlankInode],
        ents |-> [a \in Addrs |-> {}],
        ptr |-> [a \in Addrs |-> NoPtr]]
Mounted(d) == [sbB |-> d.sbB, sbI |-> d.sbI, bgdt |-> d.bgdt,
               block_alloc |-> <<>>, inode_alloc |-> <<>>, inodes |-> <<>>,
               disk |-> d]

Init == /\ fs = Mounted(CleanDisk)
        /\ open = <<>>
        /\ ops = 0
Step == ops < MaxOps /\ ops' = ops + 1

\* The file system goes away with its caches and is mounted again.
Remount ==
    /\ Step
    /\ open = <<>>
    /\ fs' = Mounted(fs.disk)
    /\ UNCHANGED open

-----------------------------------------------------------------------------
(* The operations.  A path is looked up through Ext2Directory objects whose *)
(* destructors write the metadata back.                                    *)
\* Bound on the callers: how many descriptions carry one name, counting those
\* of a file that was unlinked meanwhile.
NameAvailable(p) ==
    Cardinality({ g \in DOMAIN open : open[g].path = p }) < MaxPerName
IsOpen(p) == \E h \in DOMAIN open : open[h].path = p

\* fopen of an existing file; mode "w" truncates it and "a" seeks its end.
FopenExisting(h, p, mode) ==
    LET i == GetInodeIndex(fs, p)
        s == FlushMetadata(fs)
        t == IF mode = "w" THEN Truncate(s, i, Inode(s, i).size) ELSE s
    IN /\ Step
       /\ h \notin DOMAIN open
       /\ NameAvailable(p)
       /\ i # 0
       /\ Inode(fs, i).type = "file" \/ Misuse
       /\ fs' = t
       /\ open' = With(open, h, [path |-> p, ino |-> i, writing |-> mode # "r",
                                  sz |-> Inode(t, i).size,
                                  pos |-> IF mode = "a" THEN Inode(t, i).size ELSE 0])

FopenCreate(h, p, mode) ==
    LET s == FlushMetadata(fs)
        parent == ParentIndex(fs, p)
        Opened(t) ==
            /\ fs' = t.s
            /\ open' = IF t.i = 0 THEN open
                       ELSE With(open, h, [path |-> p, ino |-> t.i, writing |-> TRUE,
                                            sz |-> 0, pos |-> 0])
    IN /\ Step
       /\ h \notin DOMAIN open
       /\ NameAvailable(p)
       /\ GetInodeIndex(fs, p) = 0
       /\ mode # "r"
       /\ parent # 0
       /\ Inode(fs, parent).type = "dir" \/ Misuse
       /\ ~Spins(s, parent)
       /\ Opened(Created(s, p, parent, "file"))

\* Ext2File::write of one block at the handle's position.
Write(h) ==
    LET f == open[h]
        have == InodeLookup(fs, f.ino, f.pos)
        Written(t) ==
            /\ fs' = IF t.a # 0 /\ f.pos + 1 > f.sz
                     THEN SetInode(t.s, f.ino, [Inode(t.s, f.ino) EXCEPT !.size = f.pos + 1])
                     ELSE t.s
            /\ open' = IF t.a = 0 THEN open
                       ELSE [open EXCEPT ![h].pos = @ + 1,
                                         ![h].sz = Max({@, f.pos + 1})]
    IN /\ Step
       /\ h \in DOMAIN open /\ open[h].writing
       /\ f.pos < MaxFile
       /\ Written(IF have # 0 THEN [s |-> fs, a |-> have]
                  ELSE AllocateNewBlock(fs, f.ino, f.pos))

\* Ext2File::close deletes a file that has no links left.
Close(h) ==
    LET i == open[h].ino
        s == IF open[h].writing THEN FlushMetadata(FlushInode(fs, i)) ELSE fs
        gone == Inode(s, i).links = 0 /\ InodeUsed(s, i)
    IN /\ Step
       /\ h \in DOMAIN open
       /\ fs' = IF gone THEN FlushMetadata(FlushInode(DeallocateInode(s, i), i))
                ELSE FlushInode(s, i)
       /\ open' = [g \in DOMAIN open \ {h} |-> open[g]]

\* mutant: a file that is open is deleted too
RemovedAlways(s, p, i) ==
    LET dir == ParentIndex(s, p)
        rest == { e \in Entries(s, dir) : e.ino # i }
        t == SetInode(s, i, [Inode(s, i) EXCEPT !.links = 0])
    IN DirectoryFlush(DeallocateInode(t, i), dir, rest)
\* unlink and rmdir: the link is dropped, the inode freed unless the name is
\* open, and then the parent directory written back without the entry.
Removed(s, p, i) ==
    LET n == Inode(s, i)
        dir == ParentIndex(s, p)
        rest == { e \in Entries(s, dir) : e.ino # i }
        t == SetInode(s, i, [n EXCEPT !.links = IF @ = 0 THEN 0 ELSE @ - 1])
        left == Inode(t, i).links
        u == CASE left # 0 -> FlushInode(t, i)
               [] left = 0 /\ ~IsOpen(p) -> DeallocateInode(t, i)
               [] OTHER -> t
    IN DirectoryFlush(u, dir, rest)

Unlink(p) ==
    LET i == GetInodeIndex(fs, p)
    IN /\ Step
       /\ i # 0
       /\ Inode(fs, i).type = "file"
       /\ fs' = Removed(FlushMetadata(fs), p, i)
       /\ UNCHANGED open

Rmdir(p) ==
    LET i == GetInodeIndex(fs, p)
    IN /\ Step
       /\ i # 0
       /\ Inode(fs, i).type = "dir"
       /\ Entries(fs, i) = {}
       /\ fs' = Removed(FlushMetadata(fs), p, i)
       /\ UNCHANGED open

Mkdir(p) ==
    LET s == FlushMetadata(fs)
        parent == ParentIndex(fs, p)
    IN /\ Step
       /\ NameAvailable(p)
       /\ GetInodeIndex(fs, p) = 0
       /\ parent # 0
       /\ Inode(fs, parent).type = "dir" \/ Misuse
       /\ ~Spins(s, parent)
       /\ fs' = Created(s, p, parent, "dir").s
       /\ UNCHANGED open

Next == \/ \E h \in Handles, p \in Paths, mode \in {"r", "w", "a"} :
               FopenExisting(h, p, mode) \/ FopenCreate(h, p, mode)
        \/ \E h \in Handles : Write(h) \/ Close(h)
        \/ \E p \in Paths : Unlink(p) \/ Rmdir(p) \/ Mkdir(p)
        \/ Remount
Spec == Init /\ [][Next]_vars

-----------------------------------------------------------------------------
(* What must hold.                                                         *)

\* Block pointers of the inodes in use, and the tables of the groups, each
\* with the place that holds the pointer.
References ==
    LET node(i) == Inode(fs, i)
        ptr == fs.disk.ptr
        used == { i \in Inodes : InodeUsed(fs, i) }
        direct == { <<i, "direct", k, node(i).direct[k]>> : i \in used, k \in 0 .. Direct - 1 }
        singly == { <<i, "singly", 0, node(i).s>> : i \in used }
        doubly == { <<i, "doubly", 0, node(i).d>> : i \in used }
        In(R, kind) == { <<r[4], kind, k, ptr[r[4]][k]>> : r \in { x \in R : x[4] # 0 },
                                                          k \in 0 .. APB - 1 }
        below == In(doubly, "singly below")
        meta == { <<g, "meta", k, Addr(g, k)>> : g \in Groups, k \in 0 .. Meta - 1 }
    IN { r \in direct \cup singly \cup doubly \cup below \cup In(singly \cup below, "data") \cup meta :
           r[4] # 0 }

\* Counters and caches have their types (a group counter is a uint16_t).
TypeOK ==
    /\ fs.sbB \in 0 .. NoBlocks /\ fs.sbI \in 0 .. NoInodes
    /\ \A g \in Groups : /\ fs.bgdt[g].blocks \in 0 .. CountMod - 1
                          /\ fs.bgdt[g].inodes \in 0 .. CountMod - 1
                          /\ Bits(fs, g) \subseteq 0 .. BPG - 1
                          /\ InodeBits(fs, g) \subseteq 0 .. IPG - 1
    /\ DOMAIN fs.inodes \subseteq Inodes
    /\ DOMAIN open \subseteq Handles

\* No block serves twice: as data of two files, as data and as a block of
\* pointers, or as data and as a table (allocate_new_block).
BlocksOnce == \A r, q \in References : r[4] = q[4] => r = q

\* What a used inode reaches is marked in the bitmap, through every order of
\* write, truncate, delete and directory rewrite (deallocate_block).
ReferencedAllocated ==
    \A r \in References : IndexOf(r[4]) \in Bits(fs, GroupOf(r[4]))

\* The superblock's free counts are the clear bits of the bitmaps, failed
\* and rolled back allocations included.
CountsExact ==
    /\ fs.sbB = Cardinality({ a \in Addrs : IndexOf(a) \notin Bits(fs, GroupOf(a)) })
    /\ fs.sbI = Cardinality({ i \in Inodes : ~InodeUsed(fs, i) })

\* A directory entry names an inode in use that has a link, and an open file
\* keeps its inode even when it is unlinked meanwhile (unlink, close).
NamedLive ==
    /\ \A i \in Inodes : InodeUsed(fs, i) =>
          \A e \in Entries(fs, i) : /\ InodeUsed(fs, e.ino)
                                    /\ Inode(fs, e.ino).links > 0
    /\ \A h \in DOMAIN open : InodeUsed(fs, open[h].ino)

\* With no file open everything is on the disk: mounting again shows the
\* same file system.  (deallocate_inode refuses the last inode, which stays
\* allocated and in the cache when its last link goes.)
DiskCurrent ==
    open = <<>> =>
        /\ DOMAIN fs.inodes \subseteq {NoInodes} /\ fs.block_alloc = <<>> /\ fs.inode_alloc = <<>>
        /\ fs.sbB = fs.disk.sbB /\ fs.sbI = fs.disk.sbI
        /\ \A g \in Groups : [fs.bgdt[g] EXCEPT !.mod = FALSE] = fs.disk.bgdt[g]

\* A name goes away only when it is unlinked or removed (Ext2Directory::flush
\* rewrites the whole directory for every change of one entry).
EntriesSurvive ==
    [][\A p \in Paths :
          GetInodeIndex(fs, p) # 0 /\ GetInodeIndex(fs', p) = 0
             => Unlink(p) \/ Rmdir(p)]_vars
=============================================================================
