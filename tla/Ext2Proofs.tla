------------------------------ MODULE Ext2Proofs ------------------------------
(***************************************************************************)
(* Theorems about the ext2 driver (Ext2), for one block group, one open    *)
(* description per name and callers that open files as files (Misuse =     *)
(* FALSE): any numbers of blocks, inodes, pointers, names, handles and     *)
(* operations.                                                             *)
(*                                                                         *)
(* An operation of the driver is a composition of small ones on the state  *)
(* s of the driver, each of which has a lemma here: what it leaves of the  *)
(* View of s (blocks marked, inodes in use, inodes, pointers, entries and  *)
(* counters), which is the same whether a bitmap, an inode or a descriptor *)
(* is in a cache or on the drive.                                          *)
(*                                                                         *)
(* IInv has four parts about the View, and one about the write-backs.      *)
(*   Fit      the places of inodes that hold a block address hold marked   *)
(*            blocks outside the tables, each a different one, and the     *)
(*            superblock counts the rest (BlocksOK).  A block that is      *)
(*            marked but not yet held is Spare while an operation passes   *)
(*            it on.                                                       *)
(*   TreeOK   the names are a tree: an inode has one entry.                *)
(*   OpenOK   an open file keeps its inode in use, and if its path still   *)
(*            leads somewhere then to that inode.  Without this a close    *)
(*            would delete what a path still names, since unlink looks     *)
(*            the path up among the open files.                            *)
(*   CacheOK  an inode stays in the cache only while it is open, but for   *)
(*            the last one, which deallocate_inode refuses.                *)
(*   Tidy     the bitmaps and counters are on the drive unless a file is   *)
(*            open for writing.                                            *)
(***************************************************************************)
EXTENDS Ext2, FiniteSetTheorems, WellFoundedInduction, TLAPS

-----------------------------------------------------------------------------
\* A set of numbers has a least one (Min of FiniteSetsExt).
LEMMA LeastOf ==
    ASSUME NEW T, T \subseteq Nat, T # {}
    PROVE  Min(T) \in T /\ \A y \in T : Min(T) <= y
<1>1. IsWellFoundedOn(OpToRel(<, Nat), Nat)
  BY NatLessThanWellFounded
<1>2. PICK x \in T : \A y \in T : ~(<<y, x>> \in OpToRel(<, Nat))
  BY <1>1, WFMin
<1>3. \A y \in T : ~(y < x)
  BY <1>2 DEF OpToRel
<1>4. \A y \in T : x <= y
  BY <1>3
<1> QED
  BY <1>4 DEF Min

\* One block group
LEMMA OneGroup ==
    ASSUME NGroups = 1
    PROVE  /\ Groups = {0} /\ NoBlocks = BPG + Off /\ NoInodes = IPG /\ Inodes = 1 .. IPG
           /\ Addrs \subseteq Nat /\ IsFiniteSet(Addrs) /\ IsFiniteSet(Inodes)
           /\ \A k \in 0 .. BPG - 1 : Addr(0, k) = k + Off /\ Addr(0, k) \in Addrs /\ IndexOf(Addr(0, k)) = k
           /\ \A a \in Addrs : GroupOf(a) = 0 /\ IndexOf(a) \in 0 .. BPG - 1 /\ Addr(0, IndexOf(a)) = a
           /\ \A i \in Inodes : InodeGroup(i) = 0 /\ InodeIndex(i) = i - 1
<1> USE ExtAssumption
<1>1. Groups = {0} /\ NoBlocks = BPG + Off /\ NoInodes = IPG /\ Inodes = 1 .. IPG
  BY DEF Groups, NoBlocks, NoInodes, Inodes
<1>2. ASSUME NEW n \in Nat \ {0}, NEW k \in 0 .. n - 1 PROVE k \div n = 0 /\ k % n = k
  OBVIOUS
<1>3. Addrs = {k + Off : k \in 0 .. BPG - 1} /\ \A k \in 0 .. BPG - 1 : Addr(0, k) = k + Off
  BY <1>1 DEF Addrs, Addr
<1>4. ASSUME NEW k \in 0 .. BPG - 1 PROVE GroupOf(k + Off) = 0 /\ IndexOf(k + Off) = k
  <2>1. (k + Off) - Off = k
    OBVIOUS
  <2>2. BPG \in Nat \ {0}
    OBVIOUS
  <2> QED BY ONLY <2>1, <2>2, <1>2, <1>4 DEF GroupOf, IndexOf
<1>5. IsFiniteSet(Addrs) /\ IsFiniteSet(Inodes)
  <2>1. Addrs \subseteq 0 .. BPG + Off
    BY <1>3
  <2>2. IsFiniteSet(0 .. BPG + Off) /\ IsFiniteSet(1 .. IPG)
    BY FS_Interval
  <2> QED BY <2>1, <2>2, <1>1, FS_Subset
<1>6. \A i \in Inodes : InodeGroup(i) = 0 /\ InodeIndex(i) = i - 1
  <2> SUFFICES ASSUME NEW i \in 1 .. IPG PROVE InodeGroup(i) = 0 /\ InodeIndex(i) = i - 1
    BY <1>1
  <2>1. i - 1 \in 0 .. IPG - 1 /\ IPG \in Nat \ {0}
    OBVIOUS
  <2> PICK k \in 0 .. IPG - 1 : k = i - 1
    BY <2>1
  <2>2. k \div IPG = 0 /\ k % IPG = k
    BY <2>1, <1>2
  <2> QED BY <2>2 DEF InodeGroup, InodeIndex
<1>7. Addrs \subseteq Nat
  BY <1>3
<1> QED BY <1>1, <1>3, <1>4, <1>5, <1>6, <1>7

-----------------------------------------------------------------------------

\* The types of the driver's state. A cache maps some of its keys.
Counts == 0 .. CountMod - 1
Descriptors == [grp : {0}, mod : BOOLEAN, blocks : Counts, inodes : Counts]
Types == {"none", "file", "dir"}
InodeRecords == [type : Types, links : Nat, size : Nat, direct : [0 .. Direct - 1 -> Nat], s : Nat, d : Nat]
EntryRecords == [name : Names, ino : Inodes]
Cached(D, T) == UNION {[E -> T] : E \in SUBSET D}
Drives == [sbB : Int, sbI : Int, bgdt : [Groups -> Descriptors], bmap : [Groups -> SUBSET Int], imap : [Groups -> SUBSET Int],
           node : [Inodes -> InodeRecords], ents : [Addrs -> SUBSET EntryRecords], ptr : [Addrs -> [0 .. APB - 1 -> Nat]]]
Drivers == [sbB : Int, sbI : Int, bgdt : [Groups -> Descriptors], block_alloc : Cached(Groups, SUBSET Int),
            inode_alloc : Cached(Groups, SUBSET Int), inodes : Cached(Inodes, InodeRecords), disk : Drives]

-----------------------------------------------------------------------------

\* What the driver shows: the blocks marked in the bitmap, the inodes in use, the
\* inodes, the pointers and entries in blocks, and the counters.
Marked(s) == {a \in Addrs : IndexOf(a) \in Bits(s, GroupOf(a))}

\* The inodes whose bit is set.
Used(s) == {i \in Inodes : InodeUsed(s, i)}

\* Every inode, as the cache or else the drive has it.
Nodes(s) == [i \in Inodes |-> Inode(s, i)]

\* What operations other than the write-backs see of the driver.
View(s) == <<Marked(s), Used(s), Nodes(s), s.disk.ptr, s.disk.ents, s.sbB, s.sbI>>

\* The descriptor on the disk is the one in memory, unless that is marked modified.
Recorded(s) == /\ s.disk.bgdt[0].mod = FALSE
               /\ s.bgdt[0].mod = FALSE => s.bgdt[0] = s.disk.bgdt[0]

\* The type of the driver's state, with the descriptor recorded.
Good(s) == s \in Drivers /\ Recorded(s)

\* Nothing of the bitmaps and counters is in memory only.
CleanMeta(s) ==
    /\ s.block_alloc = <<>> /\ s.inode_alloc = <<>> /\ s.sbB = s.disk.sbB /\ s.sbI = s.disk.sbI
    /\ [s.bgdt[0] EXCEPT !.mod = FALSE] = s.disk.bgdt[0]

\* The cached inodes and those on the drive.
Caches(s) == <<s.inodes, s.disk.node>>

\* With one group a block is marked if its bit is set.
LEMMA MarkedBits ==
    ASSUME NGroups = 1, NEW s, NEW a \in Addrs
    PROVE  a \in Marked(s) <=> IndexOf(a) \in Bits(s, 0)
  BY OneGroup DEF Marked

\* With one group an inode is in use if its bit is set.
LEMMA UsedBits ==
    ASSUME NGroups = 1, NEW s, NEW i \in Inodes
    PROVE  i \in Used(s) <=> InodeIndex(i) \in InodeBits(s, 0)
  BY OneGroup DEF Used, InodeUsed

\* Marked depends on the block bitmap only.
LEMMA SameMarked ==
    ASSUME NGroups = 1, NEW s, NEW t, Bits(t, 0) = Bits(s, 0)
    PROVE  Marked(t) = Marked(s)
<1>1. \A a \in Addrs : a \in Marked(t) <=> a \in Marked(s)
  BY MarkedBits
<1> QED BY <1>1 DEF Marked

\* Used depends on the inode bitmap only.
LEMMA SameUsed ==
    ASSUME NGroups = 1, NEW s, NEW t, InodeBits(t, 0) = InodeBits(s, 0)
    PROVE  Used(t) = Used(s)
<1>1. \A i \in Inodes : i \in Used(t) <=> i \in Used(s)
  BY UsedBits
<1> QED BY <1>1 DEF Used

\* Every inode that the driver shows is a record of an inode.
LEMMA NodeTypes == ASSUME NEW s \in Drivers PROVE Nodes(s) \in [Inodes -> InodeRecords]
<1>1. ASSUME NEW i \in Inodes PROVE Inode(s, i) \in InodeRecords
  <2>1. PICK E \in SUBSET Inodes : s.inodes \in [E -> InodeRecords]
    BY DEF Drivers, Cached
  <2>2. s.disk.node[i] \in InodeRecords
    BY DEF Drivers, Drives
  <2> QED BY <2>1, <2>2 DEF Inode
<1> QED BY <1>1, Zenon DEF Nodes

\* The caches.
LEMMA WithCached ==
    ASSUME NEW D, NEW T, NEW f \in Cached(D, T), NEW x \in D, NEW v \in T, NEW g, g = With(f, x, v)
    PROVE  g \in Cached(D, T)
<1>1. PICK E \in SUBSET D : f \in [E -> T]
  BY DEF Cached
<1>2. g \in [E \cup {x} -> T]
  BY <1>1 DEF With
<1> QED BY <1>2 DEF Cached

\* An empty cache is a cache.
LEMMA EmptyCached == ASSUME NEW D, NEW T PROVE <<>> \in Cached(D, T)
<1>1. <<>> \in [{} -> T]
  OBVIOUS
<1> QED BY <1>1 DEF Cached

\* SetInode changes one inode, and only in the cache.
LEMMA SettingInode ==
    ASSUME NGroups = 1, NEW s, Good(s), NEW i \in Inodes, NEW n \in InodeRecords, NEW t, t = SetInode(s, i, n)
    PROVE  /\ Good(t) /\ View(t) = <<Marked(s), Used(s), [Nodes(s) EXCEPT ![i] = n], s.disk.ptr, s.disk.ents, s.sbB, s.sbI>>
           /\ DOMAIN t.inodes = DOMAIN s.inodes \cup {i} /\ t.disk.node = s.disk.node
<1> USE DEF Good
<1> PICK c : c = With(s.inodes, i, n)
  OBVIOUS
<1>1. /\ c \in Cached(Inodes, InodeRecords) /\ DOMAIN c = DOMAIN s.inodes \cup {i}
      /\ c[i] = n /\ \A y \in DOMAIN s.inodes : y # i => c[y] = s.inodes[y]
  <2>1. s.inodes \in Cached(Inodes, InodeRecords)
    BY DEF Drivers
  <2>2. c = With(s.inodes, i, n)
    OBVIOUS
  <2>3. c \in Cached(Inodes, InodeRecords)
    BY ONLY <2>1, <2>2, i \in Inodes, n \in InodeRecords, WithCached
  <2> QED BY <2>3, <2>2 DEF With
<1>2. t = [s EXCEPT !.inodes = c]
  BY DEF SetInode
<1>3. t \in Drivers
  BY <1>1, <1>2 DEF Drivers
<1>4. /\ t.inodes = c /\ t.disk = s.disk /\ t.bgdt = s.bgdt /\ t.block_alloc = s.block_alloc
      /\ t.inode_alloc = s.inode_alloc /\ t.sbB = s.sbB /\ t.sbI = s.sbI
  BY <1>2 DEF Drivers
<1>5. Marked(t) = Marked(s) /\ Used(t) = Used(s)
  BY <1>4, SameMarked, SameUsed DEF Bits, InodeBits
<1>6. Nodes(t) = [Nodes(s) EXCEPT ![i] = n]
  BY <1>1, <1>4 DEF Nodes, Inode
<1> QED BY <1>1, <1>3, <1>4, <1>5, <1>6 DEF View, Recorded

\* FlushInode moves one inode from the cache to the drive; what the driver
\* shows is the same.
LEMMA FlushingInode ==
    ASSUME NGroups = 1, NEW s, Good(s), NEW i \in Inodes, NEW t, t = FlushInode(s, i)
    PROVE  /\ Good(t) /\ View(t) = View(s)
           /\ DOMAIN t.inodes = DOMAIN s.inodes \ {i} /\ t.disk.node = [s.disk.node EXCEPT ![i] = Inode(s, i)]
           /\ CleanMeta(s) => CleanMeta(t)
<1> USE DEF Good
<1>1. CASE i \notin DOMAIN s.inodes
  <2>1. t = s
    BY <1>1 DEF FlushInode
  <2>2. Inode(s, i) = s.disk.node[i]
    BY <1>1 DEF Inode
  <2>3. s.disk.node = [s.disk.node EXCEPT ![i] = s.disk.node[i]]
    BY DEF Drivers, Drives
  <2> QED BY <1>1, <2>1, <2>2, <2>3
<1>2. CASE i \in DOMAIN s.inodes
  <2> PICK E \in SUBSET Inodes : s.inodes \in [E -> InodeRecords]
    BY DEF Drivers, Cached
  <2> PICK c : c = [j \in DOMAIN s.inodes \ {i} |-> s.inodes[j]]
    OBVIOUS
  <2>1. c \in Cached(Inodes, InodeRecords)
    <3>1. c \in [E \ {i} -> InodeRecords]
      OBVIOUS
    <3> QED BY <3>1 DEF Cached
  <2>2. t = [s EXCEPT !.disk.node[i] = s.inodes[i], !.inodes = c]
    BY <1>2 DEF FlushInode
  <2>3. t \in Drivers
    <3>1. s.inodes[i] \in InodeRecords
      BY <1>2
    <3>2. [s.disk EXCEPT !.node[i] = s.inodes[i]] \in Drives
      BY <3>1 DEF Drivers, Drives
    <3> QED BY <2>1, <2>2, <3>2 DEF Drivers
  <2>4. /\ t.inodes = c /\ t.disk.node = [s.disk.node EXCEPT ![i] = s.inodes[i]] /\ t.bgdt = s.bgdt
        /\ t.block_alloc = s.block_alloc /\ t.inode_alloc = s.inode_alloc /\ t.sbB = s.sbB /\ t.sbI = s.sbI
        /\ t.disk.bmap = s.disk.bmap /\ t.disk.imap = s.disk.imap /\ t.disk.ptr = s.disk.ptr /\ t.disk.ents = s.disk.ents
        /\ t.disk.bgdt = s.disk.bgdt /\ t.disk.sbB = s.disk.sbB /\ t.disk.sbI = s.disk.sbI
    BY <2>2 DEF Drivers, Drives
  <2>5. Marked(t) = Marked(s) /\ Used(t) = Used(s)
    BY <2>4, SameMarked, SameUsed DEF Bits, InodeBits
  <2>6. Nodes(t) = Nodes(s)
    <3>1. ASSUME NEW j \in Inodes PROVE Inode(t, j) = Inode(s, j)
      <4>1. s.disk.node \in [Inodes -> InodeRecords]
        BY DEF Drivers, Drives
      <4> QED BY <1>2, <2>4, <4>1 DEF Inode
    <3> QED BY <3>1 DEF Nodes
  <2>7. Inode(s, i) = s.inodes[i]
    BY <1>2 DEF Inode
  <2> QED BY <1>2, <2>3, <2>4, <2>5, <2>6, <2>7 DEF View, Recorded, CleanMeta
<1> QED BY <1>1, <1>2

\* The parts of FlushMetadata.
BgdtFlushed(s, t) ==
    /\ Good(t) /\ t = [s EXCEPT !.disk = t.disk]
    /\ [s.bgdt[0] EXCEPT !.mod = FALSE] = t.disk.bgdt[0]
    /\ t.disk = [s.disk EXCEPT !.sbB = s.sbB, !.sbI = s.sbI, !.bgdt = t.disk.bgdt]

\* After FlushBlockAlloc.
BlocksFlushed(s, t) ==
    /\ Good(t) /\ Bits(t, 0) = Bits(s, 0) /\ t.block_alloc = <<>>
    /\ t.disk = [s.disk EXCEPT !.bmap = t.disk.bmap]
    /\ t = [s EXCEPT !.disk = t.disk, !.block_alloc = <<>>]

\* After FlushInodeAlloc.
InodesFlushed(s, t) ==
    /\ Good(t) /\ InodeBits(t, 0) = InodeBits(s, 0) /\ t.inode_alloc = <<>>
    /\ t.disk = [s.disk EXCEPT !.imap = t.disk.imap]
    /\ t = [s EXCEPT !.disk = t.disk, !.inode_alloc = <<>>]

\* The superblock and the descriptors are written to the drive.
LEMMA FlushingBgdt ==
    ASSUME NGroups = 1, NEW s, Good(s), NEW t, t = FlushBgdt(FlushSuperblock(s))
    PROVE  BgdtFlushed(s, t)
<1> USE DEF Good, BgdtFlushed
<1> PICK u : u = FlushSuperblock(s)
  OBVIOUS
<1>1. u \in Drivers
  BY DEF FlushSuperblock, Drivers, Drives
<1>2. u.bgdt = s.bgdt /\ u.disk.bgdt = s.disk.bgdt
  BY DEF FlushSuperblock, Drivers, Drives
<1>3. Groups = {0} /\ s.bgdt[0] \in Descriptors /\ s.disk.bgdt[0] \in Descriptors
  BY OneGroup DEF Drivers, Drives
<1> DEFINE mod == {g \in Groups : u.bgdt[g].mod}
           slot(g) == Cardinality({h \in mod : h < g})
           q == [x \in Groups |-> IF \E g \in mod : slot(g) = x
                                   THEN LET g == CHOOSE g \in mod : slot(g) = x
                                        IN [u.bgdt[g] EXCEPT !.mod = FALSE]
                                   ELSE u.disk.bgdt[x]]
<1>4. t = [u EXCEPT !.disk.bgdt = q]
  BY <1>1 DEF FlushBgdt, Drivers, Drives
<1>5. q[0] = [s.bgdt[0] EXCEPT !.mod = FALSE]
  <2>1. CASE s.bgdt[0].mod = TRUE
    <3>1. mod = {0}
      BY <2>1, <1>2, <1>3
    <3>2. slot(0) = 0
      <4>1. {h \in mod : h < 0} = {}
        BY <3>1
      <4> QED BY <4>1, FS_EmptySet
    <3> HIDE DEF slot
    <3>3. (CHOOSE g \in mod : slot(g) = 0) = 0
      BY <3>1, <3>2
    <3> QED BY <1>2, <1>3, <3>1, <3>2, <3>3
  <2>2. CASE s.bgdt[0].mod = FALSE
    <3>1. mod = {}
      BY <2>2, <1>2, <1>3
    <3>2. q[0] = s.disk.bgdt[0]
      BY <3>1, <1>2, <1>3
    <3>3. s.bgdt[0] = s.disk.bgdt[0]
      BY <2>2 DEF Recorded
    <3>4. [s.bgdt[0] EXCEPT !.mod = FALSE] = s.bgdt[0]
      BY <2>2, <1>3 DEF Descriptors
    <3> QED BY <3>2, <3>3, <3>4
  <2> QED BY <2>1, <2>2, <1>3 DEF Descriptors
<1>6. q \in [Groups -> Descriptors] /\ q[0].mod = FALSE
  <2>1. q = [x \in {0} |-> q[0]]
    BY <1>3
  <2>2. q[0] \in Descriptors /\ q[0].mod = FALSE
    BY <1>5, <1>3 DEF Descriptors
  <2> HIDE DEF q
  <2> QED BY <2>1, <2>2, <1>3
<1> HIDE DEF q
<1>7. t \in Drivers
  <2>1. [u.disk EXCEPT !.bgdt = q] \in Drives
    BY <1>1, <1>6 DEF Drivers, Drives
  <2>2. t = [u EXCEPT !.disk = [u.disk EXCEPT !.bgdt = q]]
    BY <1>4
  <2> QED BY <2>1, <2>2, <1>1 DEF Drivers
<1>8. t.disk.bgdt = q /\ t = [s EXCEPT !.disk = t.disk] /\ t.disk = [s.disk EXCEPT !.sbB = s.sbB, !.sbI = s.sbI, !.bgdt = q]
  <2>1. s.disk \in Drives /\ DOMAIN s.disk = {"sbB", "sbI", "bgdt", "bmap", "imap", "node", "ents", "ptr"}
    BY DEF Drivers, Drives
  <2>2. t.disk = [u.disk EXCEPT !.bgdt = q] /\ t = [u EXCEPT !.disk = t.disk]
    BY <1>4, <1>1 DEF Drivers
  <2>3. u = [s EXCEPT !.disk = u.disk] /\ u.disk = [s.disk EXCEPT !.sbB = s.sbB, !.sbI = s.sbI]
    BY DEF FlushSuperblock, Drivers, Drives
  <2> QED BY <2>1, <2>2, <2>3 DEF Drivers, Drives
<1>9. Recorded(t)
  <2>1. t.bgdt = s.bgdt
    BY <1>8 DEF Drivers
  <2>2. s.bgdt[0].mod = FALSE => s.bgdt[0] = q[0]
    BY <1>5, <1>3 DEF Descriptors
  <2> QED BY <2>1, <2>2, <1>6, <1>8 DEF Recorded
<1> QED BY <1>5, <1>7, <1>8, <1>9

\* The block bitmap is written to the drive and leaves the cache.
LEMMA FlushingBlocks ==
    ASSUME NGroups = 1, NEW s, Good(s), NEW t, t = FlushBlockAlloc(s)
    PROVE  BlocksFlushed(s, t)
<1> USE DEF Good, BlocksFlushed
<1>1. Groups = {0} /\ s.bgdt[0].grp = 0
  BY OneGroup DEF Drivers, Descriptors
<1> PICK E \in SUBSET Groups : s.block_alloc \in [E -> SUBSET Int]
  BY DEF Drivers, Cached
<1> DEFINE m == [b \in Groups |->
                 IF \E g \in DOMAIN s.block_alloc : s.bgdt[g].grp = b
                 THEN s.block_alloc[CHOOSE g \in DOMAIN s.block_alloc : s.bgdt[g].grp = b]
                 ELSE s.disk.bmap[b]]
<1>2. m[0] = Bits(s, 0)
  <2>1. CASE 0 \in DOMAIN s.block_alloc
    <3>1. DOMAIN s.block_alloc = {0}
      BY <2>1, <1>1
    <3>2. (CHOOSE g \in DOMAIN s.block_alloc : s.bgdt[g].grp = 0) = 0
      BY <3>1, <1>1
    <3> QED BY <3>1, <3>2, <1>1 DEF Bits
  <2>2. CASE 0 \notin DOMAIN s.block_alloc
    <3>1. DOMAIN s.block_alloc = {}
      BY <2>2, <1>1
    <3> QED BY <3>1, <1>1 DEF Bits
  <2> QED BY <2>1, <2>2
<1>3. m \in [Groups -> SUBSET Int]
  <2>1. Bits(s, 0) \in SUBSET Int
    BY <1>1 DEF Bits, Drivers, Drives
  <2>2. m = [x \in {0} |-> m[0]]
    BY <1>1
  <2> HIDE DEF m
  <2> QED BY <2>1, <2>2, <1>1, <1>2
<1>4. t = [s EXCEPT !.disk.bmap = m, !.block_alloc = <<>>]
  BY DEF FlushBlockAlloc, Drivers, Drives
<1> HIDE DEF m
<1>5. t \in Drivers
  <2>1. [s.disk EXCEPT !.bmap = m] \in Drives
    BY <1>3 DEF Drivers, Drives
  <2>2. t = [s EXCEPT !.disk = [s.disk EXCEPT !.bmap = m], !.block_alloc = <<>>]
    BY <1>4
  <2>3. <<>> \in Cached(Groups, SUBSET Int)
    BY EmptyCached
  <2> QED BY <2>1, <2>2, <2>3 DEF Drivers
<1>6. t.disk.bmap = m /\ t.block_alloc = <<>> /\ t.bgdt = s.bgdt /\ t.disk.bgdt = s.disk.bgdt
  BY <1>4 DEF Drivers, Drives
<1>7. Bits(t, 0) = m[0]
  BY <1>6, <1>1 DEF Bits
<1>8. t.disk = [s.disk EXCEPT !.bmap = m] /\ t = [s EXCEPT !.disk = t.disk, !.block_alloc = <<>>]
  BY <1>4 DEF Drivers, Drives
<1> QED BY <1>2, <1>5, <1>6, <1>7, <1>8 DEF Recorded

\* The inode bitmap is written to the drive and leaves the cache.
LEMMA FlushingInodes ==
    ASSUME NGroups = 1, NEW s, Good(s), NEW t, t = FlushInodeAlloc(s)
    PROVE  InodesFlushed(s, t)
<1> USE DEF Good, InodesFlushed
<1>1. Groups = {0} /\ s.bgdt[0].grp = 0
  BY OneGroup DEF Drivers, Descriptors
<1> PICK E \in SUBSET Groups : s.inode_alloc \in [E -> SUBSET Int]
  BY DEF Drivers, Cached
<1> DEFINE m == [b \in Groups |->
                 IF \E g \in DOMAIN s.inode_alloc : s.bgdt[g].grp = b
                 THEN s.inode_alloc[CHOOSE g \in DOMAIN s.inode_alloc : s.bgdt[g].grp = b]
                 ELSE s.disk.imap[b]]
<1>2. m[0] = InodeBits(s, 0)
  <2>1. CASE 0 \in DOMAIN s.inode_alloc
    <3>1. DOMAIN s.inode_alloc = {0}
      BY <2>1, <1>1
    <3>2. (CHOOSE g \in DOMAIN s.inode_alloc : s.bgdt[g].grp = 0) = 0
      BY <3>1, <1>1
    <3> QED BY <3>1, <3>2, <1>1 DEF InodeBits
  <2>2. CASE 0 \notin DOMAIN s.inode_alloc
    <3>1. DOMAIN s.inode_alloc = {}
      BY <2>2, <1>1
    <3> QED BY <3>1, <1>1 DEF InodeBits
  <2> QED BY <2>1, <2>2
<1>3. m \in [Groups -> SUBSET Int]
  <2>1. InodeBits(s, 0) \in SUBSET Int
    BY <1>1 DEF InodeBits, Drivers, Drives
  <2>2. m = [x \in {0} |-> m[0]]
    BY <1>1
  <2> HIDE DEF m
  <2> QED BY <2>1, <2>2, <1>1, <1>2
<1>4. t = [s EXCEPT !.disk.imap = m, !.inode_alloc = <<>>]
  BY DEF FlushInodeAlloc, Drivers, Drives
<1> HIDE DEF m
<1>5. t \in Drivers
  <2>1. [s.disk EXCEPT !.imap = m] \in Drives
    BY <1>3 DEF Drivers, Drives
  <2>2. t = [s EXCEPT !.disk = [s.disk EXCEPT !.imap = m], !.inode_alloc = <<>>]
    BY <1>4
  <2>3. <<>> \in Cached(Groups, SUBSET Int)
    BY EmptyCached
  <2> QED BY <2>1, <2>2, <2>3 DEF Drivers
<1>6. t.disk.imap = m /\ t.inode_alloc = <<>> /\ t.bgdt = s.bgdt /\ t.disk.bgdt = s.disk.bgdt
  BY <1>4 DEF Drivers, Drives
<1>7. InodeBits(t, 0) = m[0]
  BY <1>6, <1>1 DEF InodeBits
<1>8. t.disk = [s.disk EXCEPT !.imap = m] /\ t = [s EXCEPT !.disk = t.disk, !.inode_alloc = <<>>]
  BY <1>4 DEF Drivers, Drives
<1> QED BY <1>2, <1>5, <1>6, <1>7, <1>8 DEF Recorded

\* FlushMetadata changes nothing that the driver shows, and leaves no bitmap
\* or counter in memory only.
LEMMA FlushingMetadata ==
    ASSUME NGroups = 1, NEW s, Good(s), NEW t, t = FlushMetadata(s)
    PROVE  Good(t) /\ View(t) = View(s) /\ CleanMeta(t) /\ Caches(t) = Caches(s)
<1> USE DEF Good
<1> PICK u : u = FlushBgdt(FlushSuperblock(s))
  OBVIOUS
<1> PICK v : v = FlushBlockAlloc(u)
  OBVIOUS
<1>0. t = FlushInodeAlloc(v)
  BY DEF FlushMetadata
<1>1. BgdtFlushed(s, u)
  BY FlushingBgdt
<1>2. BlocksFlushed(u, v)
  BY <1>1, FlushingBlocks DEF BgdtFlushed
<1>3. InodesFlushed(v, t)
  BY <1>0, <1>2, FlushingInodes DEF BlocksFlushed
<1> USE DEF BgdtFlushed, BlocksFlushed, InodesFlushed
<1>a. /\ u.sbB = s.sbB /\ u.sbI = s.sbI /\ u.inodes = s.inodes /\ u.bgdt = s.bgdt
      /\ u.block_alloc = s.block_alloc /\ u.inode_alloc = s.inode_alloc
      /\ u.disk.sbB = s.sbB /\ u.disk.sbI = s.sbI /\ u.disk.node = s.disk.node /\ u.disk.ptr = s.disk.ptr
      /\ u.disk.ents = s.disk.ents /\ u.disk.bmap = s.disk.bmap /\ u.disk.imap = s.disk.imap
  BY <1>1 DEF Drivers, Drives
<1>b. /\ v.sbB = u.sbB /\ v.sbI = u.sbI /\ v.inodes = u.inodes /\ v.bgdt = u.bgdt
      /\ v.inode_alloc = u.inode_alloc
      /\ v.disk.sbB = u.disk.sbB /\ v.disk.sbI = u.disk.sbI /\ v.disk.node = u.disk.node /\ v.disk.ptr = u.disk.ptr
      /\ v.disk.ents = u.disk.ents /\ v.disk.imap = u.disk.imap /\ v.disk.bgdt = u.disk.bgdt
  BY <1>1, <1>2 DEF Drivers, Drives
<1>c. /\ t.sbB = v.sbB /\ t.sbI = v.sbI /\ t.inodes = v.inodes /\ t.bgdt = v.bgdt
      /\ t.block_alloc = v.block_alloc
      /\ t.disk.sbB = v.disk.sbB /\ t.disk.sbI = v.disk.sbI /\ t.disk.node = v.disk.node /\ t.disk.ptr = v.disk.ptr
      /\ t.disk.ents = v.disk.ents /\ t.disk.bmap = v.disk.bmap /\ t.disk.bgdt = v.disk.bgdt
  BY <1>2, <1>3 DEF Drivers, Drives
<1>4. Marked(t) = Marked(s)
  <2>1. Bits(u, 0) = Bits(s, 0)
    BY <1>a DEF Bits
  <2>2. Bits(t, 0) = Bits(v, 0)
    BY <1>c DEF Bits
  <2> QED BY <2>1, <2>2, <1>2, SameMarked
<1>5. Used(t) = Used(s)
  <2>1. InodeBits(v, 0) = InodeBits(s, 0)
    BY <1>a, <1>b DEF InodeBits
  <2> QED BY <2>1, <1>3, SameUsed
<1>6. Nodes(t) = Nodes(s)
  BY <1>a, <1>b, <1>c DEF Nodes, Inode
<1>7. CleanMeta(t)
  BY <1>1, <1>2, <1>3, <1>a, <1>b, <1>c DEF CleanMeta
<1> QED BY <1>3, <1>4, <1>5, <1>6, <1>7, <1>a, <1>b, <1>c DEF View, Caches

\* A count that wraps is a count.
LEMMA Remainder ==
    ASSUME NEW x \in Int
    PROVE  x % CountMod \in Counts
  BY ExtAssumption DEF Counts

\* t is s with the block bits b and n free blocks.
Rebooked(s, t, b, n) ==
    /\ Good(t) /\ Bits(t, 0) = b /\ t.sbB = n
    /\ Used(t) = Used(s) /\ Nodes(t) = Nodes(s) /\ t.disk = s.disk /\ t.sbI = s.sbI /\ t.inodes = s.inodes

\* The bitmaps are sets of numbers.
LEMMA BitsType == ASSUME NGroups = 1, NEW s, Good(s) PROVE Bits(s, 0) \in SUBSET Int /\ InodeBits(s, 0) \in SUBSET Int
<1> USE DEF Good
<1>0. Groups = {0}
  BY OneGroup
<1>1. PICK E \in SUBSET Groups : s.block_alloc \in [E -> SUBSET Int]
  BY DEF Drivers, Cached
<1>2. PICK D \in SUBSET Groups : s.inode_alloc \in [D -> SUBSET Int]
  BY DEF Drivers, Cached
<1>3. s.bgdt[0].grp = 0 /\ s.disk.bmap[0] \in SUBSET Int /\ s.disk.imap[0] \in SUBSET Int
  BY <1>0 DEF Drivers, Drives, Descriptors
<1>4. Bits(s, 0) \in SUBSET Int
  BY <1>1, <1>3 DEF Bits
<1>5. InodeBits(s, 0) \in SUBSET Int
  BY <1>2, <1>3 DEF InodeBits
<1> QED BY <1>4, <1>5

\* Storing a block bitmap, a descriptor and a counter does that.
LEMMA Rebooking ==
    ASSUME NGroups = 1, NEW s, Good(s), NEW b \in SUBSET Int, NEW n \in Int,
           NEW c \in Cached(Groups, SUBSET Int), 0 \in DOMAIN c, c[0] = b,
           NEW d \in Descriptors, d.mod = TRUE, NEW g, g = [s.bgdt EXCEPT ![0] = d],
           NEW t, t = [s EXCEPT !.block_alloc = c, !.bgdt = g, !.sbB = n]
    PROVE  Rebooked(s, t, b, n)
<1> USE DEF Good
<1>0. Groups = {0}
  BY OneGroup
<1>1. g \in [Groups -> Descriptors] /\ g[0] = d
  BY <1>0 DEF Drivers
<1>2. t \in Drivers
  BY <1>1 DEF Drivers
<1>3. /\ t.block_alloc = c /\ t.bgdt = g /\ t.sbB = n /\ t.disk = s.disk /\ t.inodes = s.inodes
      /\ t.inode_alloc = s.inode_alloc /\ t.sbI = s.sbI
  BY DEF Drivers
<1>4. Bits(t, 0) = b
  BY <1>3 DEF Bits
<1>5. Used(t) = Used(s)
  <2>1. t.bgdt[0].grp = s.bgdt[0].grp
    BY <1>0, <1>1, <1>3 DEF Drivers, Descriptors
  <2>2. InodeBits(t, 0) = InodeBits(s, 0)
    BY <2>1, <1>3 DEF InodeBits
  <2> QED BY <2>2, SameUsed
<1>6. Nodes(t) = Nodes(s)
  BY <1>3 DEF Nodes, Inode
<1>7. Recorded(t)
  BY <1>1, <1>3 DEF Recorded
<1> QED BY <1>2, <1>3, <1>4, <1>5, <1>6, <1>7 DEF Rebooked

\* A bitmap that was put into the cache is there.
LEMMA CacheBits ==
    ASSUME NGroups = 1, NEW s, Good(s), NEW b \in SUBSET Int, NEW c, c = With(s.block_alloc, 0, b)
    PROVE  c \in Cached(Groups, SUBSET Int) /\ 0 \in DOMAIN c /\ c[0] = b
<1>1. s.block_alloc \in Cached(Groups, SUBSET Int)
  BY DEF Drivers, Good
<1>2. c = With(s.block_alloc, 0, b) /\ 0 \in Groups
  BY OneGroup
<1>3. c \in Cached(Groups, SUBSET Int)
  BY ONLY <1>1, <1>2, b \in SUBSET Int, WithCached
<1> QED BY <1>3, <1>2 DEF With

\* One bit is set or cleared.
Booked(s, t, m, n) ==
    /\ Good(t) /\ View(t) = <<m, Used(s), Nodes(s), s.disk.ptr, s.disk.ents, n, s.sbI>>
    /\ Caches(t) = Caches(s)

\* Mark sets the bit of one block and counts it.
LEMMA Marking ==
    ASSUME NGroups = 1, NEW s, Good(s), NEW k \in 0 .. BPG - 1, NEW t, t = Mark(s, 0, k)
    PROVE  Booked(s, t, Marked(s) \cup {Addr(0, k)}, s.sbB - 1)
<1>0. Groups = {0} /\ Addr(0, k) \in Addrs
  BY OneGroup
<1> PICK b : b = Bits(s, 0) \cup {k}
  OBVIOUS
<1>b. b \in SUBSET Int
  BY BitsType
<1> PICK c : c = With(s.block_alloc, 0, b)
  OBVIOUS
<1>1. c \in Cached(Groups, SUBSET Int) /\ 0 \in DOMAIN c /\ c[0] = b
  BY <1>b, CacheBits
<1> PICK d : d = [s.bgdt[0] EXCEPT !.blocks = (@ - 1) % CountMod, !.mod = TRUE]
  OBVIOUS
<1>2. d \in Descriptors /\ d.mod = TRUE
  <2>1. s.bgdt[0] \in Descriptors
    BY <1>0 DEF Drivers, Good
  <2>2. (s.bgdt[0].blocks - 1) % CountMod \in Counts
    BY <2>1, ExtAssumption DEF Descriptors, Counts
  <2> QED BY <2>1, <2>2 DEF Descriptors
<1> PICK g : g = [s.bgdt EXCEPT ![0] = d]
  OBVIOUS
<1>n. s.sbB - 1 \in Int
  BY DEF Drivers, Good
<1>3. t = [s EXCEPT !.block_alloc = c, !.bgdt = g, !.sbB = s.sbB - 1]
  <2>1. g = [s.bgdt EXCEPT ![0].blocks = (@ - 1) % CountMod, ![0].mod = TRUE]
    BY <1>0 DEF Drivers, Good
  <2> QED BY <2>1 DEF Mark, Drivers, Good
<1>4. Rebooked(s, t, b, s.sbB - 1)
  BY ONLY NGroups = 1, Good(s), g = [s.bgdt EXCEPT ![0] = d], <1>b, <1>n, <1>1, <1>2, <1>3, Rebooking
<1>8. Marked(t) = Marked(s) \cup {Addr(0, k)}
  <2>1. ASSUME NEW a \in Addrs PROVE a \in Marked(t) <=> a \in Marked(s) \/ a = Addr(0, k)
    <3>1. IndexOf(a) = k <=> a = Addr(0, k)
      BY OneGroup
    <3> QED BY <3>1, <1>4, MarkedBits DEF Rebooked
  <2> QED BY <2>1, <1>0 DEF Marked
<1> QED BY <1>4, <1>8 DEF View, Caches, Rebooked, Booked

\* Unmark clears the bit of one block and counts it.
LEMMA Unmarking ==
    ASSUME NGroups = 1, NEW s, Good(s), NEW a \in Addrs, NEW t, t = Unmark(s, GroupOf(a), IndexOf(a))
    PROVE  Booked(s, t, Marked(s) \ {a}, s.sbB + 1)
<1>0. Groups = {0} /\ GroupOf(a) = 0
  BY OneGroup
<1> PICK k : k = IndexOf(a)
  OBVIOUS
<1> PICK b : b = Bits(s, 0) \ {k}
  OBVIOUS
<1>b. b \in SUBSET Int
  BY BitsType
<1> PICK c : c = With(s.block_alloc, 0, b)
  OBVIOUS
<1>1. c \in Cached(Groups, SUBSET Int) /\ 0 \in DOMAIN c /\ c[0] = b
  BY <1>b, CacheBits
<1> PICK d : d = [s.bgdt[0] EXCEPT !.blocks = (@ + 1) % CountMod, !.mod = TRUE]
  OBVIOUS
<1>2. d \in Descriptors /\ d.mod = TRUE
  <2>1. s.bgdt[0] \in Descriptors
    BY <1>0 DEF Drivers, Good
  <2>2. (s.bgdt[0].blocks + 1) % CountMod \in Counts
    BY <2>1, ExtAssumption DEF Descriptors, Counts
  <2> QED BY <2>1, <2>2 DEF Descriptors
<1> PICK g : g = [s.bgdt EXCEPT ![0] = d]
  OBVIOUS
<1>n. s.sbB + 1 \in Int
  BY DEF Drivers, Good
<1>3. t = [s EXCEPT !.block_alloc = c, !.bgdt = g, !.sbB = s.sbB + 1]
  <2>1. g = [s.bgdt EXCEPT ![0].blocks = (@ + 1) % CountMod, ![0].mod = TRUE]
    BY <1>0 DEF Drivers, Good
  <2> QED BY <2>1, <1>0 DEF Unmark, Drivers, Good
<1>4. Rebooked(s, t, b, s.sbB + 1)
  BY ONLY NGroups = 1, Good(s), g = [s.bgdt EXCEPT ![0] = d], <1>b, <1>n, <1>1, <1>2, <1>3, Rebooking
<1>8. Marked(t) = Marked(s) \ {a}
  <2>1. ASSUME NEW x \in Addrs PROVE x \in Marked(t) <=> x \in Marked(s) /\ x # a
    <3>1. IndexOf(x) = k <=> x = a
      BY OneGroup
    <3> QED BY <3>1, <1>4, MarkedBits DEF Rebooked
  <2> QED BY <2>1 DEF Marked
<1> QED BY <1>4, <1>8 DEF View, Caches, Rebooked, Booked

\* Several bits are cleared.
LEMMA Deallocating ==
    ASSUME NGroups = 1, NEW s, Good(s), NEW A \in SUBSET Addrs, NEW t, t = DeallocateBlocks(s, A)
    PROVE  Booked(s, t, Marked(s) \ A, s.sbB + Cardinality(A \cap Marked(s)))
<1>0. Groups = {0} /\ \A a \in Addrs : GroupOf(a) = 0
  BY OneGroup
<1> DEFINE freed == {a \in A : IndexOf(a) \in Bits(s, GroupOf(a))}
           freedIn(gr) == {IndexOf(a) : a \in {b \in freed : GroupOf(b) = gr}}
           hit == {GroupOf(a) : a \in freed}
           Debited(d, n) == [d EXCEPT !.blocks = (@ - n) % CountMod, !.mod = TRUE]
           c == [gr \in DOMAIN s.block_alloc \cup hit |-> Bits(s, gr) \ freedIn(gr)]
           g == [gr \in Groups |->
                   IF gr \notin hit THEN s.bgdt[gr]
                   ELSE Debited(s.bgdt[gr], Cardinality(freedIn(gr)))]
<1>3. t = [s EXCEPT !.block_alloc = c, !.bgdt = g, !.sbB = s.sbB + Cardinality(freed)]
  BY DEF DeallocateBlocks
<1> HIDE DEF c, g
<1>1. freed = A \cap Marked(s)
  BY DEF Marked
<1>2. freedIn(0) = {IndexOf(a) : a \in freed} /\ hit \subseteq Groups
  BY <1>0
<1> PICK b : b = Bits(s, 0) \ freedIn(0)
  OBVIOUS
<1>b. b \in SUBSET Int
  BY BitsType
<1>n. s.sbB + Cardinality(freed) \in Int
  <2>1. IsFiniteSet(freed)
    BY OneGroup, FS_Subset
  <2> QED BY <2>1, FS_CardinalityType DEF Drivers, Good
<1> HIDE DEF freed, freedIn, hit
<1>d. s.bgdt[0] \in Descriptors /\ s.bgdt \in [Groups -> Descriptors]
  BY <1>0 DEF Drivers, Good
<1>f. IsFiniteSet(freed) /\ IsFiniteSet(freedIn(0))
  <2>1. IsFiniteSet(freed)
    BY OneGroup, FS_Subset DEF freed
  <2>2. freedIn(0) \subseteq 0 .. BPG - 1
    BY <1>2, OneGroup DEF freed
  <2>3. IsFiniteSet(0 .. BPG - 1)
    BY FS_Interval, ExtAssumption
  <2> QED BY <2>1, <2>2, <2>3, FS_Subset
<1>4. CASE freed = {}
  <2>1. freedIn(0) = {} /\ hit = {} /\ Cardinality(freed) = 0
    BY <1>2, <1>4, FS_EmptySet DEF hit
  <2>4. g = s.bgdt
    BY <1>d, <2>1 DEF g
  <2>5. c = s.block_alloc
    <3>1. PICK E \in SUBSET Groups : s.block_alloc \in [E -> SUBSET Int]
      BY DEF Drivers, Cached, Good
    <3>2. c = [gr \in E |-> s.block_alloc[gr]]
      BY <3>1, <1>0, <2>1 DEF Bits, c
    <3> QED BY <3>1, <3>2
  <2>6. s.sbB + Cardinality(freed) = s.sbB
    <3>1. s.sbB \in Int
      BY DEF Drivers, Good
    <3> QED BY <2>1, <3>1
  <2>7. t = s
    <3>1. t = [s EXCEPT !.block_alloc = s.block_alloc, !.bgdt = s.bgdt, !.sbB = s.sbB]
      BY <1>3, <2>4, <2>5, <2>6
    <3> QED BY <3>1 DEF Drivers, Good
  <2>8. Marked(s) \ A = Marked(s) /\ A \cap Marked(s) = freed
    BY <1>1, <1>4
  <2> QED BY <2>6, <2>7, <2>8 DEF Booked, View
<1>5. CASE freed # {}
  <2>1. hit = {0}
    BY <1>0, <1>5 DEF hit, freed
  <2>2. c \in [{0} -> SUBSET Int] /\ c[0] = b
    <3>1. PICK E \in SUBSET Groups : s.block_alloc \in [E -> SUBSET Int]
      BY DEF Drivers, Cached, Good
    <3>2. DOMAIN s.block_alloc \cup hit = {0}
      BY <3>1, <2>1, <1>0
    <3>3. c = [gr \in {0} |-> Bits(s, gr) \ freedIn(gr)]
      BY <3>2 DEF c
    <3> QED BY <3>3, <1>b
  <2>3. c \in Cached(Groups, SUBSET Int) /\ 0 \in DOMAIN c
    BY <2>2, <1>0 DEF Cached
  <2>n. s.bgdt[0].blocks - Cardinality(freedIn(0)) \in Int
    <3>1. s.bgdt[0].blocks \in Int
      BY <1>d DEF Descriptors, Counts
    <3>2. Cardinality(freedIn(0)) \in Nat
      BY <1>f, FS_CardinalityType
    <3> QED BY <3>1, <3>2
  <2> PICK x : x = (s.bgdt[0].blocks - Cardinality(freedIn(0))) % CountMod
    OBVIOUS
  <2> PICK d : d = [s.bgdt[0] EXCEPT !.blocks = x, !.mod = TRUE]
    OBVIOUS
  <2>4. d \in Descriptors /\ d.mod = TRUE
    <3>1. x \in Counts
      BY <2>n, Remainder
    <3> QED BY <3>1, <1>d DEF Descriptors
  <2>5. g = [s.bgdt EXCEPT ![0] = d]
    <3>1. g = [gr \in {0} |-> [s.bgdt[gr] EXCEPT !.blocks = (@ - Cardinality(freedIn(gr))) % CountMod, !.mod = TRUE]]
      BY <1>0, <2>1 DEF g
    <3>2. g = [gr \in {0} |-> d]
      BY <3>1
    <3> QED BY <3>2, <1>0, <1>d
  <2>6. Rebooked(s, t, b, s.sbB + Cardinality(freed))
    BY ONLY NGroups = 1, Good(s), <1>b, <1>n, <1>3, <2>2, <2>3, <2>4, <2>5, Rebooking
  <2>7. Marked(t) = Marked(s) \ A
    <3>1. ASSUME NEW a \in Addrs PROVE a \in Marked(t) <=> a \in Marked(s) /\ a \notin A
      <4>1. a \in Marked(t) <=> IndexOf(a) \in b
        BY <2>6, MarkedBits DEF Rebooked
      <4>2. IndexOf(a) \in freedIn(0) <=> a \in freed
        <5>1. \A y \in freed : IndexOf(y) = IndexOf(a) => y = a
          BY OneGroup DEF freed
        <5> QED BY <5>1, <1>2
      <4>3. a \in Marked(s) <=> IndexOf(a) \in Bits(s, 0)
        BY MarkedBits
      <4> QED BY <4>1, <4>2, <4>3, <1>1
    <3> QED BY <3>1 DEF Marked
  <2>8. A \cap Marked(s) = freed
    BY <1>1
  <2> QED BY <2>6, <2>7, <2>8 DEF View, Caches, Rebooked, Booked
<1> QED BY <1>4, <1>5

-----------------------------------------------------------------------------

\* The places of an inode that hold an address: its own pointers (-2 for the doubly,
\* -1 for the singly indirect block) and those in its singly indirect block.
MetaBlocks == {Addr(0, k) : k \in 0 .. Meta - 1}

\* The places are numbered; At is what a place x of the inode n holds.
Slots == -2 .. Direct + APB - 1
Pointers == [0 .. APB - 1 -> Nat]
At(n, P, x) ==
    IF x = -2 THEN n.d ELSE IF x = -1 THEN n.s ELSE IF x < Direct THEN n.direct[x]
    ELSE IF n.s = 0 THEN 0 ELSE P[n.s][x - Direct]

\* Every address that is held is of a marked block outside the tables.
Held(M, U, N, P) == \A i \in U, x \in Slots : At(N[i], P, x) # 0 => At(N[i], P, x) \in M \ MetaBlocks

\* No two places hold the same address.
Apart(U, N, P) == \A i, j \in U, x, y \in Slots :
    At(N[i], P, x) # 0 /\ At(N[i], P, x) = At(N[j], P, y) => i = j /\ x = y

\* A doubly indirect block holds no address: inode_set never fills one.
Hollow(U, N, P) == \A i \in U : N[i].d # 0 => P[N[i].d] = NoPtr

\* The blocks are in order: M are marked, U the inodes in use, N the inodes, P
\* the blocks of pointers.
BlocksOK(M, U, N, P) == /\ MetaBlocks \subseteq M /\ Held(M, U, N, P) /\ Apart(U, N, P) /\ Hollow(U, N, P)

\* The types of these.
Typed(M, U, N, P) ==
    /\ M \subseteq Addrs /\ U \subseteq Inodes /\ N \in [Inodes -> InodeRecords] /\ P \in [Addrs -> Pointers]

\* A block that is marked and that no inode points to.
Spare(a, M, U, N, P) == /\ a \in M \ MetaBlocks /\ a # 0
                        /\ \A i \in U, x \in Slots : At(N[i], P, x) # a

\* Marking further blocks keeps the order.
LEMMA MoreMarked ==
    ASSUME NEW M, NEW U, NEW N, NEW P, BlocksOK(M, U, N, P), NEW L, M \subseteq L
    PROVE  BlocksOK(L, U, N, P)
  BY DEF BlocksOK, Held

\* Clearing the bits of blocks that nobody holds keeps the order.
LEMMA LessMarked ==
    ASSUME NEW M, NEW U, NEW N, NEW P, BlocksOK(M, U, N, P), NEW L, MetaBlocks \subseteq L,
           \A i \in U, x \in Slots : At(N[i], P, x) # 0 => At(N[i], P, x) \in L
    PROVE  BlocksOK(L, U, N, P)
  BY DEF BlocksOK, Held

\* Freeing inodes keeps the order.
LEMMA FewerUsed ==
    ASSUME NEW M, NEW U, NEW N, NEW P, BlocksOK(M, U, N, P), NEW W, W \subseteq U, NEW O, \A i \in W : O[i] = N[i]
    PROVE  BlocksOK(M, W, O, P)
<1> USE DEF BlocksOK
<1>1. Held(M, W, O, P)
  BY DEF Held
<1>2. Apart(W, O, P)
  <2> SUFFICES ASSUME NEW i \in W, NEW j \in W, NEW x \in Slots, NEW y \in Slots,
                      At(O[i], P, x) # 0, At(O[i], P, x) = At(O[j], P, y)
               PROVE  i = j /\ x = y
    BY DEF Apart
  <2>1. O[i] = N[i] /\ O[j] = N[j] /\ i \in U /\ j \in U
    OBVIOUS
  <2>2. At(N[i], P, x) # 0 /\ At(N[i], P, x) = At(N[j], P, y)
    BY <2>1
  <2> QED BY <2>1, <2>2 DEF Apart
<1>3. Hollow(W, O, P)
  BY DEF Hollow
<1> QED BY <1>1, <1>2, <1>3

\* One inode is changed, and with it blocks of pointers that no other inode has.
LEMMA OtherSlots ==
    ASSUME NEW M, NEW U, NEW N, NEW P, Typed(M, U, N, P), BlocksOK(M, U, N, P), NEW Q, NEW j \in U,
           N[j].s # 0 => Q[N[j].s] = P[N[j].s], NEW x \in Slots
    PROVE  At(N[j], Q, x) = At(N[j], P, x)
  BY DEF At

\* The order is kept if an inode holds what it held before, or spare blocks,
\* each once.
LEMMA OneInode ==
    ASSUME NEW M, NEW U, NEW N, NEW P, Typed(M, U, N, P), BlocksOK(M, U, N, P),
           NEW i \in Inodes, NEW n \in InodeRecords, NEW Q, NEW O, O = [N EXCEPT ![i] = n],
           \A j \in U \ {i} : /\ N[j].s # 0 => Q[N[j].s] = P[N[j].s]
                              /\ N[j].d # 0 => Q[N[j].d] = P[N[j].d],
           n.d # 0 => Q[n.d] = NoPtr,
           \A x, y \in Slots : At(n, Q, x) # 0 /\ At(n, Q, x) = At(n, Q, y) => x = y,
           \A x \in Slots : At(n, Q, x) # 0 =>
               \/ i \in U /\ \E y \in Slots : At(n, Q, x) = At(N[i], P, y)
               \/ Spare(At(n, Q, x), M, U, N, P)
    PROVE  BlocksOK(M, U \cup {i}, O, Q)
<1> USE DEF BlocksOK
<1>1. O[i] = n /\ \A j \in U \ {i} : O[j] = N[j]
  BY DEF Typed
<1>2. \A j \in U \ {i}, x \in Slots : At(O[j], Q, x) = At(N[j], P, x)
  BY <1>1 DEF At
<1>3. Held(M, U \cup {i}, O, Q)
  <2> SUFFICES ASSUME NEW j \in U \cup {i}, NEW x \in Slots, At(O[j], Q, x) # 0
               PROVE  At(O[j], Q, x) \in M \ MetaBlocks
    BY DEF Held
  <2>1. CASE j # i
    BY <2>1, <1>2 DEF Held
  <2>2. CASE j = i
    BY <2>2, <1>1 DEF Held, Spare
  <2> QED BY <2>1, <2>2
<1>4. Apart(U \cup {i}, O, Q)
  <2>1. ASSUME NEW j \in U \ {i}, NEW x \in Slots, NEW y \in Slots, At(O[i], Q, x) # 0
        PROVE  At(O[i], Q, x) # At(O[j], Q, y)
    <3>1. At(O[j], Q, y) = At(N[j], P, y) /\ O[i] = n /\ j \in U /\ j # i
      BY <1>1, <1>2
    <3>2. CASE i \in U /\ \E z \in Slots : At(n, Q, x) = At(N[i], P, z)
      BY <2>1, <3>1, <3>2 DEF Apart
    <3>3. CASE Spare(At(n, Q, x), M, U, N, P)
      BY <3>1, <3>3 DEF Spare
    <3> QED BY <2>1, <3>1, <3>2, <3>3
  <2>2. ASSUME NEW j \in U \ {i}, NEW k \in U \ {i}, NEW x \in Slots, NEW y \in Slots,
               At(O[j], Q, x) # 0, At(O[j], Q, x) = At(O[k], Q, y)
        PROVE  j = k /\ x = y
    <3>1. At(O[j], Q, x) = At(N[j], P, x) /\ At(O[k], Q, y) = At(N[k], P, y)
      BY <1>2
    <3>2. j \in U /\ k \in U /\ At(N[j], P, x) # 0 /\ At(N[j], P, x) = At(N[k], P, y)
      BY <3>1, <2>2
    <3> QED BY <3>2 DEF Apart
  <2>3. ASSUME NEW x \in Slots, NEW y \in Slots, At(O[i], Q, x) # 0, At(O[i], Q, x) = At(O[i], Q, y)
        PROVE  x = y
    BY <2>3, <1>1
  <2> SUFFICES ASSUME NEW j \in U \cup {i}, NEW k \in U \cup {i}, NEW x \in Slots, NEW y \in Slots,
                      At(O[j], Q, x) # 0, At(O[j], Q, x) = At(O[k], Q, y)
               PROVE  j = k /\ x = y
    BY DEF Apart
  <2>4. CASE j = i /\ k = i
    BY <2>4, <2>3
  <2>5. CASE j = i /\ k # i
    BY <2>5, <2>1
  <2>6. CASE j # i /\ k = i
    BY <2>6, <2>1
  <2>7. CASE j # i /\ k # i
    BY <2>7, <2>2
  <2> QED BY <2>4, <2>5, <2>6, <2>7
<1>5. Hollow(U \cup {i}, O, Q)
  BY <1>1 DEF Hollow
<1> QED BY <1>3, <1>4, <1>5

\* A block of pointers that no inode has is rewritten.
LEMMA SparePtr ==
    ASSUME NEW M, NEW U, NEW N, NEW P, Typed(M, U, N, P), BlocksOK(M, U, N, P), NEW p, Spare(p, M, U, N, P), NEW w,
           NEW Q, Q = [P EXCEPT ![p] = w]
    PROVE  BlocksOK(M, U, N, Q) /\ \A b : Spare(b, M, U, N, P) => Spare(b, M, U, N, Q)
<1>1. \A j \in U : N[j].s # p /\ N[j].d # p /\ (N[j].s # 0 => N[j].s \in Addrs) /\ (N[j].d # 0 => N[j].d \in Addrs)
  <2>1. -1 \in Slots /\ -2 \in Slots
    BY ExtAssumption DEF Slots
  <2>2. ASSUME NEW j \in U PROVE At(N[j], P, -1) = N[j].s /\ At(N[j], P, -2) = N[j].d
    BY DEF At
  <2>3. MetaBlocks \subseteq M /\ M \subseteq Addrs
    BY DEF BlocksOK, Typed
  <2> QED BY <2>1, <2>2, <2>3 DEF Spare, BlocksOK, Held
<1>2. \A j \in U : (N[j].s # 0 => Q[N[j].s] = P[N[j].s]) /\ (N[j].d # 0 => Q[N[j].d] = P[N[j].d])
  BY <1>1 DEF Typed
<1>3. \A j \in U, x \in Slots : At(N[j], Q, x) = At(N[j], P, x)
  BY <1>2 DEF At
<1>4. Held(M, U, N, Q)
  BY <1>3 DEF Held, BlocksOK
<1>5. Apart(U, N, Q)
  <2> SUFFICES ASSUME NEW j \in U, NEW k \in U, NEW x \in Slots, NEW y \in Slots,
                      At(N[j], Q, x) # 0, At(N[j], Q, x) = At(N[k], Q, y)
               PROVE  j = k /\ x = y
    BY DEF Apart
  <2>1. At(N[j], P, x) # 0 /\ At(N[j], P, x) = At(N[k], P, y)
    BY <1>3
  <2> QED BY <2>1 DEF Apart, BlocksOK
<1>6. Hollow(U, N, Q)
  BY <1>2 DEF Hollow, BlocksOK
<1>7. \A b : Spare(b, M, U, N, P) => Spare(b, M, U, N, Q)
  BY <1>3 DEF Spare
<1> QED BY <1>4, <1>5, <1>6, <1>7 DEF BlocksOK

-----------------------------------------------------------------------------

\* A block of pointers, and one of entries, is written to the drive.
PtrWritten(s, t, Q) ==
    /\ Good(t) /\ View(t) = <<Marked(s), Used(s), Nodes(s), Q, s.disk.ents, s.sbB, s.sbI>>
    /\ Caches(t) = Caches(s)

\* The same for a block of entries.
EntsWritten(s, t, F) ==
    /\ Good(t) /\ View(t) = <<Marked(s), Used(s), Nodes(s), s.disk.ptr, F, s.sbB, s.sbI>>
    /\ Caches(t) = Caches(s)

\* Writing a block of pointers changes nothing else.
LEMMA PtrWriting ==
    ASSUME NGroups = 1, NEW s, Good(s), NEW p \in Addrs, NEW w \in Pointers,
           NEW Q, Q = [s.disk.ptr EXCEPT ![p] = w], NEW t, t = [s EXCEPT !.disk.ptr = Q]
    PROVE  PtrWritten(s, t, Q)
<1>1. Q \in [Addrs -> Pointers]
  BY DEF Drivers, Drives, Good, Pointers
<1>2. t \in Drivers
  <2>1. [s.disk EXCEPT !.ptr = Q] \in Drives
    BY <1>1 DEF Drivers, Drives, Good, Pointers
  <2>2. t = [s EXCEPT !.disk = [s.disk EXCEPT !.ptr = Q]]
    OBVIOUS
  <2> QED BY <2>1, <2>2 DEF Drivers, Good
<1>3. /\ t.inodes = s.inodes /\ t.disk.node = s.disk.node /\ t.bgdt = s.bgdt /\ t.block_alloc = s.block_alloc
      /\ t.inode_alloc = s.inode_alloc /\ t.sbB = s.sbB /\ t.sbI = s.sbI
      /\ t.disk.bmap = s.disk.bmap /\ t.disk.imap = s.disk.imap /\ t.disk.ptr = Q /\ t.disk.ents = s.disk.ents
      /\ t.disk.bgdt = s.disk.bgdt
  BY DEF Drivers, Drives, Good
<1>4. Marked(t) = Marked(s) /\ Used(t) = Used(s)
  <2>1. Bits(t, 0) = Bits(s, 0) /\ InodeBits(t, 0) = InodeBits(s, 0)
    BY <1>3 DEF Bits, InodeBits
  <2> QED BY <2>1, SameMarked, SameUsed
<1>5. Nodes(t) = Nodes(s)
  BY <1>3 DEF Nodes, Inode
<1> QED BY <1>2, <1>3, <1>4, <1>5 DEF PtrWritten, View, Recorded, Good, Caches

\* Writing a block of entries changes nothing else.
LEMMA EntsWriting ==
    ASSUME NGroups = 1, NEW s, Good(s), NEW p \in Addrs, NEW w \in SUBSET EntryRecords,
           NEW F, F = [s.disk.ents EXCEPT ![p] = w], NEW t, t = [s EXCEPT !.disk.ents = F]
    PROVE  EntsWritten(s, t, F)
<1>1. F \in [Addrs -> SUBSET EntryRecords]
  BY DEF Drivers, Drives, Good
<1>2. t \in Drivers
  <2>1. [s.disk EXCEPT !.ents = F] \in Drives
    BY <1>1 DEF Drivers, Drives, Good
  <2>2. t = [s EXCEPT !.disk = [s.disk EXCEPT !.ents = F]]
    OBVIOUS
  <2> QED BY <2>1, <2>2 DEF Drivers, Good
<1>3. /\ t.inodes = s.inodes /\ t.disk.node = s.disk.node /\ t.bgdt = s.bgdt /\ t.block_alloc = s.block_alloc
      /\ t.inode_alloc = s.inode_alloc /\ t.sbB = s.sbB /\ t.sbI = s.sbI
      /\ t.disk.bmap = s.disk.bmap /\ t.disk.imap = s.disk.imap /\ t.disk.ptr = s.disk.ptr /\ t.disk.ents = F
      /\ t.disk.bgdt = s.disk.bgdt
  BY DEF Drivers, Drives, Good
<1>4. Marked(t) = Marked(s) /\ Used(t) = Used(s)
  <2>1. Bits(t, 0) = Bits(s, 0) /\ InodeBits(t, 0) = InodeBits(s, 0)
    BY <1>3 DEF Bits, InodeBits
  <2> QED BY <2>1, SameMarked, SameUsed
<1>5. Nodes(t) = Nodes(s)
  BY <1>3 DEF Nodes, Inode
<1> QED BY <1>2, <1>3, <1>4, <1>5 DEF EntsWritten, View, Recorded, Good, Caches

-----------------------------------------------------------------------------

\* The blocks and counters of a driver are in order.
BlocksGood(s) == BlocksOK(Marked(s), Used(s), Nodes(s), s.disk.ptr)
Counted(s) == s.sbB = Cardinality(Addrs \ Marked(s)) /\ s.sbI = Cardinality(Inodes \ Used(s))
Sound(s) == Good(s) /\ BlocksGood(s) /\ Counted(s)

\* The inode that the driver shows is the one it reads.
LEMMA NodeAt ==
    ASSUME NGroups = 1, NEW s \in Drivers, NEW i \in Inodes
    PROVE  Nodes(s)[i] = Inode(s, i) /\ Inode(s, i) \in InodeRecords
<1>1. Nodes(s)[i] = Inode(s, i)
  BY DEF Nodes
<1> QED BY <1>1, NodeTypes

\* The blocks of a driver have their types.
LEMMA TypedView == ASSUME NEW s \in Drivers PROVE Typed(Marked(s), Used(s), Nodes(s), s.disk.ptr)
  BY NodeTypes DEF Typed, Marked, Used, Pointers, Drivers, Drives

\* A number below a square has two digits.
LEMMA Product ==
    ASSUME NEW n \in Nat \ {0}, NEW x \in Nat, x < n * n
    PROVE  x \div n \in 0 .. n - 1 /\ x % n \in 0 .. n - 1
<1> DEFINE q == x \div n
<1>1. q \in Nat /\ x % n \in 0 .. n - 1 /\ x = n * q + (x % n)
  OBVIOUS
<1> HIDE DEF q
<1>2. CASE q >= n
  <2>1. n * q >= n * n
    BY <1>1, <1>2
  <2> QED BY <1>1, <2>1
<1> QED BY <1>1, <1>2 DEF q

\* InodeLookup returns an address or zero.
LEMMA Looking ==
    ASSUME NGroups = 1, NEW s, Good(s), BlocksGood(s), NEW i \in Used(s), NEW k \in 0 .. MaxFile - 1
    PROVE  InodeLookup(s, i, k) \in Nat
<1> PICK n : n = Inode(s, i)
  OBVIOUS
<1>1. n \in InodeRecords /\ n = Nodes(s)[i] /\ i \in Inodes
  BY NodeAt DEF Good, Used
<1>2. (n.s # 0 => n.s \in Addrs) /\ (n.d # 0 => n.d \in Addrs /\ s.disk.ptr[n.d] = NoPtr)
  <2>1. -1 \in Slots /\ -2 \in Slots
    BY ExtAssumption DEF Slots
  <2>2. At(n, s.disk.ptr, -1) = n.s /\ At(n, s.disk.ptr, -2) = n.d
    BY DEF At
  <2>3. Marked(s) \subseteq Addrs
    BY DEF Marked
  <2> QED BY <1>1, <2>1, <2>2, <2>3 DEF BlocksGood, BlocksOK, Held, Hollow
<1>3. s.disk.ptr \in [Addrs -> Pointers]
  BY DEF Good, Drivers, Drives, Pointers
<1>4. CASE k < Direct
  <2>1. InodeLookup(s, i, k) = n.direct[k]
    BY <1>4, ExtAssumption DEF InodeLookup
  <2>2. k \in 0 .. Direct - 1
    BY <1>4, ExtAssumption
  <2> QED BY <1>1, <2>1, <2>2 DEF InodeRecords
<1>5. CASE ~(k < Direct) /\ k - Direct \in 0 .. APB - 1
  <2>1. InodeLookup(s, i, k) = IF n.s = 0 THEN 0 ELSE s.disk.ptr[n.s][k - Direct]
    BY <1>5 DEF InodeLookup
  <2> PICK x \in 0 .. APB - 1 : x = k - Direct
    BY <1>5
  <2>2. n.s # 0 => s.disk.ptr[n.s] \in Pointers
    BY <1>2, <1>3
  <2>3. n.s # 0 => s.disk.ptr[n.s][x] \in Nat
    BY <2>2 DEF Pointers
  <2> QED BY <2>1, <2>3
<1>6. CASE ~(k < Direct) /\ k - Direct \notin 0 .. APB - 1
  <2> PICK m : m = (k - Direct) - APB
    OBVIOUS
  <2>1. m \in Nat /\ m < APB * APB
    BY <1>6, ExtAssumption
  <2>2. m \div APB \in 0 .. APB - 1
    BY <2>1, Product, ExtAssumption
  <2>3. n.d # 0 => s.disk.ptr[n.d][m \div APB] = 0
    BY <2>2, <1>2 DEF NoPtr
  <2>4. InodeLookup(s, i, k) = 0
    BY <1>6, <2>3 DEF InodeLookup
  <2> QED BY <2>4
<1> QED BY <1>4, <1>5, <1>6

\* The minimum of two numbers is one of them.
LEMMA MinOfTwo == ASSUME NEW a \in Int, NEW b \in Int PROVE Min({a, b}) \in {a, b}
<1>1. \E x \in {a, b} : \A y \in {a, b} : x <= y
  OBVIOUS
<1> QED BY <1>1 DEF Min

\* The search of allocate_new_block finds a block that is free.
Unmarked(s, f) ==
    \/ f = [found |-> FALSE]
    \/ \E x \in 0 .. BPG - 1 : x \notin Bits(s, 0) /\ f = [found |-> TRUE, grp |-> 0, idx |-> x]

\* FindBlock returns a block whose bit is clear, or nothing.
LEMMA Finding ==
    ASSUME NGroups = 1, NEW s, Good(s), BlocksGood(s), NEW i \in Used(s), NEW k \in 0 .. MaxFile - 1,
           NEW ind \in BOOLEAN, NEW f, f = FindBlock(s, i, k, ind)
    PROVE  Unmarked(s, f)
<1> DEFINE prev == k # 0 /\ ~ind
           start == IF prev THEN InodeLookup(s, i, k - 1) ELSE 0
           sgrp == IF prev THEN (k - Off) \div BPG ELSE 0
           igrp == InodeGroup(i)
           after == FreeIn(s, sgrp, start + 1, BPG - 1)
           before == FreeIn(s, sgrp, 0, Min({start - 1, BPG - 1}))
           home == IF s.bgdt[igrp].blocks = 0 THEN {} ELSE FreeIn(s, igrp, 0, BPG - 1)
           there == s.bgdt[sgrp].blocks # 0
           others == { g \in Groups \ {igrp, sgrp} : s.bgdt[g].blocks # 0 }
           rich == { g \in others : FreeIn(s, g, 0, BPG - 1) # {} }
           last == FreeIn(s, Max(others), 0, BPG - 1)
           Found(g, n) == [found |-> TRUE, grp |-> g, idx |-> n]
           Elsewhere == IF rich = {} THEN [found |-> FALSE]
                        ELSE Found(Max(rich), IF last = {} THEN BPG ELSE Min(last))
<1>1. f = IF sgrp = igrp /\ there
          THEN CASE after # {} -> Found(igrp, Min(after))
              [] after = {} /\ before # {} -> Found(igrp, Min(before))
              [] OTHER -> Elsewhere
          ELSE CASE there /\ before # {} -> Found(sgrp, Min(before))
              [] there /\ before = {} /\ after # {} -> Found(sgrp, start)
              [] there /\ before = {} /\ after = {} /\ home # {} -> Found(igrp, start)
              [] ~there /\ home # {} -> Found(igrp, Min(home))
              [] OTHER -> Elsewhere
  BY DEF FindBlock
<1>2. igrp = 0
  BY OneGroup DEF Used
<1>3. sgrp = 0
  <2>1. CASE prev
    <3>1. BPG \in Nat \ {0} /\ k - Off \in 0 .. BPG - 1
      BY <2>1, ExtAssumption
    <3>2. ASSUME NEW n \in Nat \ {0}, NEW x \in 0 .. n - 1 PROVE x \div n = 0
      OBVIOUS
    <3> HIDE DEF prev
    <3> QED BY <2>1, <3>1, <3>2
  <2>2. CASE ~prev
    BY <2>2
  <2> QED BY <2>1, <2>2
<1>4. start \in Nat
  <2>1. CASE prev
    <3>1. k - 1 \in 0 .. MaxFile - 1
      BY <2>1, ExtAssumption
    <3> QED BY <2>1, <3>1, Looking
  <2>2. CASE ~prev
    BY <2>2
  <2> QED BY <2>1, <2>2
<1> HIDE DEF prev, start, sgrp, igrp, there
<1>5. \A x \in after \cup before : x \in 0 .. BPG - 1 /\ x \notin Bits(s, 0)
  <2>1. Min({start - 1, BPG - 1}) \in {start - 1, BPG - 1}
    BY <1>4, MinOfTwo, ExtAssumption
  <2>2. Min({start - 1, BPG - 1}) <= BPG - 1 /\ Min({start - 1, BPG - 1}) \in Int
    <3>1. {start - 1, BPG - 1} \subseteq Int
      BY <1>4, ExtAssumption
    <3>2. \E x \in {start - 1, BPG - 1} : \A y \in {start - 1, BPG - 1} : x <= y
      BY <1>4, ExtAssumption
    <3> QED BY <2>1, <3>1, <3>2 DEF Min
  <2> QED BY <1>3, <1>4, <2>2, ExtAssumption DEF FreeIn
<1>6. rich = {}
  BY <1>2, <1>3, OneGroup
<1>7. Elsewhere = [found |-> FALSE]
  BY <1>6
<1> HIDE DEF Elsewhere, rich, last, others
<1>8. home \subseteq {x \in 0 .. BPG - 1 : x \notin Bits(s, 0)}
  BY <1>2 DEF FreeIn
<1> HIDE DEF after, before, home
<1>9. after \cup before \subseteq Nat
  BY <1>5
<1>10. CASE there
  <2>1. CASE after # {}
    <3>1. f = Found(0, Min(after))
      BY <1>1, <1>2, <1>3, <1>10, <2>1
    <3>2. Min(after) \in after
      BY <1>9, <2>1, LeastOf
    <3> QED BY <3>1, <3>2, <1>5 DEF Unmarked
  <2>2. CASE after = {} /\ before # {}
    <3>1. f = Found(0, Min(before))
      BY <1>1, <1>2, <1>3, <1>10, <2>2
    <3>2. Min(before) \in before
      BY <1>9, <2>2, LeastOf
    <3> QED BY <3>1, <3>2, <1>5 DEF Unmarked
  <2>3. CASE after = {} /\ before = {}
    BY <1>1, <1>2, <1>3, <1>7, <1>10, <2>3 DEF Unmarked
  <2> QED BY <2>1, <2>2, <2>3
<1>11. CASE ~there
  <2>1. home = {}
    BY <1>11, <1>2, <1>3 DEF there, home
  <2>2. f = Elsewhere
    BY <1>1, <1>11, <2>1
  <2> QED BY <1>7, <2>2 DEF Unmarked
<1> QED BY <1>10, <1>11

\* allocate_new_block marks a block that nobody has, or fails.
Takes(s, t) ==
    \/ t = [s |-> s, a |-> 0]
    \/ /\ t.a \in Addrs \ Marked(s) /\ t.a # 0
       /\ Booked(s, t.s, Marked(s) \cup {t.a}, s.sbB - 1)

\* TakeBlock takes a block that was free.
LEMMA Taking ==
    ASSUME NGroups = 1, NEW s, Good(s), BlocksGood(s), NEW i \in Used(s), NEW k \in 0 .. MaxFile - 1,
           NEW ind \in BOOLEAN, NEW t, t = TakeBlock(s, i, k, ind)
    PROVE  Takes(s, t)
<1> PICK f : f = FindBlock(s, i, k, ind)
  OBVIOUS
<1>1. t = Taken(s, f)
  BY DEF TakeBlock
<1>2. Unmarked(s, f)
  BY Finding
<1>3. CASE t = [s |-> s, a |-> 0]
  BY <1>3 DEF Takes
<1>4. CASE t # [s |-> s, a |-> 0]
  <2>0. f # [found |-> FALSE]
    <3> SUFFICES ASSUME f = [found |-> FALSE] PROVE FALSE
      OBVIOUS
    <3>1. ~f.found
      OBVIOUS
    <3> QED BY <1>1, <1>4, <3>1 DEF Taken
  <2>1. t = [s |-> Mark(s, f.grp, f.idx), a |-> Addr(f.grp, f.idx)]
    BY <1>1, <1>4 DEF Taken
  <2>2. PICK x \in 0 .. BPG - 1 : x \notin Bits(s, 0) /\ f = [found |-> TRUE, grp |-> 0, idx |-> x]
    BY <1>2, <2>0 DEF Unmarked
  <2>3. t.a = Addr(0, x) /\ t.s = Mark(s, 0, x)
    BY <2>1, <2>2
  <2>4. t.a \in Addrs /\ IndexOf(t.a) = x /\ t.a = x + Off
    BY <2>2, <2>3, OneGroup
  <2>5. t.a \notin Marked(s)
    BY <2>2, <2>4, MarkedBits
  <2>6. t.a # 0
    <3>1. Addr(0, 0) = 0 + Off /\ Addr(0, 0) \in MetaBlocks
      <4>1. 0 \in 0 .. BPG - 1 /\ 0 \in 0 .. Meta - 1
        BY ExtAssumption
      <4> QED BY <4>1, OneGroup DEF MetaBlocks
    <3>2. MetaBlocks \subseteq Marked(s)
      BY DEF BlocksGood, BlocksOK
    <3>3. t.a # Addr(0, 0)
      BY <2>5, <3>1, <3>2
    <3> QED BY <2>4, <3>1, <3>3, ExtAssumption
  <2>7. Booked(s, t.s, Marked(s) \cup {t.a}, s.sbB - 1)
    BY <2>2, <2>3, Marking
  <2> QED BY <2>4, <2>5, <2>6, <2>7 DEF Takes
<1> QED BY <1>3, <1>4

-----------------------------------------------------------------------------

\* One place of one inode is given a new block; others of its places may be emptied.
Undisturbed(U, N, P, Q, i) ==
    \A j \in U \ {i} : (N[j].s # 0 => Q[N[j].s] = P[N[j].s]) /\ (N[j].d # 0 => Q[N[j].d] = P[N[j].d])

\* n is m with the address p in place z, and perhaps less in others; Q are its
\* pointers.
Filled(m, P, n, Q, z, p) ==
    /\ n \in InodeRecords /\ (n.d # 0 => Q[n.d] = NoPtr)
    /\ \A x \in Slots : At(n, Q, x) = 0 \/ At(n, Q, x) = At(m, P, x) \/ (x = z /\ At(n, Q, x) = p)

\* The order is kept, and blocks other than p that were spare still are.
Entered(M, U, N, P, O, Q, p) ==
    BlocksOK(M, U, O, Q) /\ \A b : Spare(b, M, U, N, P) /\ b # p => Spare(b, M, U, O, Q)

\* Putting a spare block into one place of one inode keeps the order.
LEMMA OneSlot ==
    ASSUME NEW M, NEW U, NEW N, NEW P, Typed(M, U, N, P), BlocksOK(M, U, N, P),
           NEW i \in U, NEW n, NEW Q, NEW O, O = [N EXCEPT ![i] = n], Undisturbed(U, N, P, Q, i),
           NEW p, Spare(p, M, U, N, P), NEW z, Filled(N[i], P, n, Q, z, p)
    PROVE  Entered(M, U, N, P, O, Q, p)
<1>u. \A j \in U \ {i} : (N[j].s # 0 => Q[N[j].s] = P[N[j].s]) /\ (N[j].d # 0 => Q[N[j].d] = P[N[j].d])
  BY DEF Undisturbed
<1>n. n \in InodeRecords /\ (n.d # 0 => Q[n.d] = NoPtr)
  BY DEF Filled
<1>x. \A x \in Slots : At(n, Q, x) = 0 \/ At(n, Q, x) = At(N[i], P, x) \/ At(n, Q, x) = p
  BY DEF Filled
<1>z. \A x \in Slots : At(n, Q, x) = 0 \/ At(n, Q, x) = At(N[i], P, x) \/ (x = z /\ At(n, Q, x) = p)
  BY DEF Filled
<1>0. i \in Inodes /\ U \cup {i} = U
  BY DEF Typed
<1>1. ASSUME NEW x \in Slots, NEW y \in Slots, At(n, Q, x) # 0, At(n, Q, x) = At(n, Q, y) PROVE x = y
  <2>1. CASE At(n, Q, x) = p
    <3>1. At(N[i], P, x) # p /\ At(N[i], P, y) # p
      BY DEF Spare
    <3> QED BY <1>1, <1>z, <2>1, <3>1
  <2>2. CASE At(n, Q, x) # p
    <3>1. At(N[i], P, x) # 0 /\ At(N[i], P, x) = At(N[i], P, y)
      BY <1>1, <1>x, <2>2
    <3> QED BY <3>1 DEF BlocksOK, Apart
  <2> QED BY <2>1, <2>2
<1>2. \A x \in Slots : At(n, Q, x) # 0 =>
               \/ i \in U /\ \E y \in Slots : At(n, Q, x) = At(N[i], P, y)
               \/ Spare(At(n, Q, x), M, U, N, P)
  BY <1>x
<1>3. BlocksOK(M, U \cup {i}, O, Q)
  BY ONLY Typed(M, U, N, P), BlocksOK(M, U, N, P), O = [N EXCEPT ![i] = n],
          <1>u, <1>n, <1>0, <1>1, <1>2, OneInode
<1>4. ASSUME NEW b, Spare(b, M, U, N, P), b # p PROVE Spare(b, M, U, O, Q)
  <2> SUFFICES ASSUME NEW j \in U, NEW x \in Slots PROVE At(O[j], Q, x) # b
    BY <1>4 DEF Spare
  <2>1. CASE j = i
    <3>1. O[j] = n
      BY <2>1 DEF Typed
    <3>2. At(N[i], P, x) # b /\ b # 0
      BY <1>4 DEF Spare
    <3> QED BY <1>4, <1>x, <3>1, <3>2
  <2>2. CASE j # i
    <3>1. O[j] = N[j] /\ At(O[j], Q, x) = At(N[j], P, x)
      BY <2>2, <1>u DEF At, Typed
    <3> QED BY <1>4, <3>1 DEF Spare
  <2> QED BY <2>1, <2>2
<1> QED BY <1>0, <1>3, <1>4 DEF Entered

\* Addresses of blocks of pointers are in range.
LEMMA PtrBlocks ==
    ASSUME NEW M, NEW U, NEW N, NEW P, Typed(M, U, N, P), BlocksOK(M, U, N, P), NEW i \in U
    PROVE  /\ At(N[i], P, -1) = N[i].s /\ At(N[i], P, -2) = N[i].d /\ -1 \in Slots /\ -2 \in Slots
           /\ N[i].s # 0 => N[i].s \in Addrs /\ P[N[i].s] \in Pointers
           /\ N[i].d # 0 => N[i].d \in Addrs /\ P[N[i].d] = NoPtr
<1>1. -1 \in Slots /\ -2 \in Slots
  BY ExtAssumption DEF Slots
<1>2. At(N[i], P, -1) = N[i].s /\ At(N[i], P, -2) = N[i].d
  BY DEF At
<1> QED BY <1>1, <1>2 DEF Typed, BlocksOK, Held, Hollow

\* The pointers of an inode do not point to a block that another one has.
LEMMA OthersPtr ==
    ASSUME NEW M, NEW U, NEW N, NEW P, Typed(M, U, N, P), BlocksOK(M, U, N, P), NEW i \in U,
           NEW p, Spare(p, M, U, N, P) \/ p = N[i].s, p # 0, NEW w, NEW Q, Q = [P EXCEPT ![p] = w]
    PROVE  Undisturbed(U, N, P, Q, i)
<1> SUFFICES ASSUME NEW j \in U \ {i}
             PROVE  /\ N[j].s # 0 => Q[N[j].s] = P[N[j].s]
                    /\ N[j].d # 0 => Q[N[j].d] = P[N[j].d]
  BY DEF Undisturbed
<1>1. N[j].s # p /\ N[j].d # p
  <2>1. CASE Spare(p, M, U, N, P)
    BY <2>1, PtrBlocks DEF Spare
  <2>2. CASE p = N[i].s
    <3>1. /\ At(N[j], P, -1) = N[j].s /\ At(N[j], P, -2) = N[j].d /\ -1 \in Slots /\ -2 \in Slots
          /\ At(N[i], P, -1) = p
      BY <2>2, PtrBlocks
    <3>2. i # j /\ j \in U /\ Apart(U, N, P)
      BY DEF BlocksOK
    <3> QED BY <3>1, <3>2 DEF Apart
  <2> QED BY <2>1, <2>2
<1>2. (N[j].s # 0 => N[j].s \in Addrs) /\ (N[j].d # 0 => N[j].d \in Addrs)
  BY PtrBlocks
<1>3. DOMAIN P = Addrs
  BY DEF Typed
<1> QED BY <1>1, <1>2, <1>3

-----------------------------------------------------------------------------

-----------------------------------------------------------------------------
(* Entering an address in an inode.                                        *)
\* A spare block is a block with an address that is not zero.
LEMMA SpareNat == ASSUME NGroups = 1, NEW M, NEW U, NEW N, NEW P, Typed(M, U, N, P), NEW a, Spare(a, M, U, N, P)
                  PROVE  a \in Addrs /\ a \in Nat \ {0}
  BY OneGroup DEF Typed, Spare

\* An address is put into the inode itself.
LEMMA EnterDirect ==
    ASSUME NGroups = 1, NEW M, NEW U, NEW N, NEW P, Typed(M, U, N, P), BlocksOK(M, U, N, P), NEW i \in U,
           NEW k \in 0 .. Direct - 1, NEW a, Spare(a, M, U, N, P), NEW n, n = [N[i] EXCEPT !.direct[k] = a],
           NEW O, O = [N EXCEPT ![i] = n]
    PROVE  n \in InodeRecords /\ BlocksOK(M, U, O, P)
<1>0. N[i] \in InodeRecords /\ a \in Nat
  BY SpareNat DEF Typed
<1>1. n \in InodeRecords
  BY <1>0 DEF InodeRecords
<1>a. n.s = N[i].s /\ n.d = N[i].d /\ \A x \in 0 .. Direct - 1 : n.direct[x] = IF x = k THEN a ELSE N[i].direct[x]
  BY <1>0 DEF InodeRecords
<1>2. \A x \in Slots : At(n, P, x) = 0 \/ At(n, P, x) = At(N[i], P, x) \/ (x = k /\ At(n, P, x) = a)
  <2> SUFFICES ASSUME NEW x \in Slots PROVE At(n, P, x) = At(N[i], P, x) \/ (x = k /\ At(n, P, x) = a)
    OBVIOUS
  <2>1. x \in Int
    BY ExtAssumption DEF Slots
  <2>2. CASE x \in 0 .. Direct - 1
    BY <2>2, <1>a DEF At
  <2>3. CASE x \notin 0 .. Direct - 1
    <3>1. x = -2 \/ x = -1 \/ (x # -2 /\ x # -1 /\ ~(x < Direct))
      BY <2>3, <2>1, ExtAssumption DEF Slots
    <3> QED BY <3>1, <1>a DEF At
  <2> QED BY <2>2, <2>3
<1>3. n.d # 0 => P[n.d] = NoPtr
  BY <1>a, PtrBlocks
<1>4. Undisturbed(U, N, P, P, i)
  BY DEF Undisturbed
<1>f. Filled(N[i], P, n, P, k, a)
  BY <1>1, <1>2, <1>3 DEF Filled
<1>5. Entered(M, U, N, P, O, P, a)
  BY <1>4, <1>f, OneSlot
<1> QED BY <1>1, <1>5 DEF Entered

\* A new block of pointers, empty, is put below the inode.
Attached(m, n, p) == n = [m EXCEPT !.d = p] \/ (n = [m EXCEPT !.s = p] /\ m.s = 0)

\* The block that is attached was spare: the order is kept.
LEMMA EnterBelow ==
    ASSUME NGroups = 1, NEW M, NEW U, NEW N, NEW P, Typed(M, U, N, P), BlocksOK(M, U, N, P), NEW i \in U,
           NEW p, Spare(p, M, U, N, P), NEW n, NEW O, O = [N EXCEPT ![i] = n], NEW Q, Q = [P EXCEPT ![p] = NoPtr],
           Attached(N[i], n, p)
    PROVE  n \in InodeRecords /\ Entered(M, U, N, P, O, Q, p)
<1>0. N[i] \in InodeRecords /\ p \in Nat /\ p \in Addrs /\ p # 0
  BY SpareNat DEF Typed
<1>1. n \in InodeRecords
  <2>1. CASE n = [N[i] EXCEPT !.d = p]
    BY <2>1, <1>0 DEF InodeRecords
  <2>2. CASE n = [N[i] EXCEPT !.s = p]
    BY <2>2, <1>0 DEF InodeRecords
  <2> QED BY <2>1, <2>2 DEF Attached
<1>a. n.direct = N[i].direct /\ ((n.s = N[i].s /\ n.d = p) \/ (n.s = p /\ n.d = N[i].d /\ N[i].s = 0))
  <2>1. CASE n = [N[i] EXCEPT !.d = p]
    BY <2>1, <1>0 DEF InodeRecords
  <2>2. CASE n = [N[i] EXCEPT !.s = p] /\ N[i].s = 0
    BY <2>2, <1>0 DEF InodeRecords
  <2> QED BY <2>1, <2>2 DEF Attached
<1>q. Q[p] = NoPtr /\ (\A y \in Addrs : y # p => Q[y] = P[y])
  BY <1>0 DEF Typed
<1>p. N[i].s # p /\ N[i].d # p /\ (N[i].s # 0 => N[i].s \in Addrs) /\ (N[i].d # 0 => N[i].d \in Addrs /\ P[N[i].d] = NoPtr)
  BY PtrBlocks DEF Spare
<1> PICK z : z = IF n.d = p THEN -2 ELSE -1
  OBVIOUS
<1>2. \A x \in Slots : At(n, Q, x) = 0 \/ At(n, Q, x) = At(N[i], P, x) \/ (x = z /\ At(n, Q, x) = p)
  <2> SUFFICES ASSUME NEW x \in Slots PROVE At(n, Q, x) = 0 \/ At(n, Q, x) = At(N[i], P, x) \/ (x = z /\ At(n, Q, x) = p)
    OBVIOUS
  <2>1. CASE x = -2 \/ x = -1
    BY <2>1, <1>a, <1>0, <1>p DEF At
  <2>2. CASE x # -2 /\ x # -1 /\ x < Direct
    BY <2>2, <1>a DEF At
  <2>3. CASE x # -2 /\ x # -1 /\ ~(x < Direct)
    <3>1. CASE n.s = p
      <4>1. x - Direct \in 0 .. APB - 1
        BY <2>3, ExtAssumption DEF Slots
      <4>2. At(n, Q, x) = NoPtr[x - Direct]
        BY <3>1, <2>3, <1>q, <1>0 DEF At
      <4> QED BY <4>1, <4>2 DEF NoPtr
    <3>2. CASE n.s # p
      <4>1. n.s = N[i].s
        BY <3>2, <1>a
      <4> QED BY <4>1, <2>3, <1>p, <1>q DEF At
    <3> QED BY <3>1, <3>2
  <2> QED BY <2>1, <2>2, <2>3
<1>3. n.d # 0 => Q[n.d] = NoPtr
  BY <1>a, <1>p, <1>q
<1>4. Undisturbed(U, N, P, Q, i)
  BY <1>0, OthersPtr
<1>f. Filled(N[i], P, n, Q, z, p)
  BY <1>1, <1>2, <1>3 DEF Filled
<1>5. Entered(M, U, N, P, O, Q, p)
  BY <1>4, <1>f, OneSlot
<1> QED BY <1>1, <1>5

\* An address is put into the singly indirect block of the inode.
LEMMA EnterData ==
    ASSUME NGroups = 1, NEW M, NEW U, NEW N, NEW P, Typed(M, U, N, P), BlocksOK(M, U, N, P), NEW i \in U,
           NEW a, Spare(a, M, U, N, P), N[i].s # 0, NEW k \in 0 .. APB - 1,
           NEW Q, Q = [P EXCEPT ![N[i].s] = [P[N[i].s] EXCEPT ![k] = a]]
    PROVE  BlocksOK(M, U, N, Q)
<1> PICK p : p = N[i].s
  OBVIOUS
<1>p. p \in Addrs /\ P[p] \in Pointers /\ (N[i].d # 0 => N[i].d \in Addrs /\ P[N[i].d] = NoPtr)
  BY PtrBlocks
<1>0. N[i] \in InodeRecords
  BY DEF Typed
<1>q. Q[p] = [P[p] EXCEPT ![k] = a] /\ (\A y \in Addrs : y # p => Q[y] = P[y])
  BY <1>p DEF Typed
<1>d. N[i].d # 0 => N[i].d # p
  <2>1. /\ At(N[i], P, -1) = N[i].s /\ At(N[i], P, -2) = N[i].d /\ -1 \in Slots /\ -2 \in Slots
    BY PtrBlocks
  <2>2. Apart(U, N, P)
    BY DEF BlocksOK
  <2> QED BY <2>1, <2>2 DEF Apart
<1>2. \A x \in Slots : At(N[i], Q, x) = 0 \/ At(N[i], Q, x) = At(N[i], P, x) \/ (x = k + Direct /\ At(N[i], Q, x) = a)
  <2> SUFFICES ASSUME NEW x \in Slots
               PROVE  At(N[i], Q, x) = At(N[i], P, x) \/ (x = k + Direct /\ At(N[i], Q, x) = a)
    OBVIOUS
  <2>1. CASE x = -2 \/ x = -1 \/ x < Direct
    BY <2>1 DEF At
  <2>2. CASE x # -2 /\ x # -1 /\ ~(x < Direct)
    <3>1. x - Direct \in 0 .. APB - 1
      BY <2>2, ExtAssumption DEF Slots
    <3> PICK y \in 0 .. APB - 1 : y = x - Direct
      BY <3>1
    <3>2. At(N[i], Q, x) = Q[p][y] /\ At(N[i], P, x) = P[p][y]
      BY <2>2 DEF At
    <3>3. Q[p][y] = IF y = k THEN a ELSE P[p][y]
      <4> PICK f \in Pointers : f = P[p]
        BY <1>p
      <4>1. Q[p] = [f EXCEPT ![k] = a]
        BY <1>q
      <4> QED BY <4>1 DEF Pointers
    <3>4. y = k => x = k + Direct
      BY ExtAssumption DEF Slots
    <3> QED BY <3>2, <3>3, <3>4
  <2> QED BY <2>1, <2>2
<1>3. N[i].d # 0 => Q[N[i].d] = NoPtr
  BY <1>d, <1>p, <1>q
<1>4. Undisturbed(U, N, P, Q, i)
  BY OthersPtr
<1>f. Filled(N[i], P, N[i], Q, k + Direct, a)
  BY <1>0, <1>2, <1>3 DEF Filled
<1>5. N = [N EXCEPT ![i] = N[i]]
  BY DEF Typed
<1>6. Entered(M, U, N, P, N, Q, a)
  BY <1>4, <1>5, <1>f, OneSlot
<1> QED BY <1>6 DEF Entered

-----------------------------------------------------------------------------

\* The driver's blocks are in order, and the superblock counts the free ones.
Fit(s) == Good(s) /\ BlocksGood(s) /\ s.sbB = Cardinality(Addrs \ Marked(s))

\* A spare block of a driver.
SpareIn(a, s) == Spare(a, Marked(s), Used(s), Nodes(s), s.disk.ptr)

\* What adding a block to inode i leaves alone.
Kept(s, t, i) ==
    /\ Used(t) = Used(s) /\ t.sbI = s.sbI /\ t.disk.ents = s.disk.ents /\ t.disk.node = s.disk.node
    /\ DOMAIN t.inodes \in {DOMAIN s.inodes, DOMAIN s.inodes \cup {i}}
    /\ \E n \in InodeRecords : /\ Nodes(t) = [Nodes(s) EXCEPT ![i] = n]
                               /\ n.type = Nodes(s)[i].type /\ n.links = Nodes(s)[i].links
                               /\ n.size = Nodes(s)[i].size

\* An operation that leaves the inodes alone leaves everything else of Kept
\* alone.
LEMMA KeptAll ==
    ASSUME NGroups = 1, NEW s, Good(s), NEW i \in Inodes, NEW t, Nodes(t) = Nodes(s), Used(t) = Used(s),
           t.sbI = s.sbI, t.disk.ents = s.disk.ents, Caches(t) = Caches(s)
    PROVE  Kept(s, t, i)
<1>1. Nodes(s)[i] \in InodeRecords /\ Nodes(t) = [Nodes(s) EXCEPT ![i] = Nodes(s)[i]]
  BY NodeTypes DEF Good
<1> QED BY <1>1 DEF Kept, Caches

\* Kept is transitive.
LEMMA KeptTwice ==
    ASSUME NGroups = 1, NEW s, Good(s), NEW i \in Inodes, NEW t, NEW u, Kept(s, t, i), Kept(t, u, i)
    PROVE  Kept(s, u, i)
<1>1. PICK n \in InodeRecords : /\ Nodes(t) = [Nodes(s) EXCEPT ![i] = n]
                               /\ n.type = Nodes(s)[i].type /\ n.links = Nodes(s)[i].links
                               /\ n.size = Nodes(s)[i].size
  BY DEF Kept
<1>2. PICK m \in InodeRecords : /\ Nodes(u) = [Nodes(t) EXCEPT ![i] = m]
                               /\ m.type = Nodes(t)[i].type /\ m.links = Nodes(t)[i].links
                               /\ m.size = Nodes(t)[i].size
  BY DEF Kept
<1>3. Nodes(s) \in [Inodes -> InodeRecords]
  BY NodeTypes DEF Good
<1>4. Nodes(t)[i] = n
  BY <1>1, <1>3
<1>5. Nodes(u) = [Nodes(s) EXCEPT ![i] = m]
  BY <1>1, <1>2, <1>3
<1>6. m.type = Nodes(s)[i].type /\ m.links = Nodes(s)[i].links /\ m.size = Nodes(s)[i].size
  BY <1>1, <1>2, <1>4
<1>7. DOMAIN u.inodes \in {DOMAIN s.inodes, DOMAIN s.inodes \cup {i}}
  BY DEF Kept
<1> QED BY <1>5, <1>6, <1>7 DEF Kept

\* Marking a block leaves one free block fewer.
LEMMA OneFewer ==
    ASSUME NGroups = 1, NEW M \in SUBSET Addrs, NEW a \in Addrs \ M
    PROVE  /\ Cardinality(Addrs \ M) \in Nat \ {0}
           /\ Cardinality(Addrs \ (M \cup {a})) = Cardinality(Addrs \ M) - 1
<1>1. IsFiniteSet(Addrs \ M)
  <2>1. IsFiniteSet(Addrs) /\ Addrs \ M \subseteq Addrs
    BY OneGroup
  <2> QED BY <2>1, FS_Subset
<1>2. Addrs \ (M \cup {a}) = (Addrs \ M) \ {a} /\ a \in Addrs \ M
  OBVIOUS
<1>3. Cardinality((Addrs \ M) \ {a}) = Cardinality(Addrs \ M) - 1
  BY <1>1, <1>2, FS_RemoveElement
<1>4. Cardinality(Addrs \ M) \in Nat /\ Cardinality(Addrs \ M) # 0
  <2>1. Addrs \ M # {}
    BY <1>2
  <2> QED BY <1>1, <2>1, FS_CardinalityType, FS_EmptySet
<1> QED BY <1>2, <1>3, <1>4

\* Taking a block.
Took(s, t, i) ==
    \/ t = [s |-> s, a |-> 0]
    \/ /\ t.a \in Addrs \ Marked(s) /\ t.a # 0
       /\ Fit(t.s) /\ SpareIn(t.a, t.s) /\ Kept(s, t.s, i) /\ Marked(t.s) = Marked(s) \cup {t.a}
       /\ Nodes(t.s) = Nodes(s) /\ t.s.disk.ptr = s.disk.ptr
       /\ \A b : SpareIn(b, s) => SpareIn(b, t.s) /\ b # t.a

\* The block that TakeBlock takes is spare, and no other becomes so or ceases
\* to be.
LEMMA TakingFit ==
    ASSUME NGroups = 1, NEW s, Fit(s), NEW i \in Used(s), NEW k \in 0 .. MaxFile - 1,
           NEW ind \in BOOLEAN, NEW t, t = TakeBlock(s, i, k, ind)
    PROVE  Took(s, t, i)
<1>1. Good(s) /\ BlocksGood(s)
  BY DEF Fit
<1>2. Takes(s, t)
  BY <1>1, Taking
<1>3. CASE t = [s |-> s, a |-> 0]
  BY <1>3 DEF Took
<1>4. CASE t # [s |-> s, a |-> 0]
  <2>1. t.a \in Addrs \ Marked(s) /\ t.a # 0 /\ Booked(s, t.s, Marked(s) \cup {t.a}, s.sbB - 1)
    BY <1>2, <1>4 DEF Takes
  <2>2. /\ Good(t.s) /\ Marked(t.s) = Marked(s) \cup {t.a} /\ Used(t.s) = Used(s) /\ Nodes(t.s) = Nodes(s)
        /\ t.s.disk.ptr = s.disk.ptr /\ t.s.disk.ents = s.disk.ents /\ t.s.sbB = s.sbB - 1 /\ t.s.sbI = s.sbI
        /\ Caches(t.s) = Caches(s)
    BY <2>1 DEF Booked, View
  <2>3. BlocksGood(t.s)
    BY <1>1, <2>2, MoreMarked DEF BlocksGood
  <2>4. t.s.sbB = Cardinality(Addrs \ Marked(t.s))
    <3>1. Marked(s) \in SUBSET Addrs
      BY DEF Marked
    <3>2. s.sbB = Cardinality(Addrs \ Marked(s))
      BY DEF Fit
    <3> QED BY <2>1, <2>2, <3>1, <3>2, OneFewer
  <2>5. SpareIn(t.a, t.s)
    <3>1. MetaBlocks \subseteq Marked(s) /\ Held(Marked(s), Used(s), Nodes(s), s.disk.ptr)
      BY <1>1 DEF BlocksGood, BlocksOK
    <3> QED BY <2>1, <2>2, <3>1 DEF SpareIn, Spare, Held
  <2>6. \A b : SpareIn(b, s) => SpareIn(b, t.s) /\ b # t.a
    BY <2>1, <2>2 DEF SpareIn, Spare
  <2>7. Kept(s, t.s, i)
    BY <1>1, <2>2, KeptAll DEF Used
  <2> QED BY <2>1, <2>2, <2>3, <2>4, <2>5, <2>6, <2>7 DEF Took, Fit
<1> QED BY <1>3, <1>4

\* A node is set, and at the same time a block of pointers.
Placing(s, t, i, n, Q) ==
    /\ Good(t) /\ Marked(t) = Marked(s) /\ Used(t) = Used(s) /\ Nodes(t) = [Nodes(s) EXCEPT ![i] = n] /\ t.disk.ptr = Q
    /\ t.disk.ents = s.disk.ents /\ t.sbB = s.sbB /\ t.sbI = s.sbI
    /\ DOMAIN t.inodes = DOMAIN s.inodes \cup {i} /\ t.disk.node = s.disk.node

\* Setting the pointers of an inode is a case of Kept.
LEMMA PlacingKept ==
    ASSUME NEW s, NEW t, NEW i, NEW n \in InodeRecords, NEW Q, Placing(s, t, i, n, Q),
           n.type = Nodes(s)[i].type, n.links = Nodes(s)[i].links, n.size = Nodes(s)[i].size
    PROVE  Kept(s, t, i)
  BY DEF Placing, Kept

\* The block of pointers p is now empty and attached to inode i, which is n.
Attaches(s, t, i, n, p) ==
    /\ Fit(t) /\ Kept(s, t, i) /\ Nodes(t)[i] = n /\ t.disk.ptr[p] = NoPtr
    /\ \A b : SpareIn(b, s) /\ b # p => SpareIn(b, t)

\* Attaching a spare block of pointers below an inode.
LEMMA Below ==
    ASSUME NGroups = 1, NEW s, Fit(s), NEW i \in Used(s), NEW p, SpareIn(p, s), NEW m, m = Inode(s, i),
           NEW n, Attached(m, n, p),
           NEW u, u = SetInode(s, i, n), NEW t, t = [u EXCEPT !.disk.ptr[p] = NoPtr]
    PROVE  Attaches(s, t, i, n, p)
<1> DEFINE M == Marked(s) U == Used(s) N == Nodes(s) P == s.disk.ptr
<1>1. Good(s) /\ BlocksOK(M, U, N, P) /\ Typed(M, U, N, P) /\ i \in Inodes /\ N[i] = m /\ m \in InodeRecords
  BY TypedView, NodeAt DEF Fit, BlocksGood, Good, Used
<1>2. Spare(p, M, U, N, P)
  BY DEF SpareIn
<1> PICK O : O = [N EXCEPT ![i] = n]
  OBVIOUS
<1> PICK Q : Q = [P EXCEPT ![p] = NoPtr]
  OBVIOUS
<1>3. n \in InodeRecords /\ Entered(M, U, N, P, O, Q, p)
  <2>1. Attached(N[i], n, p)
    BY <1>1
  <2>2. O = [N EXCEPT ![i] = n] /\ Q = [P EXCEPT ![p] = NoPtr] /\ i \in U
    OBVIOUS
  <2> HIDE DEF M, U, N, P
  <2> QED BY ONLY NGroups = 1, <1>1, <1>2, <2>1, <2>2, EnterBelow
<1>4. /\ Good(u) /\ View(u) = <<M, U, O, P, s.disk.ents, s.sbB, s.sbI>>
      /\ DOMAIN u.inodes = DOMAIN s.inodes \cup {i} /\ u.disk.node = s.disk.node
  BY <1>1, <1>3, SettingInode
<1>5. p \in Addrs /\ NoPtr \in Pointers
  BY <1>1, <1>2, SpareNat DEF NoPtr, Pointers
<1>6. t = [u EXCEPT !.disk.ptr = Q]
  <2>1. u.disk.ptr = P
    BY <1>4 DEF View
  <2> QED BY <2>1, <1>4 DEF Good, Drivers, Drives
<1>7. Q = [u.disk.ptr EXCEPT ![p] = NoPtr]
  BY <1>4 DEF View
<1>8. PtrWritten(u, t, Q)
  BY <1>4, <1>5, <1>6, <1>7, PtrWriting
<1>9. Placing(s, t, i, n, Q)
  BY <1>4, <1>8 DEF PtrWritten, View, Caches, Placing
<1>10. Fit(t) /\ \A b : SpareIn(b, s) /\ b # p => SpareIn(b, t)
  BY <1>3, <1>9 DEF Entered, Placing, Fit, BlocksGood, SpareIn
<1>11. Kept(s, t, i)
  <2>1. n.type = N[i].type /\ n.links = N[i].links /\ n.size = N[i].size
    <3>1. CASE n = [m EXCEPT !.d = p]
      BY <3>1, <1>1 DEF InodeRecords
    <3>2. CASE n = [m EXCEPT !.s = p]
      BY <3>2, <1>1 DEF InodeRecords
    <3> QED BY <3>1, <3>2 DEF Attached
  <2> QED BY <1>3, <1>9, <2>1, PlacingKept
<1>12. Nodes(t)[i] = n /\ t.disk.ptr[p] = NoPtr
  BY <1>1, <1>5, <1>9 DEF Placing, Typed
<1> QED BY <1>10, <1>11, <1>12 DEF Attaches

\* A block of pointers that is not in use yet is written.
LEMMA WritingSpare ==
    ASSUME NGroups = 1, NEW s, Fit(s), NEW i \in Used(s), NEW p, SpareIn(p, s), NEW w \in Pointers,
           NEW t, t = [s EXCEPT !.disk.ptr[p] = w]
    PROVE  Fit(t) /\ Kept(s, t, i) /\ \A b : SpareIn(b, s) => SpareIn(b, t)
<1> DEFINE M == Marked(s) U == Used(s) N == Nodes(s) P == s.disk.ptr
<1>1. Good(s) /\ BlocksOK(M, U, N, P) /\ Typed(M, U, N, P) /\ i \in Inodes
  BY TypedView DEF Fit, BlocksGood, Good, Used
<1>2. Spare(p, M, U, N, P)
  BY DEF SpareIn
<1>3. p \in Addrs
  BY <1>1, <1>2, SpareNat
<1> PICK Q : Q = [P EXCEPT ![p] = w]
  OBVIOUS
<1>4. t = [s EXCEPT !.disk.ptr = Q]
  BY <1>1 DEF Good, Drivers, Drives
<1>5. PtrWritten(s, t, Q)
  BY <1>1, <1>3, <1>4, PtrWriting
<1>6. BlocksOK(M, U, N, Q) /\ \A b : Spare(b, M, U, N, P) => Spare(b, M, U, N, Q)
  <2>1. Q = [P EXCEPT ![p] = w]
    OBVIOUS
  <2> HIDE DEF M, U, N, P
  <2> QED BY ONLY <1>1, <1>2, <2>1, SparePtr
<1>7. /\ Marked(t) = M /\ Used(t) = U /\ Nodes(t) = N /\ t.disk.ptr = Q /\ t.disk.ents = s.disk.ents
      /\ t.sbB = s.sbB /\ t.sbI = s.sbI /\ Caches(t) = Caches(s) /\ Good(t)
  BY <1>5 DEF PtrWritten, View
<1>8. Kept(s, t, i)
  BY <1>1, <1>7, KeptAll
<1> QED BY <1>6, <1>7, <1>8 DEF Fit, BlocksGood, SpareIn

\* An address is entered in the singly indirect block of the inode.
LEMMA WritingData ==
    ASSUME NGroups = 1, NEW s, Fit(s), NEW i \in Used(s), NEW a, SpareIn(a, s), NEW p, p = Nodes(s)[i].s, p # 0,
           NEW k \in 0 .. APB - 1, NEW t, t = [s EXCEPT !.disk.ptr[p][k] = a]
    PROVE  Fit(t) /\ Kept(s, t, i)
<1> DEFINE M == Marked(s) U == Used(s) N == Nodes(s) P == s.disk.ptr
<1>1. Good(s) /\ BlocksOK(M, U, N, P) /\ Typed(M, U, N, P) /\ i \in Inodes
  BY TypedView DEF Fit, BlocksGood, Good, Used
<1>2. Spare(a, M, U, N, P)
  BY DEF SpareIn
<1>3. p \in Addrs /\ P[p] \in Pointers /\ a \in Nat
  BY <1>1, <1>2, SpareNat, PtrBlocks
<1> PICK w : w = [P[p] EXCEPT ![k] = a]
  OBVIOUS
<1>w. w \in Pointers
  BY <1>3 DEF Pointers
<1> PICK Q : Q = [P EXCEPT ![p] = w]
  OBVIOUS
<1>4. t = [s EXCEPT !.disk.ptr = Q]
  BY <1>1 DEF Good, Drivers, Drives
<1>5. PtrWritten(s, t, Q)
  BY <1>1, <1>3, <1>w, <1>4, PtrWriting
<1>6. BlocksOK(M, U, N, Q)
  <2>1. Q = [P EXCEPT ![N[i].s] = [P[N[i].s] EXCEPT ![k] = a]] /\ N[i].s # 0 /\ i \in U /\ k \in 0 .. APB - 1
    OBVIOUS
  <2> HIDE DEF M, U, N, P
  <2> QED BY ONLY NGroups = 1, <1>1, <1>2, <2>1, EnterData
<1>7. /\ Marked(t) = M /\ Used(t) = U /\ Nodes(t) = N /\ t.disk.ptr = Q /\ t.disk.ents = s.disk.ents
      /\ t.sbB = s.sbB /\ t.sbI = s.sbI /\ Caches(t) = Caches(s) /\ Good(t)
  BY <1>5 DEF PtrWritten, View
<1>8. Kept(s, t, i)
  BY <1>1, <1>7, KeptAll
<1> QED BY <1>6, <1>7, <1>8 DEF Fit, BlocksGood

\* An address is entered in the inode itself.
LEMMA WritingDirect ==
    ASSUME NGroups = 1, NEW s, Fit(s), NEW i \in Used(s), NEW a, SpareIn(a, s), NEW k \in 0 .. Direct - 1,
           NEW n, n = [Inode(s, i) EXCEPT !.direct[k] = a], NEW t, t = SetInode(s, i, n)
    PROVE  Fit(t) /\ Kept(s, t, i) /\ Nodes(t)[i].direct[k] = a
<1> DEFINE M == Marked(s) U == Used(s) N == Nodes(s) P == s.disk.ptr
<1>1. /\ Good(s) /\ BlocksOK(M, U, N, P) /\ Typed(M, U, N, P) /\ i \in Inodes /\ N[i] = Inode(s, i)
      /\ N[i] \in InodeRecords
  BY TypedView, NodeAt DEF Fit, BlocksGood, Good, Used
<1>2. Spare(a, M, U, N, P)
  BY DEF SpareIn
<1> PICK O : O = [N EXCEPT ![i] = n]
  OBVIOUS
<1>3. n \in InodeRecords /\ BlocksOK(M, U, O, P)
  <2>1. n = [N[i] EXCEPT !.direct[k] = a]
    BY <1>1
  <2>2. O = [N EXCEPT ![i] = n] /\ i \in U /\ k \in 0 .. Direct - 1
    OBVIOUS
  <2> HIDE DEF M, U, N, P
  <2> QED BY ONLY NGroups = 1, <1>1, <1>2, <2>1, <2>2, EnterDirect
<1>4. /\ Good(t) /\ View(t) = <<M, U, O, P, s.disk.ents, s.sbB, s.sbI>>
      /\ DOMAIN t.inodes = DOMAIN s.inodes \cup {i} /\ t.disk.node = s.disk.node
  <2>1. O = [N EXCEPT ![i] = n] /\ t = SetInode(s, i, n)
    OBVIOUS
  <2> QED BY ONLY NGroups = 1, <1>1, <1>3, <2>1, SettingInode
<1>5. Placing(s, t, i, n, P)
  BY <1>4 DEF View, Placing
<1>6. n.type = N[i].type /\ n.links = N[i].links /\ n.size = N[i].size /\ n.direct[k] = a
  BY <1>1 DEF InodeRecords
<1>7. Kept(s, t, i)
  BY <1>3, <1>5, <1>6, PlacingKept
<1>8. Nodes(t)[i] = n
  BY <1>1, <1>5 DEF Placing, Typed
<1> QED BY <1>3, <1>5, <1>6, <1>7, <1>8 DEF Fit, BlocksGood, Placing

-----------------------------------------------------------------------------

\* inode_set: the block is entered, or is nobody's still.
Set(s, r, i, k, a) ==
    /\ Fit(r.s) /\ Kept(s, r.s, i)
    /\ r.ok = TRUE \/ (r.ok = FALSE /\ k # 0 /\ SpareIn(a, r.s))
    /\ k = 0 => Nodes(r.s)[i].direct[0] = a

\* inode_set fails and changes nothing.
LEMMA SetFails ==
    ASSUME NGroups = 1, NEW s, Fit(s), NEW i \in Used(s), NEW a, SpareIn(a, s), NEW k \in Nat \ {0},
           NEW r, r = [s |-> s, ok |-> FALSE]
    PROVE  Set(s, r, i, k, a)
<1>1. Good(s) /\ i \in Inodes
  BY DEF Fit, Used
<1>2. Kept(s, s, i)
  BY <1>1, KeptAll
<1>3. r.s = s /\ r.ok = FALSE
  BY ONLY r = [s |-> s, ok |-> FALSE]
<1> QED BY <1>2, <1>3 DEF Set

\* An address put into a block of pointers that nobody points to yet:
\* inode_set loses that block, and the order is kept.
LEMMA SettingBelow ==
    ASSUME NGroups = 1, NEW s, Fit(s), NEW i \in Used(s), NEW a, SpareIn(a, s), NEW j \in 0 .. APB - 1,
           NEW u, Took(s, u, i), NEW r,
           r = IF u.a = 0 THEN [s |-> u.s, ok |-> FALSE]
               ELSE [s |-> [[u.s EXCEPT !.disk.ptr[u.a] = NoPtr] EXCEPT !.disk.ptr[u.a][j] = a], ok |-> TRUE],
           NEW k \in Nat \ {0}
    PROVE  Set(s, r, i, k, a)
<1>0. Good(s) /\ i \in Inodes
  BY DEF Fit, Used
<1>1. CASE u = [s |-> s, a |-> 0]
  <2>1. r = [s |-> s, ok |-> FALSE]
    BY <1>1
  <2> QED BY <2>1, SetFails
<1>2. CASE u # [s |-> s, a |-> 0]
  <2>1. u.a # 0 /\ Fit(u.s) /\ SpareIn(u.a, u.s) /\ Kept(s, u.s, i) /\ SpareIn(a, u.s)
    BY <1>2 DEF Took
  <2>2. i \in Used(u.s)
    BY <2>1 DEF Kept
  <2> PICK v : v = [u.s EXCEPT !.disk.ptr[u.a] = NoPtr]
    OBVIOUS
  <2>3. NoPtr \in Pointers /\ a \in Nat
    <3>1. Typed(Marked(s), Used(s), Nodes(s), s.disk.ptr)
      BY <1>0, TypedView DEF Good
    <3> QED BY <3>1, SpareNat DEF NoPtr, Pointers, SpareIn
  <2>4. Fit(v) /\ Kept(u.s, v, i) /\ SpareIn(u.a, v)
    BY <2>1, <2>2, <2>3, WritingSpare
  <2> PICK w : w = [NoPtr EXCEPT ![j] = a]
    OBVIOUS
  <2>5. w \in Pointers
    BY <2>3 DEF Pointers
  <2> PICK t : t = [v EXCEPT !.disk.ptr[u.a] = w]
    OBVIOUS
  <2>6. Fit(t) /\ Kept(v, t, i)
    <3>1. i \in Used(v)
      BY <2>2, <2>4 DEF Kept
    <3>2. t = [v EXCEPT !.disk.ptr[u.a] = w]
      OBVIOUS
    <3> QED BY ONLY NGroups = 1, <2>4, <2>5, <3>1, <3>2, WritingSpare
  <2>7. r = [s |-> t, ok |-> TRUE]
    <3>1. u.a \in Addrs
      <4>1. Typed(Marked(u.s), Used(u.s), Nodes(u.s), u.s.disk.ptr)
        BY <2>1, TypedView DEF Good, Fit
      <4> QED BY <2>1, <4>1, SpareNat DEF SpareIn
    <3>2. u.s \in Drivers /\ v \in Drivers
      BY <2>1, <2>4 DEF Fit, Good
    <3>3. v.disk.ptr[u.a] = NoPtr
      BY <3>1, <3>2 DEF Drivers, Drives
    <3>4. [v EXCEPT !.disk.ptr[u.a][j] = a] = t
      BY <3>2, <3>3 DEF Drivers, Drives
    <3> QED BY <2>1, <3>4
  <2>8. Good(u.s) /\ Good(v)
    BY <2>1, <2>4 DEF Fit
  <2>9. Kept(s, v, i)
    BY <1>0, <2>1, <2>4, KeptTwice
  <2>10. Kept(s, t, i)
    BY <1>0, <2>6, <2>9, KeptTwice
  <2>11. r.s = t
    BY <2>7
  <2>12. r.ok = TRUE
    BY ONLY <2>7
  <2> QED BY <2>6, <2>10, <2>11, <2>12 DEF Set
<1> QED BY <1>1, <1>2

\* A new singly indirect block.
LEMMA SettingSingly ==
    ASSUME NGroups = 1, NEW s, Fit(s), NEW i \in Used(s), NEW a, SpareIn(a, s), NEW k \in Nat \ {0},
           NEW t, Took(s, t, i), t.a # 0, Inode(s, i).s = 0, NEW j \in 0 .. APB - 1,
           NEW n, n = [Inode(s, i) EXCEPT !.s = t.a], NEW u, u = SetInode(t.s, i, n),
           NEW v, v = [u EXCEPT !.disk.ptr[t.a] = NoPtr],
           NEW w, w = [v EXCEPT !.disk.ptr[t.a][j] = a], NEW r, r = [s |-> w, ok |-> TRUE]
    PROVE  Set(s, r, i, k, a)
<1>1. Good(s) /\ i \in Inodes
  BY DEF Fit, Used
<1>2. /\ Fit(t.s) /\ SpareIn(t.a, t.s) /\ Kept(s, t.s, i) /\ SpareIn(a, t.s) /\ a # t.a
      /\ Nodes(t.s) = Nodes(s)
  <2>1. t # [s |-> s, a |-> 0]
    OBVIOUS
  <2> QED BY <2>1 DEF Took
<1>3. i \in Used(t.s) /\ Good(t.s)
  BY <1>2 DEF Kept, Fit
<1> PICK m : m = Inode(t.s, i)
  OBVIOUS
<1>4. m = Inode(s, i) /\ m \in InodeRecords
  BY <1>1, <1>2, <1>3, NodeAt DEF Good
<1>5. Attached(m, n, t.a)
  BY <1>4 DEF Attached
<1>6. /\ Fit(v) /\ Kept(t.s, v, i) /\ Nodes(v)[i] = n /\ v.disk.ptr[t.a] = NoPtr
      /\ \A b : SpareIn(b, t.s) /\ b # t.a => SpareIn(b, v)
  <2>1. m = Inode(t.s, i) /\ u = SetInode(t.s, i, n) /\ v = [u EXCEPT !.disk.ptr[t.a] = NoPtr]
    OBVIOUS
  <2>2. Attaches(t.s, v, i, n, t.a)
    BY ONLY NGroups = 1, <1>2, <1>3, <1>5, <2>1, Below
  <2> QED BY <2>2 DEF Attaches
<1>7. SpareIn(a, v) /\ i \in Used(v) /\ n.s = t.a
  BY <1>2, <1>3, <1>4, <1>6 DEF Kept, InodeRecords
<1>8. Fit(w) /\ Kept(v, w, i)
  <2>1. t.a = Nodes(v)[i].s /\ w = [v EXCEPT !.disk.ptr[t.a][j] = a] /\ t.a # 0
    BY <1>6, <1>7
  <2> QED BY ONLY NGroups = 1, <1>6, <1>7, <2>1, j \in 0 .. APB - 1, WritingData
<1>9. Kept(s, v, i)
  BY ONLY NGroups = 1, <1>1, <1>2, <1>6, KeptTwice
<1>10. Kept(s, w, i)
  BY ONLY NGroups = 1, <1>1, <1>8, <1>9, KeptTwice
<1>11. r.s = w /\ r.ok = TRUE
  BY ONLY r = [s |-> w, ok |-> TRUE]
<1> QED BY <1>8, <1>10, <1>11 DEF Set

\* A new doubly indirect block.
Doubled(s, t, i, v) ==
    /\ Fit(v) /\ Kept(s, v, i) /\ v.disk.ptr[t.a] = NoPtr
    /\ \A b : SpareIn(b, s) => SpareIn(b, v)

\* inode_set attaches a doubly indirect block, empty.
LEMMA Doubling ==
    ASSUME NGroups = 1, NEW s, Fit(s), NEW i \in Used(s),
           NEW t, Took(s, t, i), t.a # 0,
           NEW n, n = [Inode(s, i) EXCEPT !.d = t.a], NEW u, u = SetInode(t.s, i, n),
           NEW v, v = [u EXCEPT !.disk.ptr[t.a] = NoPtr]
    PROVE  Doubled(s, t, i, v)
<1>1. Good(s) /\ i \in Inodes
  BY DEF Fit, Used
<1>2. /\ Fit(t.s) /\ SpareIn(t.a, t.s) /\ Kept(s, t.s, i) /\ Nodes(t.s) = Nodes(s)
      /\ \A b : SpareIn(b, s) => SpareIn(b, t.s) /\ b # t.a
  <2>1. t # [s |-> s, a |-> 0]
    OBVIOUS
  <2> QED BY <2>1 DEF Took
<1>3. i \in Used(t.s) /\ Good(t.s)
  BY <1>2 DEF Kept, Fit
<1> PICK m : m = Inode(t.s, i)
  OBVIOUS
<1>4. m = Inode(s, i) /\ m \in InodeRecords
  BY <1>1, <1>2, <1>3, NodeAt DEF Good
<1>5. Attached(m, n, t.a)
  BY <1>4 DEF Attached
<1>6. /\ Fit(v) /\ Kept(t.s, v, i) /\ Nodes(v)[i] = n /\ v.disk.ptr[t.a] = NoPtr
      /\ \A b : SpareIn(b, t.s) /\ b # t.a => SpareIn(b, v)
  <2>1. m = Inode(t.s, i) /\ u = SetInode(t.s, i, n) /\ v = [u EXCEPT !.disk.ptr[t.a] = NoPtr]
    OBVIOUS
  <2>2. Attaches(t.s, v, i, n, t.a)
    BY ONLY NGroups = 1, <1>2, <1>3, <1>5, <2>1, Below
  <2> QED BY <2>2 DEF Attaches
<1>9. Kept(s, v, i)
  BY <1>1, <1>2, <1>6, KeptTwice
<1> QED BY <1>2, <1>6, <1>9 DEF Doubled

\* What inode_set does after attaching it.
LEMMA SettingDoubly ==
    ASSUME NGroups = 1, NEW s, Fit(s), NEW i \in Used(s), NEW a, SpareIn(a, s), NEW k \in Nat \ {0},
           NEW v, Fit(v), Kept(s, v, i), SpareIn(a, v), NEW r, Set(v, r, i, k, a)
    PROVE  Set(s, r, i, k, a)
<1>1. Good(s) /\ i \in Inodes
  BY DEF Fit, Used
<1>2. Kept(s, r.s, i)
  BY <1>1, KeptTwice DEF Set
<1> QED BY <1>2 DEF Set

\* inode_set enters the block, or leaves it to its caller.
LEMMA InodeSetting ==
    ASSUME NGroups = 1, NEW s, Fit(s), NEW i \in Used(s), NEW k \in 0 .. MaxFile - 1, NEW a, SpareIn(a, s),
           NEW r, r = InodeSet(s, i, k, a)
    PROVE  Set(s, r, i, k, a)
<1> DEFINE n == Inode(s, i)
           k1 == k - Direct
           k2 == k1 - APB
           Put(t, p, j) == [s |-> [t EXCEPT !.disk.ptr[p][j] = a], ok |-> TRUE]
           New(t) == TakeBlock(t, i, 0, TRUE)
           Zeroed(t, p) == [t EXCEPT !.disk.ptr[p] = NoPtr]
           Failed(t) == [s |-> t, ok |-> FALSE]
           NewSingly(t) ==
               IF t.a = 0 THEN Failed(t.s)
               ELSE Put(Zeroed(SetInode(t.s, i, [n EXCEPT !.s = t.a]), t.a), t.a, k1)
           NewBelow(u) ==
               IF u.a = 0 THEN Failed(u.s) ELSE Put(Zeroed(u.s, u.a), u.a, k2 % APB)
           Doubly(t, d) ==
               LET s1 == t.disk.ptr[d][k2 \div APB]
               IN IF s1 # 0 THEN Put(t, s1, k2 % APB) ELSE NewBelow(New(t))
           NewDoubly(t) ==
               IF t.a = 0 THEN Failed(t.s)
               ELSE Doubly(Zeroed(SetInode(t.s, i, [n EXCEPT !.d = t.a]), t.a), t.a)
<1>0. r = CASE k < Direct ->
              [s |-> SetInode(s, i, [n EXCEPT !.direct[k] = a]), ok |-> TRUE]
         [] k1 \in 0 .. APB - 1 -> IF n.s # 0 THEN Put(s, n.s, k1) ELSE NewSingly(New(s))
         [] k2 \in 0 .. APB * APB - 1 -> IF n.d # 0 THEN Doubly(s, n.d) ELSE NewDoubly(New(s))
         [] OTHER -> Failed(s)
  BY DEF InodeSet
<1>1. Good(s) /\ i \in Inodes /\ n \in InodeRecords /\ n = Nodes(s)[i] /\ 0 \in 0 .. MaxFile - 1
  BY NodeAt, ExtAssumption DEF Fit, Used, Good
<1>n. /\ k \in Int /\ Direct \in Nat /\ Direct > 0 /\ APB \in Nat /\ APB > 0
  BY ExtAssumption
<1> HIDE DEF n
<1>2. ASSUME NEW t, Fit(t), i \in Used(t) PROVE Took(t, New(t), i)
  <2> PICK u : u = New(t)
    OBVIOUS
  <2>1. u = TakeBlock(t, i, 0, TRUE) /\ TRUE \in BOOLEAN
    OBVIOUS
  <2>2. Took(t, u, i)
    BY ONLY NGroups = 1, <1>2, <1>1, <2>1, TakingFit
  <2> QED BY <2>2
<1> HIDE DEF New, Put, NewSingly, NewBelow, Doubly, NewDoubly, Zeroed, Failed
<1>3. CASE k < Direct
  <2> PICK m : m = [Inode(s, i) EXCEPT !.direct[k] = a]
    OBVIOUS
  <2> PICK t : t = SetInode(s, i, m)
    OBVIOUS
  <2>a. k1 \notin 0 .. APB - 1 /\ k2 \notin 0 .. APB * APB - 1
    BY <1>3, <1>n
  <2>1. r = [s |-> t, ok |-> TRUE]
    <3>1. r = [s |-> SetInode(s, i, [n EXCEPT !.direct[k] = a]), ok |-> TRUE]
      <4> HIDE DEF k1, k2
      <4> QED BY <1>0, <1>3, <2>a
    <3> QED BY <3>1 DEF n
  <2>2. k \in 0 .. Direct - 1
    BY <1>3, <1>n
  <2>3. Fit(t) /\ Kept(s, t, i) /\ Nodes(t)[i].direct[k] = a
    <3>1. m = [Inode(s, i) EXCEPT !.direct[k] = a] /\ t = SetInode(s, i, m)
      OBVIOUS
    <3> QED BY ONLY NGroups = 1, Fit(s), i \in Used(s), SpareIn(a, s), <2>2, <3>1, WritingDirect
  <2>4. r.s = t /\ r.ok = TRUE
    BY ONLY <2>1
  <2> QED BY <2>3, <2>4 DEF Set
<1>4. CASE ~(k < Direct) /\ k1 \in 0 .. APB - 1
  <2>a. k2 \notin 0 .. APB * APB - 1
    BY <1>4, <1>n
  <2>1. r = IF n.s # 0 THEN Put(s, n.s, k1) ELSE NewSingly(New(s))
    <3> HIDE DEF k1, k2
    <3> QED BY <1>0, <1>4, <2>a
  <2> PICK j \in 0 .. APB - 1 : j = k1
    BY <1>4
  <2>k. k \in Nat \ {0}
    BY <1>4, <1>n
  <2>2. CASE n.s # 0
    <3> PICK p : p = n.s
      OBVIOUS
    <3> PICK t : t = [s EXCEPT !.disk.ptr[p][j] = a]
      OBVIOUS
    <3>1. r = [s |-> t, ok |-> TRUE]
      BY <2>1, <2>2 DEF Put
    <3>2. p = Nodes(s)[i].s /\ p # 0 /\ t = [s EXCEPT !.disk.ptr[p][j] = a]
      BY <1>1, <2>2
    <3>3. Fit(t) /\ Kept(s, t, i)
      BY ONLY NGroups = 1, Fit(s), i \in Used(s), SpareIn(a, s), j \in 0 .. APB - 1, <3>2, WritingData
    <3>4. r.s = t /\ r.ok = TRUE
      BY ONLY <3>1
    <3> QED BY <2>k, <3>3, <3>4 DEF Set
  <2>3. CASE n.s = 0
    <3> PICK t : t = New(s)
      OBVIOUS
    <3>t. Took(s, t, i)
      BY <1>2
    <3>1. r = NewSingly(t)
      BY <2>1, <2>3
    <3>2. CASE t.a = 0
      <4>1. r = [s |-> s, ok |-> FALSE]
        <5>1. t = [s |-> s, a |-> 0]
          BY ONLY <3>2, <3>t DEF Took
        <5>2. t.s = s
          BY ONLY <5>1
        <5> QED BY <3>1, <3>2, <5>2 DEF NewSingly, Failed
      <4> QED BY <2>k, <4>1, SetFails
    <3>3. CASE t.a # 0
      <4> PICK m : m = [Inode(s, i) EXCEPT !.s = t.a]
        OBVIOUS
      <4> PICK u : u = SetInode(t.s, i, m)
        OBVIOUS
      <4> PICK v : v = [u EXCEPT !.disk.ptr[t.a] = NoPtr]
        OBVIOUS
      <4> PICK w : w = [v EXCEPT !.disk.ptr[t.a][j] = a]
        OBVIOUS
      <4>1. r = [s |-> w, ok |-> TRUE]
        BY <3>1, <3>3 DEF n, NewSingly, Put, Zeroed
      <4>2. /\ m = [Inode(s, i) EXCEPT !.s = t.a] /\ u = SetInode(t.s, i, m)
            /\ v = [u EXCEPT !.disk.ptr[t.a] = NoPtr] /\ w = [v EXCEPT !.disk.ptr[t.a][j] = a]
            /\ Inode(s, i).s = 0
        BY <2>3 DEF n
      <4> QED BY ONLY NGroups = 1, Fit(s), i \in Used(s), SpareIn(a, s), j \in 0 .. APB - 1, <2>k, <3>t, <3>3,
                      <4>1, <4>2, SettingSingly
    <3> QED BY <3>2, <3>3
  <2> QED BY <2>2, <2>3
<1>5. CASE ~(k < Direct) /\ k1 \notin 0 .. APB - 1
  <2>k. k \in Nat \ {0}
    BY <1>5, <1>n
  <2>1. k2 \in 0 .. APB * APB - 1
    BY <1>5, <1>n, ExtAssumption
  <2>2. r = IF n.d # 0 THEN Doubly(s, n.d) ELSE NewDoubly(New(s))
    <3> HIDE DEF k1, k2
    <3> QED BY <1>0, <1>5, <2>1
  <2>3. k2 \div APB \in 0 .. APB - 1 /\ k2 % APB \in 0 .. APB - 1
    <3> PICK x : x = k2
      OBVIOUS
    <3>1. x \in Nat /\ x < APB * APB /\ APB \in Nat \ {0}
      BY <2>1, <1>n
    <3> QED BY ONLY <3>1, x = k2, Product
  <2> PICK j \in 0 .. APB - 1 : j = k2 % APB
    BY <2>3
  <2> PICK q \in 0 .. APB - 1 : q = k2 \div APB
    BY <2>3
  <2>4. ASSUME NEW t, Fit(t), Kept(s, t, i), SpareIn(a, t), NEW d, t.disk.ptr[d] = NoPtr, r = Doubly(t, d)
        PROVE  Set(s, r, i, k, a)
    <3>1. t.disk.ptr[d][q] = 0
      BY <2>4 DEF NoPtr
    <3> PICK u : u = New(t)
      OBVIOUS
    <3>2. r = IF u.a = 0 THEN [s |-> u.s, ok |-> FALSE]
               ELSE [s |-> [[u.s EXCEPT !.disk.ptr[u.a] = NoPtr] EXCEPT !.disk.ptr[u.a][j] = a], ok |-> TRUE]
      <4>1. t.disk.ptr[d][k2 \div APB] = 0
        BY <3>1
      <4> HIDE DEF k1, k2
      <4> QED BY <2>4, <4>1 DEF Doubly, NewBelow, Put, Zeroed, Failed
    <3>3. i \in Used(t) /\ Took(t, u, i)
      BY <1>2, <2>4 DEF Kept
    <3>4. Set(t, r, i, k, a)
      BY ONLY NGroups = 1, <2>4, <3>2, <3>3, <2>k, j \in 0 .. APB - 1, SettingBelow
    <3> QED BY <2>4, <2>k, <3>4, SettingDoubly
  <2>5. CASE n.d # 0
    <3>1. Kept(s, s, i)
      BY <1>1, KeptAll
    <3>2. s.disk.ptr[n.d] = NoPtr
      BY <1>1, <2>5 DEF Fit, BlocksGood, BlocksOK, Hollow
    <3>3. r = Doubly(s, n.d)
      BY <2>2, <2>5
    <3> HIDE DEF Doubly
    <3> QED BY <3>1, <3>2, <3>3, <2>4
  <2>6. CASE n.d = 0
    <3> PICK t : t = New(s)
      OBVIOUS
    <3>t. Took(s, t, i)
      BY <1>2
    <3>1. r = NewDoubly(t)
      BY <2>2, <2>6
    <3>2. CASE t.a = 0
      <4>1. r = [s |-> s, ok |-> FALSE]
        <5>1. t = [s |-> s, a |-> 0]
          BY ONLY <3>2, <3>t DEF Took
        <5>2. t.s = s
          BY ONLY <5>1
        <5> QED BY <3>1, <3>2, <5>2 DEF NewDoubly, Failed
      <4> QED BY <2>k, <4>1, SetFails
    <3>3. CASE t.a # 0
      <4> PICK m : m = [Inode(s, i) EXCEPT !.d = t.a]
        OBVIOUS
      <4> PICK u : u = SetInode(t.s, i, m)
        OBVIOUS
      <4> PICK v : v = [u EXCEPT !.disk.ptr[t.a] = NoPtr]
        OBVIOUS
      <4>1. r = Doubly(v, t.a)
        BY <3>1, <3>3 DEF n, NewDoubly, Zeroed
      <4>2. /\ m = [Inode(s, i) EXCEPT !.d = t.a] /\ u = SetInode(t.s, i, m)
            /\ v = [u EXCEPT !.disk.ptr[t.a] = NoPtr]
        OBVIOUS
      <4>3. Doubled(s, t, i, v)
        BY ONLY NGroups = 1, Fit(s), i \in Used(s), <3>t, <3>3, <4>2, Doubling
      <4> HIDE DEF Doubly
      <4> QED BY <4>1, <4>3, <2>4 DEF Doubled
    <3> QED BY <3>2, <3>3
  <2> QED BY <2>5, <2>6
<1> QED BY <1>3, <1>4, <1>5

\* allocate_new_block gives back the block that inode_set did not enter.
LEMMA Returning ==
    ASSUME NGroups = 1, NEW s, Fit(s), NEW i \in Used(s), NEW a, SpareIn(a, s),
           NEW t, t = Unmark(s, GroupOf(a), IndexOf(a))
    PROVE  Fit(t) /\ Kept(s, t, i)
<1>1. Good(s) /\ BlocksGood(s) /\ i \in Inodes /\ s.sbB = Cardinality(Addrs \ Marked(s))
  BY DEF Fit, Used
<1>2. a \in Marked(s) \ MetaBlocks /\ a \in Addrs /\ \A j \in Used(s), x \in Slots : At(Nodes(s)[j], s.disk.ptr, x) # a
  BY DEF SpareIn, Spare, Marked
<1>3. Booked(s, t, Marked(s) \ {a}, s.sbB + 1)
  BY <1>1, <1>2, Unmarking
<1>4. /\ Good(t) /\ Marked(t) = Marked(s) \ {a} /\ Used(t) = Used(s) /\ Nodes(t) = Nodes(s) /\ t.disk.ptr = s.disk.ptr
      /\ t.disk.ents = s.disk.ents /\ t.sbB = s.sbB + 1 /\ t.sbI = s.sbI /\ Caches(t) = Caches(s)
  BY <1>3 DEF Booked, View
<1>5. BlocksGood(t)
  BY <1>1, <1>2, <1>4 DEF BlocksGood, BlocksOK, Held
<1>6. t.sbB = Cardinality(Addrs \ Marked(t))
  <2>1. Marked(t) \in SUBSET Addrs /\ a \in Addrs \ Marked(t) /\ Marked(s) = Marked(t) \cup {a}
    BY <1>2, <1>4 DEF Marked
  <2>2. Cardinality(Addrs \ Marked(t)) \in Nat \ {0} /\ Cardinality(Addrs \ Marked(s)) = Cardinality(Addrs \ Marked(t)) - 1
    BY <2>1, OneFewer
  <2> QED BY <1>1, <1>4, <2>2
<1>7. Kept(s, t, i)
  BY <1>1, <1>4, KeptAll
<1> QED BY <1>4, <1>5, <1>6, <1>7 DEF Fit

\* allocate_new_block
Allocated(s, q, i, k) ==
    /\ Fit(q.s) /\ Kept(s, q.s, i)
    /\ q.a = 0 \/ (q.a \in Addrs /\ q.a # 0)
    /\ k = 0 => ((q.a = 0 /\ q.s = s) \/ (q.a # 0 /\ Nodes(q.s)[i].direct[0] = q.a))

\* allocate_new_block keeps the blocks in order, whether it succeeds or not.
LEMMA Allocating ==
    ASSUME NGroups = 1, NEW s, Fit(s), NEW i \in Used(s), NEW k \in 0 .. MaxFile - 1,
           NEW q, q = AllocateNewBlock(s, i, k)
    PROVE  Allocated(s, q, i, k)
<1>1. Good(s) /\ i \in Inodes
  BY DEF Fit, Used
<1> PICK t : t = TakeBlock(s, i, k, FALSE)
  OBVIOUS
<1>2. Took(s, t, i)
  <2>1. FALSE \in BOOLEAN /\ t = TakeBlock(s, i, k, FALSE)
    OBVIOUS
  <2> QED BY ONLY NGroups = 1, Fit(s), i \in Used(s), k \in 0 .. MaxFile - 1, <2>1, TakingFit
<1>3. CASE t = [s |-> s, a |-> 0]
  <2>1. q = t
    <3>1. t.a = 0
      BY ONLY <1>3
    <3> QED BY ONLY <3>1, t = TakeBlock(s, i, k, FALSE), q = AllocateNewBlock(s, i, k) DEF AllocateNewBlock
  <2>2. Kept(s, s, i)
    BY <1>1, KeptAll
  <2>3. q.s = s /\ q.a = 0
    BY <1>3, <2>1
  <2> QED BY <2>2, <2>3 DEF Allocated
<1>4. CASE t # [s |-> s, a |-> 0]
  <2>1. t.a \in Addrs /\ t.a # 0 /\ Fit(t.s) /\ SpareIn(t.a, t.s) /\ Kept(s, t.s, i)
    BY <1>2, <1>4 DEF Took
  <2>2. i \in Used(t.s)
    BY <2>1 DEF Kept
  <2> PICK r : r = InodeSet(t.s, i, k, t.a)
    OBVIOUS
  <2>3. Set(t.s, r, i, k, t.a)
    BY <2>1, <2>2, InodeSetting
  <2>4. q = IF r.ok THEN [s |-> r.s, a |-> t.a]
            ELSE [s |-> Unmark(r.s, GroupOf(t.a), IndexOf(t.a)), a |-> 0]
    BY <2>1 DEF AllocateNewBlock
  <2>5. Fit(r.s) /\ Kept(s, r.s, i)
    BY <1>1, <2>1, <2>3, KeptTwice DEF Set
  <2>6. CASE r.ok = TRUE
    <3>1. q = [s |-> r.s, a |-> t.a]
      BY <2>4, <2>6
    <3>2. q.s = r.s /\ q.a = t.a
      BY ONLY <3>1
    <3> QED BY <2>1, <2>3, <2>5, <3>2 DEF Allocated, Set
  <2>7. CASE r.ok = FALSE /\ k # 0 /\ SpareIn(t.a, r.s)
    <3> PICK u : u = Unmark(r.s, GroupOf(t.a), IndexOf(t.a))
      OBVIOUS
    <3>1. q = [s |-> u, a |-> 0]
      BY <2>4, <2>7
    <3>2. i \in Used(r.s)
      BY <2>2, <2>3 DEF Set, Kept
    <3>3. Fit(u) /\ Kept(r.s, u, i)
      BY <2>5, <2>7, <3>2, Returning
    <3>4. Kept(s, u, i)
      BY <1>1, <2>5, <3>3, KeptTwice
    <3>5. q.s = u /\ q.a = 0
      BY ONLY <3>1
    <3> QED BY <2>7, <3>3, <3>4, <3>5 DEF Allocated
  <2> QED BY <2>3, <2>6, <2>7 DEF Set
<1> QED BY <1>3, <1>4

-----------------------------------------------------------------------------

-----------------------------------------------------------------------------
(* Truncation.                                                             *)
\* Clearing bits frees the blocks whose bits were set.
LEMMA MoreFree ==
    ASSUME NGroups = 1, NEW M \in SUBSET Addrs, NEW A \in SUBSET Addrs
    PROVE  Cardinality(Addrs \ (M \ A)) = Cardinality(Addrs \ M) + Cardinality(A \cap M)
<1>1. IsFiniteSet(Addrs \ M) /\ IsFiniteSet(A \cap M)
  <2>1. IsFiniteSet(Addrs) /\ Addrs \ M \subseteq Addrs /\ A \cap M \subseteq Addrs
    BY OneGroup
  <2> QED BY <2>1, FS_Subset
<1>2. Addrs \ (M \ A) = (Addrs \ M) \cup (A \cap M) /\ (Addrs \ M) \cap (A \cap M) = {}
  OBVIOUS
<1>3. Cardinality((Addrs \ M) \cup (A \cap M)) =
        Cardinality(Addrs \ M) + Cardinality(A \cap M) - Cardinality((Addrs \ M) \cap (A \cap M))
  BY <1>1, FS_Union
<1>4. Cardinality({}) = 0 /\ Cardinality(Addrs \ M) \in Nat /\ Cardinality(A \cap M) \in Nat
  BY <1>1, FS_EmptySet, FS_CardinalityType
<1>5. Cardinality(Addrs \ (M \ A)) = Cardinality(Addrs \ M) + Cardinality(A \cap M) - 0
  <2>1. Cardinality((Addrs \ M) \cap (A \cap M)) = 0
    BY <1>2, <1>4
  <2> QED BY <1>2, <1>3, <2>1
<1> QED BY <1>4, <1>5

\* Places of one inode are emptied.
Wiped(m, n, P) == n \in InodeRecords /\ n.d \in {0, m.d} /\ \A x \in Slots : At(n, P, x) \in {0, At(m, P, x)}

\* Emptying places keeps the order.
LEMMA Wiping ==
    ASSUME NEW M, NEW U, NEW N, NEW P, Typed(M, U, N, P), BlocksOK(M, U, N, P), NEW i \in U,
           NEW n, Wiped(N[i], n, P), NEW O, O = [N EXCEPT ![i] = n]
    PROVE  BlocksOK(M, U, O, P)
<1>1. n \in InodeRecords /\ i \in Inodes /\ U \cup {i} = U /\ n.d \in {0, N[i].d}
  BY DEF Wiped, Typed
<1>2. \A x \in Slots : At(n, P, x) \in {0, At(N[i], P, x)}
  BY DEF Wiped
<1>3. \A x, y \in Slots : At(n, P, x) # 0 /\ At(n, P, x) = At(n, P, y) => x = y
  <2> SUFFICES ASSUME NEW x \in Slots, NEW y \in Slots, At(n, P, x) # 0, At(n, P, x) = At(n, P, y) PROVE x = y
    OBVIOUS
  <2>1. At(N[i], P, x) # 0 /\ At(N[i], P, x) = At(N[i], P, y)
    BY <1>2
  <2> QED BY <2>1 DEF BlocksOK, Apart
<1>4. \A x \in Slots : At(n, P, x) # 0 =>
               \/ i \in U /\ \E y \in Slots : At(n, P, x) = At(N[i], P, y)
               \/ Spare(At(n, P, x), M, U, N, P)
  BY <1>2
<1>5. n.d # 0 => P[n.d] = NoPtr
  BY <1>1 DEF BlocksOK, Hollow
<1>6. \A j \in U \ {i} : /\ N[j].s # 0 => P[N[j].s] = P[N[j].s]
                         /\ N[j].d # 0 => P[N[j].d] = P[N[j].d]
  OBVIOUS
<1>7. BlocksOK(M, U \cup {i}, O, P)
  BY ONLY Typed(M, U, N, P), BlocksOK(M, U, N, P), O = [N EXCEPT ![i] = n],
          <1>1, <1>3, <1>4, <1>5, <1>6, OneInode
<1> QED BY <1>1, <1>7

\* The places that are emptied hold the blocks that are freed.
Vacated(m, n, P, A) == \A a \in A : a # 0 /\ \E x \in Slots : At(m, P, x) = a /\ At(n, P, x) = 0

\* The blocks that the emptied places held can be freed.
LEMMA Vacating ==
    ASSUME NEW M, NEW U, NEW N, NEW P, Typed(M, U, N, P), BlocksOK(M, U, N, P), NEW i \in U,
           NEW n, Wiped(N[i], n, P), NEW O, O = [N EXCEPT ![i] = n], NEW A, Vacated(N[i], n, P, A)
    PROVE  BlocksOK(M \ A, U, O, P) /\ A \subseteq M
<1>1. BlocksOK(M, U, O, P)
  BY Wiping
<1>2. \A a \in A : a # 0 /\ a \in M \ MetaBlocks /\ \E x \in Slots : At(N[i], P, x) = a /\ At(n, P, x) = 0
  BY DEF Vacated, BlocksOK, Held
<1>3. O[i] = n /\ \A j \in U \ {i} : O[j] = N[j]
  BY DEF Typed
<1>4. ASSUME NEW j \in U, NEW y \in Slots, At(O[j], P, y) # 0 PROVE At(O[j], P, y) \notin A
  <2> SUFFICES ASSUME At(O[j], P, y) \in A PROVE FALSE
    OBVIOUS
  <2>1. PICK x \in Slots : At(N[i], P, x) = At(O[j], P, y) /\ At(n, P, x) = 0
    BY <1>2
  <2>2. At(O[j], P, y) = At(N[j], P, y)
    <3>1. CASE j = i
      BY <1>3, <1>4, <3>1 DEF Wiped
    <3>2. CASE j # i
      BY <1>3, <3>2
    <3> QED BY <3>1, <3>2
  <2>3. At(N[i], P, x) # 0 /\ At(N[i], P, x) = At(N[j], P, y)
    BY <1>4, <2>1, <2>2
  <2>4. i = j /\ x = y
    BY <2>3 DEF BlocksOK, Apart
  <2> QED BY <1>3, <1>4, <2>1, <2>4
<1>5. MetaBlocks \subseteq M \ A
  BY <1>2 DEF BlocksOK
<1>6. \A j \in U, y \in Slots : At(O[j], P, y) # 0 => At(O[j], P, y) \in M \ A
  BY <1>1, <1>4 DEF BlocksOK, Held
<1>7. BlocksOK(M \ A, U, O, P)
  BY <1>1, <1>5, <1>6, LessMarked
<1> QED BY <1>2, <1>7

\* Truncation of a file: its inode keeps its kind and its links.
Emptied(s, t, i) ==
    /\ Fit(t) /\ Used(t) = Used(s) /\ t.sbI = s.sbI /\ t.disk.ents = s.disk.ents /\ t.disk.node = s.disk.node
    /\ DOMAIN t.inodes \in {DOMAIN s.inodes, DOMAIN s.inodes \cup {i}}
    /\ \E n \in InodeRecords : /\ Nodes(t) = [Nodes(s) EXCEPT ![i] = n]
                               /\ n.type = Nodes(s)[i].type /\ n.links = Nodes(s)[i].links
                               /\ n.size = 0

\* Truncate empties the inode and frees its blocks.
LEMMA Truncating ==
    ASSUME NGroups = 1, NEW s, Fit(s), NEW i \in Used(s), NEW t, t = Truncate(s, i, Inode(s, i).size)
    PROVE  Emptied(s, t, i)
<1> DEFINE M == Marked(s) U == Used(s) N == Nodes(s) P == s.disk.ptr
<1>1. /\ Good(s) /\ BlocksOK(M, U, N, P) /\ Typed(M, U, N, P) /\ i \in Inodes
      /\ Inode(s, i) = N[i] /\ N[i] \in InodeRecords
  BY TypedView, NodeAt DEF Fit, BlocksGood, Good, Used
<1> PICK n : n = Inode(s, i)
  OBVIOUS
<1>2. CASE n.size = 0
  <2>1. t = s
    BY <1>2 DEF Truncate
  <2>2. N = [N EXCEPT ![i] = n]
    BY <1>1 DEF Typed
  <2> QED BY <1>1, <1>2, <2>1, <2>2 DEF Emptied
<1>3. CASE n.size # 0
  <2> DEFINE full == Full(n.direct, Direct)
             fullS == n.s # 0 /\ Full(P[n.s], APB)
             wiped == [n EXCEPT !.size = 0,
            !.direct = [k \in 0 .. Direct - 1 |->
                IF \A l \in 0 .. k - 1 : n.direct[l] # 0 THEN 0 ELSE n.direct[k]],
            !.s = IF full THEN 0 ELSE @,
            !.d = IF full /\ n.s # 0 /\ Full(s.disk.ptr[n.s], APB) THEN 0 ELSE @]
  <2> PICK A : A = TruncatedBlocks(s, n)
    OBVIOUS
  <2>1. t = SetInode(DeallocateBlocks(s, A), i, wiped)
    BY <1>3 DEF Truncate
  <2>2. /\ wiped \in InodeRecords /\ wiped.size = 0 /\ wiped.type = n.type /\ wiped.links = n.links
        /\ wiped.s = (IF full THEN 0 ELSE n.s) /\ wiped.d = (IF full /\ fullS THEN 0 ELSE n.d)
        /\ \A k \in 0 .. Direct - 1 : wiped.direct[k] = IF \A l \in 0 .. k - 1 : n.direct[l] # 0 THEN 0 ELSE n.direct[k]
    <3> PICK f : f = [k \in 0 .. Direct - 1 |->
                IF \A l \in 0 .. k - 1 : n.direct[l] # 0 THEN 0 ELSE n.direct[k]]
      OBVIOUS
    <3>1. f \in [0 .. Direct - 1 -> Nat]
      BY <1>1 DEF InodeRecords
    <3> PICK s1 : s1 = IF full THEN 0 ELSE n.s
      OBVIOUS
    <3> PICK d1 : d1 = IF full /\ fullS THEN 0 ELSE n.d
      OBVIOUS
    <3>2. s1 \in Nat /\ d1 \in Nat
      BY <1>1 DEF InodeRecords
    <3>3. wiped = [n EXCEPT !.size = 0, !.direct = f, !.s = s1, !.d = d1]
      BY <1>1 DEF InodeRecords
    <3> HIDE DEF wiped, full, fullS
    <3>4. wiped \in InodeRecords /\ wiped.direct = f /\ wiped.s = s1 /\ wiped.d = d1
      BY <1>1, <3>1, <3>2, <3>3 DEF InodeRecords
    <3>5. wiped.size = 0 /\ wiped.type = n.type /\ wiped.links = n.links
      BY <1>1, <3>3 DEF InodeRecords
    <3> QED BY <3>4, <3>5
  <2> HIDE DEF wiped
  <2>3. Wiped(n, wiped, P)
    <3>1. wiped.d \in {0, n.d}
      BY <2>2
    <3>2. ASSUME NEW x \in Slots PROVE At(wiped, P, x) \in {0, At(n, P, x)}
      <4>1. CASE x = -2 \/ x = -1
        BY <2>2, <4>1 DEF At
      <4>2. CASE x # -2 /\ x # -1 /\ x < Direct
        <5>1. x \in 0 .. Direct - 1
          BY <4>2, ExtAssumption DEF Slots
        <5>2. At(wiped, P, x) = wiped.direct[x] /\ At(n, P, x) = n.direct[x]
          BY <4>2 DEF At
        <5> QED BY <2>2, <5>1, <5>2
      <4>3. CASE x # -2 /\ x # -1 /\ ~(x < Direct)
        BY <2>2, <4>3 DEF At
      <4> QED BY <4>1, <4>2, <4>3
    <3> QED BY <2>2, <3>1, <3>2 DEF Wiped
  <2>4. Vacated(n, wiped, P, A)
    <3>1. ASSUME NEW f, NEW m, NEW a \in Run(f, m) PROVE \E k \in 0 .. m - 1 : a = f[k] /\ \A l \in 0 .. k : f[l] # 0
      BY DEF Run
    <3> SUFFICES ASSUME NEW a \in A PROVE a # 0 /\ \E x \in Slots : At(n, P, x) = a /\ At(wiped, P, x) = 0
      BY DEF Vacated
    <3>s. -1 \in Slots /\ -2 \in Slots /\ 0 .. Direct + APB - 1 \subseteq Slots
      BY ExtAssumption DEF Slots
    <3>d. n.d # 0 => Run(P[n.d], APB) = {}
      <4> SUFFICES ASSUME n.d # 0 PROVE \A k \in 0 .. APB - 1 : ~ \A l \in 0 .. k : P[n.d][l] # 0
        BY DEF Run
      <4>1. P[n.d] = NoPtr
        BY <1>1 DEF BlocksOK, Hollow
      <4>2. \A k \in 0 .. APB - 1 : 0 \in 0 .. k /\ NoPtr[0] = 0
        BY ExtAssumption DEF NoPtr
      <4> QED BY <4>1, <4>2
    <3>2. \/ a \in Run(n.direct, Direct)
          \/ full /\ n.s # 0 /\ a \in Run(P[n.s], APB)
          \/ full /\ n.s # 0 /\ a = n.s
          \/ full /\ fullS /\ n.d # 0 /\ a = n.d
      BY <3>d DEF TruncatedBlocks
    <3>3. CASE a \in Run(n.direct, Direct)
      <4>1. PICK k \in 0 .. Direct - 1 : a = n.direct[k] /\ \A l \in 0 .. k : n.direct[l] # 0
        BY <3>1, <3>3
      <4>2. wiped.direct[k] = 0
        BY <2>2, <4>1
      <4>3. At(n, P, k) = n.direct[k] /\ At(wiped, P, k) = wiped.direct[k] /\ k \in Slots
        BY <3>s, ExtAssumption DEF At
      <4> QED BY <4>1, <4>2, <4>3
    <3>4. CASE full /\ n.s # 0 /\ a \in Run(P[n.s], APB)
      <4>1. PICK k \in 0 .. APB - 1 : a = P[n.s][k] /\ \A l \in 0 .. k : P[n.s][l] # 0
        BY <3>1, <3>4
      <4> PICK x : x = Direct + k
        OBVIOUS
      <4>2. x \in Slots /\ x # -1 /\ x # -2 /\ ~(x < Direct) /\ x - Direct = k
        BY ExtAssumption DEF Slots
      <4>3. At(n, P, x) = P[n.s][k] /\ At(wiped, P, x) = 0
        BY <2>2, <3>4, <4>2 DEF At
      <4> QED BY <4>1, <4>2, <4>3
    <3>5. CASE full /\ n.s # 0 /\ a = n.s
      BY <2>2, <3>5, <3>s DEF At
    <3>6. CASE full /\ fullS /\ n.d # 0 /\ a = n.d
      BY <2>2, <3>6, <3>s DEF At
    <3> QED BY <3>2, <3>3, <3>4, <3>5, <3>6
  <2> HIDE DEF full, fullS
  <2> PICK O : O = [N EXCEPT ![i] = wiped]
    OBVIOUS
  <2>5. BlocksOK(M \ A, U, O, P) /\ A \subseteq M
    <3>1. Wiped(N[i], wiped, P) /\ Vacated(N[i], wiped, P, A) /\ O = [N EXCEPT ![i] = wiped] /\ i \in U
      BY <1>1, <2>3, <2>4
    <3> HIDE DEF M, U, N, P
    <3> QED BY ONLY <1>1, <3>1, Vacating
  <2>6. A \in SUBSET Addrs /\ M \in SUBSET Addrs
    BY <2>5 DEF Marked
  <2> PICK u : u = DeallocateBlocks(s, A)
    OBVIOUS
  <2>7. Booked(s, u, M \ A, s.sbB + Cardinality(A \cap M))
    BY <1>1, <2>6, Deallocating
  <2>8. /\ Good(u) /\ Marked(u) = M \ A /\ Used(u) = U /\ Nodes(u) = N /\ u.disk.ptr = P /\ u.disk.ents = s.disk.ents
        /\ u.sbB = s.sbB + Cardinality(A \cap M) /\ u.sbI = s.sbI /\ Caches(u) = Caches(s)
    BY ONLY <2>7 DEF Booked, View
  <2>9. /\ Good(t) /\ View(t) = <<M \ A, U, O, P, s.disk.ents, u.sbB, s.sbI>>
        /\ DOMAIN t.inodes = DOMAIN u.inodes \cup {i} /\ t.disk.node = u.disk.node
    <3>1. t = SetInode(u, i, wiped)
      BY <2>1
    <3>2. /\ Good(t) /\ View(t) = <<Marked(u), Used(u), [Nodes(u) EXCEPT ![i] = wiped], u.disk.ptr, u.disk.ents, u.sbB, u.sbI>>
          /\ DOMAIN t.inodes = DOMAIN u.inodes \cup {i} /\ t.disk.node = u.disk.node
      <4>1. Good(u) /\ i \in Inodes /\ wiped \in InodeRecords
        BY ONLY <1>1, <2>2, <2>8
      <4> QED BY ONLY NGroups = 1, <4>1, <3>1, SettingInode
    <3> QED BY <2>8, <3>2
  <2>10. t.sbB = Cardinality(Addrs \ Marked(t))
    <3>1. Marked(t) = M \ A /\ t.sbB = s.sbB + Cardinality(A \cap M)
      BY ONLY <2>8, <2>9 DEF View
    <3>2. Cardinality(Addrs \ (M \ A)) = Cardinality(Addrs \ M) + Cardinality(A \cap M)
      BY ONLY NGroups = 1, <2>6, MoreFree
    <3>3. s.sbB = Cardinality(Addrs \ M)
      BY DEF Fit
    <3> QED BY ONLY <3>1, <3>2, <3>3
  <2>11. Fit(t)
    BY <2>5, <2>9, <2>10 DEF Fit, BlocksGood, View
  <2>12. wiped.type = N[i].type /\ wiped.links = N[i].links
    BY <1>1, <2>2
  <2> QED BY <2>2, <2>8, <2>9, <2>11, <2>12 DEF Emptied, View, Caches
<1> QED BY <1>2, <1>3

-----------------------------------------------------------------------------

-----------------------------------------------------------------------------
(* Directories.                                                            *)
\* The entries of the directory n, in the blocks E.
EntriesOf(n, E) == IF n.type = "dir" /\ n.size # 0 /\ n.direct[0] # 0 THEN E[n.direct[0]] ELSE {}

\* Entries reads the first block of a directory.
LEMMA EntriesView ==
    ASSUME NGroups = 1, NEW s, Good(s), NEW i \in Inodes
    PROVE  Entries(s, i) = EntriesOf(Nodes(s)[i], s.disk.ents)
  BY NodeAt DEF Good, Entries, EntriesOf

\* Fit depends on what the driver shows.
LEMMA SameFit == ASSUME NEW s, Fit(s), NEW t, Good(t), View(t) = View(s) PROVE Fit(t)
  BY DEF View, Fit, BlocksGood

\* The size or the links of an inode are set.
LEMMA Resizing ==
    ASSUME NGroups = 1, NEW s, Fit(s), NEW i \in Used(s), NEW m, m = Inode(s, i), NEW n \in InodeRecords,
           n.direct = m.direct, n.s = m.s, n.d = m.d, NEW t, t = SetInode(s, i, n)
    PROVE  Fit(t) /\ Placing(s, t, i, n, s.disk.ptr)
<1> DEFINE M == Marked(s) U == Used(s) N == Nodes(s) P == s.disk.ptr
<1>1. /\ Good(s) /\ BlocksOK(M, U, N, P) /\ Typed(M, U, N, P) /\ i \in Inodes /\ m = N[i]
  BY TypedView, NodeAt DEF Fit, BlocksGood, Good, Used
<1> PICK O : O = [N EXCEPT ![i] = n]
  OBVIOUS
<1>2. Wiped(N[i], n, P)
  BY <1>1 DEF Wiped, At
<1>3. BlocksOK(M, U, O, P)
  <2>1. O = [N EXCEPT ![i] = n] /\ i \in U
    OBVIOUS
  <2> HIDE DEF M, U, N, P
  <2> QED BY ONLY <1>1, <1>2, <2>1, Wiping
<1>4. /\ Good(t) /\ View(t) = <<M, U, O, P, s.disk.ents, s.sbB, s.sbI>>
      /\ DOMAIN t.inodes = DOMAIN s.inodes \cup {i} /\ t.disk.node = s.disk.node
  <2>1. t = SetInode(s, i, n) /\ O = [Nodes(s) EXCEPT ![i] = n]
    OBVIOUS
  <2> QED BY ONLY NGroups = 1, <1>1, n \in InodeRecords, <2>1, SettingInode
<1> QED BY <1>3, <1>4 DEF Placing, View, Fit, BlocksGood

\* DirectoryFlush: directory i has the entries, or lost them when no block was
\* free.
Rewritten(s, t, i, entries) ==
    /\ Fit(t) /\ CleanMeta(t) /\ Used(t) = Used(s) /\ t.sbI = s.sbI
    /\ Nodes(t)[i].type = Nodes(s)[i].type /\ Nodes(t)[i].links = Nodes(s)[i].links
    /\ \A j \in Inodes \ {i} : Nodes(t)[j] = Nodes(s)[j] /\ t.disk.node[j] = s.disk.node[j]
    /\ DOMAIN t.inodes = DOMAIN s.inodes \ {i}
    /\ Entries(t, i) \in {entries, {}}
    /\ \A j \in Used(s) \ {i} : Entries(t, j) = Entries(s, j)

\* DirectoryFlush rewrites one directory and leaves the others alone.
LEMMA Rewriting ==
    ASSUME NGroups = 1, MaxFile > 0, NEW s, Fit(s), NEW i \in Used(s),
           NEW entries \in SUBSET EntryRecords, NEW t, t = DirectoryFlush(s, i, entries)
    PROVE  Rewritten(s, t, i, entries)
<1>0. Good(s) /\ i \in Inodes /\ 0 \in 0 .. MaxFile - 1 /\ 0 \in 0 .. Direct - 1 /\ 0 < Direct /\ 0 \in Slots
  BY ExtAssumption DEF Fit, Used, Slots
<1> PICK u : u = Truncate(s, i, Inode(s, i).size)
  OBVIOUS
<1>1. Emptied(s, u, i)
  BY Truncating
<1>2. i \in Used(u) /\ Fit(u) /\ Good(u)
  BY <1>1 DEF Emptied, Fit
<1> PICK q : q = AllocateNewBlock(u, i, 0)
  OBVIOUS
<1>3. Allocated(u, q, i, 0)
  BY <1>0, <1>2, Allocating
<1> PICK w : w = IF q.a = 0 THEN q.s
                 ELSE SetInode([q.s EXCEPT !.disk.ents[q.a] = entries], i, [Inode(q.s, i) EXCEPT !.size = 1])
  OBVIOUS
<1>4. t = FlushMetadata(FlushInode(w, i))
  BY DEF DirectoryFlush
<1>N. Nodes(s) \in [Inodes -> InodeRecords] /\ Nodes(u) \in [Inodes -> InodeRecords]
  BY <1>0, <1>2, NodeTypes DEF Good
<1>5. PICK n \in InodeRecords : /\ Nodes(u) = [Nodes(s) EXCEPT ![i] = n]
                                /\ n.type = Nodes(s)[i].type /\ n.links = Nodes(s)[i].links /\ n.size = 0
  BY <1>1 DEF Emptied
<1> \* What holds up to the write-back.
    DEFINE Filled1(x) ==
        /\ Fit(x) /\ Used(x) = Used(s) /\ x.sbI = s.sbI /\ x.disk.node = s.disk.node
        /\ DOMAIN x.inodes \in {DOMAIN s.inodes, DOMAIN s.inodes \cup {i}}
        /\ Nodes(x)[i].type = Nodes(s)[i].type /\ Nodes(x)[i].links = Nodes(s)[i].links
        /\ \A j \in Inodes \ {i} : Nodes(x)[j] = Nodes(s)[j]
        /\ EntriesOf(Nodes(x)[i], x.disk.ents) \in {entries, {}}
        /\ \A j \in Used(s) \ {i} : EntriesOf(Nodes(x)[j], x.disk.ents) = EntriesOf(Nodes(s)[j], s.disk.ents)
<1>6. Filled1(w)
  <2>1. CASE q.a = 0
    <3>1. w = u
      BY <1>3, <2>1 DEF Allocated
    <3>2. Nodes(u)[i] = n /\ \A j \in Inodes \ {i} : Nodes(u)[j] = Nodes(s)[j]
      BY <1>0, <1>5, <1>N
    <3>3. EntriesOf(n, u.disk.ents) = {}
      BY <1>5 DEF EntriesOf
    <3> QED BY <1>1, <1>5, <3>1, <3>2, <3>3 DEF Emptied, Used
  <2>2. CASE q.a # 0
    <3> PICK v : v = q.s
      OBVIOUS
    <3>1. Fit(v) /\ Kept(u, v, i) /\ q.a \in Addrs /\ Nodes(v)[i].direct[0] = q.a
      <4>1. v = u => q.s = u
        OBVIOUS
      <4> QED BY <1>3, <2>2 DEF Allocated
    <3>2. Good(v) /\ i \in Used(v)
      BY <1>2, <3>1 DEF Fit, Kept
    <3>3. PICK m \in InodeRecords : /\ Nodes(v) = [Nodes(u) EXCEPT ![i] = m]
                                    /\ m.type = n.type /\ m.links = n.links
      BY <1>0, <1>5, <1>N, <3>1 DEF Kept
    <3> PICK F : F = [v.disk.ents EXCEPT ![q.a] = entries]
      OBVIOUS
    <3> PICK x : x = [v EXCEPT !.disk.ents = F]
      OBVIOUS
    <3>4. EntsWritten(v, x, F)
      BY <3>1, <3>2, EntsWriting
    <3>5. /\ Good(x) /\ Marked(x) = Marked(v) /\ Used(x) = Used(v) /\ Nodes(x) = Nodes(v) /\ x.disk.ptr = v.disk.ptr
          /\ x.disk.ents = F /\ x.sbB = v.sbB /\ x.sbI = v.sbI /\ Caches(x) = Caches(v)
      BY ONLY <3>4 DEF EntsWritten, View
    <3>6. Fit(x) /\ i \in Used(x)
      BY <3>1, <3>2, <3>5 DEF Fit, BlocksGood
    <3>7. Inode(v, i) = m /\ Inode(x, i) = m
      <4>1. Nodes(v)[i] = m /\ Nodes(x)[i] = m
        BY ONLY <1>0, <1>N, <3>3, <3>5
      <4>2. v \in Drivers /\ x \in Drivers
        BY ONLY <3>2, <3>5 DEF Good
      <4> QED BY ONLY NGroups = 1, <1>0, <4>1, <4>2, NodeAt
    <3> PICK z : z = [m EXCEPT !.size = 1]
      OBVIOUS
    <3>8. /\ z \in InodeRecords /\ z.direct = m.direct /\ z.s = m.s /\ z.d = m.d /\ z.type = m.type /\ z.links = m.links
          /\ z.size = 1
      BY DEF InodeRecords
    <3>9. w = SetInode(x, i, z)
      <4>1. x = [v EXCEPT !.disk.ents[q.a] = entries]
        BY <3>2 DEF Good, Drivers, Drives
      <4> QED BY <2>2, <3>7, <4>1
    <3>10. Fit(w) /\ Placing(x, w, i, z, x.disk.ptr)
      BY ONLY NGroups = 1, <3>6, <3>7, <3>8, <3>9, Resizing
    <3>11. Nodes(w)[i] = z /\ \A j \in Inodes \ {i} : Nodes(w)[j] = Nodes(s)[j] /\ Nodes(v)[j] = Nodes(s)[j]
      <4>1. Nodes(w) = [Nodes(v) EXCEPT ![i] = z]
        BY <3>5, <3>10 DEF Placing
      <4>2. Nodes(v) \in [Inodes -> InodeRecords]
        BY <3>2, NodeTypes DEF Good
      <4>3. \A j \in Inodes \ {i} : Nodes(v)[j] = Nodes(u)[j] /\ Nodes(u)[j] = Nodes(s)[j]
        BY ONLY <1>5, <1>N, <3>3
      <4> QED BY ONLY <1>0, <4>1, <4>2, <4>3
    <3>12. w.disk.ents = F /\ F[q.a] = entries /\ (\A a \in Addrs \ {q.a} : F[a] = s.disk.ents[a])
      <4>1. v.disk.ents \in [Addrs -> SUBSET EntryRecords]
        BY <3>2 DEF Good, Drivers, Drives
      <4>2. v.disk.ents = s.disk.ents
        BY <1>1, <3>1 DEF Emptied, Kept
      <4> QED BY <3>1, <3>5, <3>10, <4>1, <4>2 DEF Placing
    <3>13. z.direct[0] = q.a
      BY <1>0, <1>N, <3>1, <3>3, <3>8
    <3>14. EntriesOf(z, F) \in {entries, {}}
      BY <3>12, <3>13 DEF EntriesOf
    <3>15. ASSUME NEW j \in Used(s) \ {i} PROVE EntriesOf(Nodes(w)[j], F) = EntriesOf(Nodes(s)[j], s.disk.ents)
      <4>1. j \in Inodes /\ j \in Used(v)
        BY <1>1, <3>1 DEF Used, Emptied, Kept
      <4> PICK a : a = Nodes(v)[j].direct[0]
        OBVIOUS
      <4>2. At(Nodes(v)[j], v.disk.ptr, 0) = a /\ At(Nodes(v)[i], v.disk.ptr, 0) = q.a
        BY <1>0, <3>1 DEF At
      <4>3. a # 0 => a \in Addrs /\ a # q.a
        <5>1. BlocksOK(Marked(v), Used(v), Nodes(v), v.disk.ptr)
          BY <3>1 DEF Fit, BlocksGood
        <5>2. Marked(v) \subseteq Addrs
          BY DEF Marked
        <5>3. i # j
          OBVIOUS
        <5>4. 0 \in Slots
          BY <1>0, ExtAssumption DEF Slots
        <5>5. a # 0 => a \in Marked(v) \ MetaBlocks
          BY ONLY <4>1, <4>2, <5>1, <5>4 DEF BlocksOK, Held
        <5>6. a # 0 => a # q.a
          BY ONLY <3>2, <4>1, <4>2, <5>1, <5>3, <5>4 DEF BlocksOK, Apart
        <5> QED BY <5>2, <5>5, <5>6
      <4>4. Nodes(w)[j] = Nodes(v)[j] /\ Nodes(s)[j] = Nodes(v)[j]
        BY <3>11, <4>1
      <4>5. a # 0 => F[a] = s.disk.ents[a]
        BY <3>12, <4>3
      <4>6. EntriesOf(Nodes(v)[j], F) = EntriesOf(Nodes(v)[j], s.disk.ents)
        BY <4>5 DEF EntriesOf
      <4> QED BY <4>4, <4>6
    <3>16. Used(w) = Used(s) /\ w.sbI = s.sbI /\ w.disk.node = s.disk.node
      <4>1. Used(w) = Used(x) /\ w.sbI = x.sbI /\ w.disk.node = x.disk.node
        BY <3>10 DEF Placing
      <4>2. Used(v) = Used(u) /\ v.sbI = u.sbI /\ v.disk.node = u.disk.node
        BY <3>1 DEF Kept
      <4>3. Used(u) = Used(s) /\ u.sbI = s.sbI /\ u.disk.node = s.disk.node
        BY <1>1 DEF Emptied
      <4>4. x.disk.node = v.disk.node
        BY <3>5 DEF Caches
      <4> QED BY ONLY <3>5, <4>1, <4>2, <4>3, <4>4
    <3>17. DOMAIN w.inodes \in {DOMAIN s.inodes, DOMAIN s.inodes \cup {i}}
      <4>1. DOMAIN x.inodes = DOMAIN v.inodes
        BY <3>5 DEF Caches
      <4>2. DOMAIN w.inodes = DOMAIN x.inodes \cup {i}
        BY <3>10 DEF Placing
      <4>3. DOMAIN v.inodes \in {DOMAIN u.inodes, DOMAIN u.inodes \cup {i}}
        BY ONLY <3>1 DEF Kept
      <4>4. DOMAIN u.inodes \in {DOMAIN s.inodes, DOMAIN s.inodes \cup {i}}
        BY ONLY <1>1 DEF Emptied
      <4> QED BY ONLY <4>1, <4>2, <4>3, <4>4
    <3>18. z.type = Nodes(s)[i].type /\ z.links = Nodes(s)[i].links
      BY <1>5, <3>3, <3>8
    <3>19. w.disk.ents = F /\ Nodes(w)[i] = z
      BY <3>11, <3>12
    <3> QED BY ONLY <3>10, <3>11, <3>14, <3>15, <3>16, <3>17, <3>18, <3>19
  <2> QED BY <2>1, <2>2
<1> HIDE DEF Filled1
<1>7. Fit(w) /\ Good(w)
  BY <1>6 DEF Fit, Filled1
<1> PICK y : y = FlushInode(w, i)
  OBVIOUS
<1>8. /\ Good(y) /\ View(y) = View(w)
      /\ DOMAIN y.inodes = DOMAIN w.inodes \ {i} /\ y.disk.node = [w.disk.node EXCEPT ![i] = Inode(w, i)]
  BY ONLY NGroups = 1, y = FlushInode(w, i), <1>0, <1>7, FlushingInode
<1>9. Good(t) /\ View(t) = View(y) /\ CleanMeta(t) /\ Caches(t) = Caches(y)
  <2>1. Good(y) /\ t = FlushMetadata(y)
    BY <1>4, <1>8
  <2> QED BY ONLY NGroups = 1, <2>1, FlushingMetadata
<1>10. Fit(t)
  <2>1. View(t) = View(w)
    BY <1>8, <1>9
  <2> QED BY <1>7, <1>9, <2>1, SameFit
<1>11. Used(t) = Used(w) /\ Nodes(t) = Nodes(w) /\ t.disk.ents = w.disk.ents /\ t.sbI = w.sbI
  BY ONLY <1>8, <1>9 DEF View
<1>12. DOMAIN t.inodes = DOMAIN s.inodes \ {i} /\ \A j \in Inodes \ {i} : t.disk.node[j] = s.disk.node[j]
  <2>1. s.disk.node \in [Inodes -> InodeRecords]
    BY <1>0 DEF Good, Drivers, Drives
  <2>2. w.disk.node = s.disk.node /\ DOMAIN w.inodes \in {DOMAIN s.inodes, DOMAIN s.inodes \cup {i}}
    BY <1>6 DEF Filled1
  <2>3. t.inodes = y.inodes /\ t.disk.node = y.disk.node
    BY ONLY <1>9 DEF Caches
  <2>4. DOMAIN t.inodes = DOMAIN w.inodes \ {i} /\ t.disk.node = [s.disk.node EXCEPT ![i] = Inode(w, i)]
    BY ONLY <1>8, <2>2, <2>3
  <2> QED BY ONLY <2>1, <2>2, <2>4
<1>13. \A j \in Inodes : Entries(t, j) = EntriesOf(Nodes(t)[j], t.disk.ents) /\ Entries(s, j) = EntriesOf(Nodes(s)[j], s.disk.ents)
  BY <1>0, <1>9, EntriesView
<1>14. Used(s) \subseteq Inodes
  BY DEF Used
<1>15. /\ Used(w) = Used(s) /\ w.sbI = s.sbI
       /\ Nodes(w)[i].type = Nodes(s)[i].type /\ Nodes(w)[i].links = Nodes(s)[i].links
       /\ \A j \in Inodes \ {i} : Nodes(w)[j] = Nodes(s)[j]
       /\ EntriesOf(Nodes(w)[i], w.disk.ents) \in {entries, {}}
       /\ \A j \in Used(s) \ {i} : EntriesOf(Nodes(w)[j], w.disk.ents) = EntriesOf(Nodes(s)[j], s.disk.ents)
  BY <1>6 DEF Filled1
<1>16. Entries(t, i) \in {entries, {}} /\ \A j \in Used(s) \ {i} : Entries(t, j) = Entries(s, j)
  BY ONLY <1>0, <1>11, <1>13, <1>14, <1>15
<1>17. /\ Nodes(t)[i].type = Nodes(s)[i].type /\ Nodes(t)[i].links = Nodes(s)[i].links
       /\ \A j \in Inodes \ {i} : Nodes(t)[j] = Nodes(s)[j]
  BY ONLY <1>11, <1>15
<1>18. Used(t) = Used(s) /\ t.sbI = s.sbI
  BY ONLY <1>11, <1>15
<1> QED BY ONLY <1>9, <1>10, <1>12, <1>16, <1>17, <1>18 DEF Rewritten

-----------------------------------------------------------------------------

-----------------------------------------------------------------------------
(* Inodes in use.                                                          *)
\* Taking one element from what is left.
LEMMA OneOut ==
    ASSUME NEW S, IsFiniteSet(S), NEW U, NEW i \in S \ U
    PROVE  Cardinality(S \ U) = Cardinality(S \ (U \cup {i})) + 1 /\ Cardinality(S \ U) \in Nat
<1> PICK R : R = S \ (U \cup {i})
  OBVIOUS
<1>1. S \ U = R \cup {i} /\ i \notin R /\ R \subseteq S
  OBVIOUS
<1>2. IsFiniteSet(R)
  BY <1>1, FS_Subset
<1>3. Cardinality(R \cup {i}) = Cardinality(R) + 1 /\ Cardinality(R) \in Nat
  BY <1>1, <1>2, FS_AddElement, FS_CardinalityType
<1> QED BY <1>1, <1>3

\* t is s with the inode bits b and n free inodes.
InodeRebooked(s, t, b, n) ==
    /\ Good(t) /\ InodeBits(t, 0) = b /\ t.sbI = n
    /\ Marked(t) = Marked(s) /\ Nodes(t) = Nodes(s) /\ t.disk = s.disk /\ t.sbB = s.sbB /\ t.inodes = s.inodes

\* Storing an inode bitmap, a descriptor and a counter does that.
LEMMA InodeRebooking ==
    ASSUME NGroups = 1, NEW s, Good(s), NEW b \in SUBSET Int, NEW n \in Int,
           NEW c, c = With(s.inode_alloc, 0, b), NEW x \in Counts,
           NEW d, d = [s.bgdt[0] EXCEPT !.inodes = x, !.mod = TRUE], NEW g, g = [s.bgdt EXCEPT ![0] = d],
           NEW t, t = [s EXCEPT !.inode_alloc = c, !.bgdt = g, !.sbI = n]
    PROVE  InodeRebooked(s, t, b, n)
<1> USE DEF Good
<1>0. Groups = {0} /\ s.bgdt[0] \in Descriptors
  BY OneGroup DEF Drivers
<1>c. c \in Cached(Groups, SUBSET Int) /\ 0 \in DOMAIN c /\ c[0] = b
  <2>1. s.inode_alloc \in Cached(Groups, SUBSET Int)
    BY DEF Drivers
  <2>2. c = With(s.inode_alloc, 0, b) /\ 0 \in Groups
    BY <1>0
  <2>3. c \in Cached(Groups, SUBSET Int)
    BY ONLY <2>1, <2>2, b \in SUBSET Int, WithCached
  <2> QED BY <2>2, <2>3 DEF With
<1>d. d \in Descriptors /\ d.mod = TRUE /\ d.grp = s.bgdt[0].grp
  BY <1>0 DEF Descriptors
<1>1. g \in [Groups -> Descriptors] /\ g[0] = d
  BY <1>0, <1>d DEF Drivers
<1>2. t \in Drivers
  BY <1>1, <1>c DEF Drivers
<1>3. /\ t.inode_alloc = c /\ t.bgdt = g /\ t.sbI = n /\ t.disk = s.disk /\ t.inodes = s.inodes
      /\ t.block_alloc = s.block_alloc /\ t.sbB = s.sbB
  BY DEF Drivers
<1>4. InodeBits(t, 0) = b
  BY <1>3, <1>c DEF InodeBits
<1>5. Marked(t) = Marked(s)
  <2>1. t.bgdt[0].grp = s.bgdt[0].grp
    BY <1>1, <1>3, <1>d
  <2>2. Bits(t, 0) = Bits(s, 0)
    BY <2>1, <1>3 DEF Bits
  <2> QED BY <2>2, SameMarked
<1>6. Nodes(t) = Nodes(s)
  BY <1>3 DEF Nodes, Inode
<1>7. Recorded(t)
  BY <1>1, <1>3, <1>d DEF Recorded
<1> QED BY <1>2, <1>3, <1>4, <1>5, <1>6, <1>7 DEF InodeRebooked

\* The inodes in use are now U.
InodeBooked(s, t, U, n) ==
    /\ Good(t) /\ View(t) = <<Marked(s), U, Nodes(s), s.disk.ptr, s.disk.ents, s.sbB, n>>
    /\ Caches(t) = Caches(s)

\* allocate_new_inode sets the bit of the inode.
LEMMA InodeMarking ==
    ASSUME NGroups = 1, NEW s, Good(s), NEW i \in Inodes,
           NEW t, t = [s EXCEPT !.inode_alloc = With(@, 0, InodeBits(s, 0) \cup {InodeIndex(i)}),
                                !.bgdt[0].inodes = (@ - 1) % CountMod, !.bgdt[0].mod = TRUE, !.sbI = @ - 1]
    PROVE  InodeBooked(s, t, Used(s) \cup {i}, s.sbI - 1)
<1>0. Groups = {0} /\ s.bgdt[0] \in Descriptors
  BY OneGroup DEF Drivers, Good
<1> PICK b : b = InodeBits(s, 0) \cup {InodeIndex(i)}
  OBVIOUS
<1>b. b \in SUBSET Int
  BY BitsType, OneGroup
<1> PICK c : c = With(s.inode_alloc, 0, b)
  OBVIOUS
<1> PICK x : x = (s.bgdt[0].inodes - 1) % CountMod
  OBVIOUS
<1>x. x \in Counts
  <2>1. s.bgdt[0].inodes - 1 \in Int
    BY <1>0 DEF Descriptors, Counts
  <2> QED BY <2>1, Remainder
<1> PICK d : d = [s.bgdt[0] EXCEPT !.inodes = x, !.mod = TRUE]
  OBVIOUS
<1> PICK g : g = [s.bgdt EXCEPT ![0] = d]
  OBVIOUS
<1>n. s.sbI - 1 \in Int
  BY DEF Drivers, Good
<1>3. t = [s EXCEPT !.inode_alloc = c, !.bgdt = g, !.sbI = s.sbI - 1]
  <2>1. g = [s.bgdt EXCEPT ![0].inodes = (@ - 1) % CountMod, ![0].mod = TRUE]
    BY <1>0 DEF Drivers, Good
  <2> QED BY <2>1 DEF Drivers, Good
<1>e. c = With(s.inode_alloc, 0, b) /\ d = [s.bgdt[0] EXCEPT !.inodes = x, !.mod = TRUE] /\ g = [s.bgdt EXCEPT ![0] = d]
  OBVIOUS
<1>4. InodeRebooked(s, t, b, s.sbI - 1)
  BY ONLY NGroups = 1, Good(s), <1>b, <1>n, <1>x, <1>e, <1>3, InodeRebooking
<1>5. Used(t) = Used(s) \cup {i}
  <2>1. ASSUME NEW j \in Inodes PROVE j \in Used(t) <=> j \in Used(s) \/ j = i
    <3>1. InodeIndex(j) = InodeIndex(i) <=> j = i
      BY OneGroup
    <3>2. (j \in Used(t) <=> InodeIndex(j) \in b) /\ (j \in Used(s) <=> InodeIndex(j) \in InodeBits(s, 0))
      BY <1>4, UsedBits DEF InodeRebooked
    <3> QED BY <3>1, <3>2
  <2> QED BY <2>1 DEF Used
<1> QED BY <1>4, <1>5 DEF View, Caches, InodeRebooked, InodeBooked

\* deallocate_inode clears the bit; the descriptor's counter is set from that
\* of the blocks.
LEMMA InodeUnmarking ==
    ASSUME NGroups = 1, NEW s, Good(s), NEW i \in Inodes,
           NEW t, t = [s EXCEPT !.inode_alloc = With(@, 0, InodeBits(s, 0) \ {InodeIndex(i)}),
                                !.bgdt[0].inodes = (s.bgdt[0].blocks - 1) % CountMod, !.bgdt[0].mod = TRUE, !.sbI = @ + 1]
    PROVE  InodeBooked(s, t, Used(s) \ {i}, s.sbI + 1)
<1>0. Groups = {0} /\ s.bgdt[0] \in Descriptors
  BY OneGroup DEF Drivers, Good
<1> PICK b : b = InodeBits(s, 0) \ {InodeIndex(i)}
  OBVIOUS
<1>b. b \in SUBSET Int
  BY BitsType
<1> PICK c : c = With(s.inode_alloc, 0, b)
  OBVIOUS
<1> PICK x : x = (s.bgdt[0].blocks - 1) % CountMod
  OBVIOUS
<1>x. x \in Counts
  <2>1. s.bgdt[0].blocks - 1 \in Int
    BY <1>0 DEF Descriptors, Counts
  <2> QED BY <2>1, Remainder
<1> PICK d : d = [s.bgdt[0] EXCEPT !.inodes = x, !.mod = TRUE]
  OBVIOUS
<1> PICK g : g = [s.bgdt EXCEPT ![0] = d]
  OBVIOUS
<1>n. s.sbI + 1 \in Int
  BY DEF Drivers, Good
<1>3. t = [s EXCEPT !.inode_alloc = c, !.bgdt = g, !.sbI = s.sbI + 1]
  <2>1. g = [s.bgdt EXCEPT ![0].inodes = x, ![0].mod = TRUE]
    BY <1>0 DEF Drivers, Good
  <2> QED BY <2>1 DEF Drivers, Good
<1>e. c = With(s.inode_alloc, 0, b) /\ d = [s.bgdt[0] EXCEPT !.inodes = x, !.mod = TRUE] /\ g = [s.bgdt EXCEPT ![0] = d]
  OBVIOUS
<1>4. InodeRebooked(s, t, b, s.sbI + 1)
  BY ONLY NGroups = 1, Good(s), <1>b, <1>n, <1>x, <1>e, <1>3, InodeRebooking
<1>5. Used(t) = Used(s) \ {i}
  <2>1. ASSUME NEW j \in Inodes PROVE j \in Used(t) <=> j \in Used(s) /\ j # i
    <3>1. InodeIndex(j) = InodeIndex(i) <=> j = i
      BY OneGroup
    <3>2. (j \in Used(t) <=> InodeIndex(j) \in b) /\ (j \in Used(s) <=> InodeIndex(j) \in InodeBits(s, 0))
      BY <1>4, UsedBits DEF InodeRebooked
    <3> QED BY <3>1, <3>2
  <2> QED BY <2>1 DEF Used
<1> QED BY <1>4, <1>5 DEF View, Caches, InodeRebooked, InodeBooked

\* The driver is fit, its inodes are counted, and only inodes in use are
\* cached.
Ready(s) == Fit(s) /\ s.sbI = Cardinality(Inodes \ Used(s)) /\ DOMAIN s.inodes \subseteq Used(s)

\* deallocate_inode
Deleted(s, t, i) ==
    \/ i = NoInodes /\ t = s
    \/ /\ Ready(t) /\ CleanMeta(t) /\ Used(t) = Used(s) \ {i} /\ t.disk.ents = s.disk.ents
       /\ DOMAIN t.inodes = DOMAIN s.inodes \ {i}
       /\ \A j \in Inodes \ {i} : Nodes(t)[j] = Nodes(s)[j] /\ t.disk.node[j] = s.disk.node[j]

\* deallocate_inode frees the inode and its blocks, or does nothing for the
\* last inode.
LEMMA Deleting ==
    ASSUME NGroups = 1, NEW s, Ready(s), NEW i \in Used(s), NEW t, t = DeallocateInode(s, i)
    PROVE  Deleted(s, t, i)
<1>1. Fit(s) /\ Good(s) /\ i \in Inodes /\ InodeUsed(s, i) /\ InodeGroup(i) = 0
  BY OneGroup DEF Ready, Fit, Used
<1>2. CASE i >= NoInodes
  <2>1. i = NoInodes
    BY <1>1, <1>2, OneGroup, ExtAssumption
  <2>2. t = s
    BY <1>2 DEF DeallocateInode
  <2> QED BY <2>1, <2>2 DEF Deleted
<1>3. CASE ~(i >= NoInodes)
  <2> PICK e : e = Truncate(s, i, Inode(s, i).size)
    OBVIOUS
  <2>1. Emptied(s, e, i)
    BY <1>1, Truncating
  <2>2. Fit(e) /\ Good(e) /\ e.sbI = s.sbI /\ Used(e) = Used(s)
    BY <2>1 DEF Emptied, Fit
  <2> PICK u : u = [e EXCEPT !.inode_alloc = With(@, 0, InodeBits(e, 0) \ {InodeIndex(i)}),
                             !.bgdt[0].inodes = (e.bgdt[0].blocks - 1) % CountMod, !.bgdt[0].mod = TRUE, !.sbI = @ + 1]
    OBVIOUS
  <2>3. t = FlushMetadata(FlushInode(u, i))
    BY <1>1, <1>3 DEF DeallocateInode
  <2>4. InodeBooked(e, u, Used(e) \ {i}, e.sbI + 1)
    BY <1>1, <2>2, InodeUnmarking
  <2>5. Good(u) /\ View(u) = <<Marked(e), Used(e) \ {i}, Nodes(e), e.disk.ptr, e.disk.ents, e.sbB, e.sbI + 1>> /\ Caches(u) = Caches(e)
    BY <2>4 DEF InodeBooked
  <2> PICK v : v = FlushInode(u, i)
    OBVIOUS
  <2>6. /\ Good(v) /\ View(v) = View(u)
        /\ DOMAIN v.inodes = DOMAIN u.inodes \ {i} /\ v.disk.node = [u.disk.node EXCEPT ![i] = Inode(u, i)]
    BY ONLY NGroups = 1, v = FlushInode(u, i), <1>1, <2>5, FlushingInode
  <2>7. Good(t) /\ View(t) = View(v) /\ CleanMeta(t) /\ Caches(t) = Caches(v)
    <3>1. t = FlushMetadata(v)
      BY <2>3
    <3> QED BY ONLY NGroups = 1, <2>6, <3>1, FlushingMetadata
  <2>8. View(t) = <<Marked(e), Used(e) \ {i}, Nodes(e), e.disk.ptr, e.disk.ents, e.sbB, e.sbI + 1>>
    BY ONLY <2>5, <2>6, <2>7
  <2>9. /\ Marked(t) = Marked(e) /\ Used(t) = Used(e) \ {i} /\ Nodes(t) = Nodes(e) /\ t.disk.ptr = e.disk.ptr
        /\ t.disk.ents = e.disk.ents /\ t.sbB = e.sbB /\ t.sbI = e.sbI + 1
    BY ONLY <2>8 DEF View
  <2>10. Fit(t)
    <3>1. BlocksOK(Marked(e), Used(e), Nodes(e), e.disk.ptr) /\ e.sbB = Cardinality(Addrs \ Marked(e))
      BY <2>2 DEF Fit, BlocksGood
    <3>2. Used(e) \ {i} \subseteq Used(e) /\ \A j \in Used(e) \ {i} : Nodes(e)[j] = Nodes(e)[j]
      OBVIOUS
    <3>3. BlocksOK(Marked(e), Used(e) \ {i}, Nodes(e), e.disk.ptr)
      BY ONLY <3>1, <3>2, FewerUsed
    <3> QED BY ONLY <2>7, <2>9, <3>1, <3>3 DEF Fit, BlocksGood
  <2>11. t.sbI = Cardinality(Inodes \ Used(t))
    <3> PICK W : W = Used(e) \ {i}
      OBVIOUS
    <3>1. i \in Inodes \ W /\ W \cup {i} = Used(s) /\ IsFiniteSet(Inodes)
      BY <1>1, <2>2, OneGroup
    <3>2. Cardinality(Inodes \ W) = Cardinality(Inodes \ (W \cup {i})) + 1
      BY <3>1, OneOut
    <3>3. s.sbI = Cardinality(Inodes \ Used(s))
      BY DEF Ready
    <3> QED BY <2>2, <2>9, <3>1, <3>2, <3>3
  <2>12. DOMAIN t.inodes = DOMAIN s.inodes \ {i}
    <3>1. DOMAIN e.inodes \in {DOMAIN s.inodes, DOMAIN s.inodes \cup {i}}
      BY <2>1 DEF Emptied
    <3>2. t.inodes = v.inodes /\ u.inodes = e.inodes
      BY ONLY <2>5, <2>7 DEF Caches
    <3> QED BY ONLY <2>6, <3>1, <3>2
  <2>13. \A j \in Inodes \ {i} : t.disk.node[j] = s.disk.node[j]
    <3>1. t.disk.node = v.disk.node /\ u.disk.node = e.disk.node
      BY ONLY <2>5, <2>7 DEF Caches
    <3>2. e.disk.node = s.disk.node
      BY <2>1 DEF Emptied
    <3>3. s.disk.node \in [Inodes -> InodeRecords]
      BY <1>1 DEF Good, Drivers, Drives
    <3> QED BY ONLY <2>6, <3>1, <3>2, <3>3
  <2>14. \A j \in Inodes \ {i} : Nodes(t)[j] = Nodes(s)[j]
    <3>1. PICK n \in InodeRecords : Nodes(e) = [Nodes(s) EXCEPT ![i] = n]
      BY <2>1 DEF Emptied
    <3>2. Nodes(s) \in [Inodes -> InodeRecords]
      BY <1>1, NodeTypes DEF Good
    <3> QED BY ONLY <2>9, <3>1, <3>2
  <2>15. Ready(t) /\ Used(t) = Used(s) \ {i}
    <3>1. DOMAIN s.inodes \subseteq Used(s)
      BY DEF Ready
    <3> QED BY <2>2, <2>9, <2>10, <2>11, <2>12, <3>1 DEF Ready
  <2>16. t.disk.ents = s.disk.ents
    BY <2>1, <2>9 DEF Emptied
  <2> QED BY <2>7, <2>12, <2>13, <2>14, <2>15, <2>16 DEF Deleted
<1> QED BY <1>2, <1>3

\* allocate_new_inode
Born(s, q) ==
    \/ q.i = 0 /\ q.s = s
    \/ /\ q.i \in Inodes \ Used(s) /\ Ready(q.s) /\ Used(q.s) = Used(s) \cup {q.i}
       /\ Nodes(q.s) = [Nodes(s) EXCEPT ![q.i] = BlankInode]
       /\ q.s.disk.ents = s.disk.ents /\ q.s.disk.node = s.disk.node
       /\ DOMAIN q.s.inodes = DOMAIN s.inodes \cup {q.i}

\* The inode that the search returns has a clear bit.
LEMMA Searching ==
    ASSUME NGroups = 1, NEW s, NEW parent \in Inodes, NEW i, i = InodeSearch(s, parent).inode
    PROVE  i = 0 \/ i \in Inodes \ Used(s)
<1>1. Groups = {0} /\ InodeGroup(parent) = 0 /\ \A j \in Inodes : InodeIndex(j) = j - 1
  BY OneGroup
<1> DEFINE grp(q) == (InodeGroup(parent) + q) % NGroups
           free(g) == {k \in (IF g = 0 THEN FirstInode ELSE 0) .. IPG - 1 : k \notin InodeBits(s, g)}
           hits == {q \in Groups : free(grp(q)) # {}}
           q0 == IF hits = {} THEN NGroups - 1 ELSE Min(hits)
<1>2. i = IF hits = {} THEN 0 ELSE grp(q0) * IPG + Min(free(grp(q0))) + 1
  BY DEF InodeSearch
<1>3. CASE hits = {}
  BY <1>2, <1>3
<1>4. CASE hits # {}
  <2>1. hits = {0}
    BY <1>1, <1>4
  <2>2. q0 = 0
    <3>1. {0} \subseteq Nat /\ {0} # {}
      OBVIOUS
    <3>2. Min({0}) \in {0}
      BY ONLY <3>1, LeastOf
    <3> HIDE DEF hits
    <3> QED BY <1>4, <2>1, <3>2
  <2>3. grp(0) = 0
    BY <1>1
  <2>4. free(0) # {} /\ free(0) \subseteq FirstInode .. IPG - 1 /\ FirstInode \in Nat /\ IPG \in Nat
    BY <2>1, <2>3, ExtAssumption DEF RootInode
  <2>5. Min(free(0)) \in free(0)
    <3>1. free(0) \subseteq Nat
      BY <2>4
    <3> HIDE DEF free
    <3> QED BY <2>4, <3>1, LeastOf
  <2> PICK k \in FirstInode .. IPG - 1 : k = Min(free(0)) /\ k \notin InodeBits(s, 0)
    BY <2>5
  <2>6. i = 0 * IPG + k + 1
    BY <1>2, <1>4, <2>2, <2>3
  <2>7. i \in Inodes /\ InodeIndex(i) = k
    <3>1. i \in 1 .. IPG /\ i - 1 = k
      BY ONLY <2>4, <2>6, k \in FirstInode .. IPG - 1
    <3>2. Inodes = 1 .. IPG
      BY OneGroup
    <3> QED BY <1>1, <3>1, <3>2
  <2> QED BY <2>7, UsedBits
<1> QED BY <1>3, <1>4

\* allocate_new_inode returns a new blank inode, or zero and changes nothing.
LEMMA Bearing ==
    ASSUME NGroups = 1, NEW s, Ready(s), NEW parent \in Inodes, NEW q, q = AllocateNewInode(s, parent)
    PROVE  Born(s, q)
<1> PICK i : i = InodeSearch(s, parent).inode
  OBVIOUS
<1>1. i = 0 \/ i \in Inodes \ Used(s)
  BY Searching
<1>2. CASE s.sbI = 0 \/ i = 0
  <2>1. q = [s |-> s, i |-> 0]
    BY <1>2 DEF AllocateNewInode
  <2>2. q.i = 0 /\ q.s = s
    BY ONLY <2>1
  <2> QED BY <2>2 DEF Born
<1>3. CASE ~(s.sbI = 0 \/ i = 0)
  <2>1. i \in Inodes \ Used(s) /\ Good(s) /\ Fit(s) /\ i \notin DOMAIN s.inodes /\ InodeGroup(i) = 0
    BY <1>1, <1>3, OneGroup DEF Ready, Fit
  <2> PICK u : u = [s EXCEPT !.inode_alloc = With(@, 0, InodeBits(s, 0) \cup {InodeIndex(i)}),
                             !.bgdt[0].inodes = (@ - 1) % CountMod, !.bgdt[0].mod = TRUE, !.sbI = @ - 1]
    OBVIOUS
  <2> PICK t : t = SetInode(u, i, BlankInode)
    OBVIOUS
  <2>2. q = [s |-> t, i |-> i]
    <3> PICK w : w = [s EXCEPT
                !.inode_alloc = With(@, 0, InodeBits(s, 0) \cup {InodeIndex(i)}),
                !.bgdt[0].inodes = (@ - 1) % CountMod, !.bgdt[0].mod = TRUE,
                !.sbI = @ - 1,
                !.inodes = With(@, i, BlankInode)]
      OBVIOUS
    <3>1. q = [s |-> w, i |-> i]
      BY <1>3, <2>1 DEF AllocateNewInode
    <3>2. w = t
      BY <2>1 DEF SetInode, Good, Drivers
    <3> QED BY <3>1, <3>2
  <2>3. q.s = t /\ q.i = i
    BY ONLY <2>2
  <2>4. InodeBooked(s, u, Used(s) \cup {i}, s.sbI - 1)
    BY <2>1, InodeMarking
  <2>5. Good(u) /\ View(u) = <<Marked(s), Used(s) \cup {i}, Nodes(s), s.disk.ptr, s.disk.ents, s.sbB, s.sbI - 1>> /\ Caches(u) = Caches(s)
    BY ONLY <2>4 DEF InodeBooked
  <2>6. BlankInode \in InodeRecords /\ BlankInode.d = 0 /\ \A P, x : x \in Slots => At(BlankInode, P, x) = 0
    <3>1. BlankInode \in InodeRecords
      BY DEF BlankInode, InodeRecords, Types
    <3>2. BlankInode.d = 0 /\ BlankInode.s = 0 /\ BlankInode.direct = [k \in 0 .. Direct - 1 |-> 0]
      BY DEF BlankInode
    <3>3. ASSUME NEW P, NEW x \in Slots PROVE At(BlankInode, P, x) = 0
      <4>1. x \in 0 .. Direct - 1 \/ x \in {-1, -2} \/ x >= Direct
        BY ExtAssumption DEF Slots
      <4> QED BY ONLY <3>2, <4>1, ExtAssumption, x \in Slots DEF At, Slots
    <3> QED BY ONLY <3>1, <3>2, <3>3
  <2>7. /\ Good(t) /\ View(t) = <<Marked(u), Used(u), [Nodes(u) EXCEPT ![i] = BlankInode], u.disk.ptr, u.disk.ents, u.sbB, u.sbI>>
        /\ DOMAIN t.inodes = DOMAIN u.inodes \cup {i} /\ t.disk.node = u.disk.node
    BY ONLY NGroups = 1, t = SetInode(u, i, BlankInode), <2>1, <2>5, <2>6, SettingInode
  <2>8. /\ Marked(t) = Marked(s) /\ Used(t) = Used(s) \cup {i} /\ Nodes(t) = [Nodes(s) EXCEPT ![i] = BlankInode]
        /\ t.disk.ptr = s.disk.ptr /\ t.disk.ents = s.disk.ents /\ t.sbB = s.sbB /\ t.sbI = s.sbI - 1
    BY ONLY <2>5, <2>7 DEF View
  <2>9. DOMAIN t.inodes = DOMAIN s.inodes \cup {i} /\ t.disk.node = s.disk.node
    BY ONLY <2>5, <2>7 DEF Caches
  <2>10. Fit(t)
    <3> DEFINE M == Marked(s) U == Used(s) N == Nodes(s) P == s.disk.ptr
    <3> PICK O : O = [N EXCEPT ![i] = BlankInode]
      OBVIOUS
    <3>1. Typed(M, U, N, P) /\ BlocksOK(M, U, N, P) /\ s.sbB = Cardinality(Addrs \ M)
      BY <2>1, TypedView DEF Fit, BlocksGood, Good
    <3>2. /\ \A j \in U \ {i} : (N[j].s # 0 => P[N[j].s] = P[N[j].s]) /\ (N[j].d # 0 => P[N[j].d] = P[N[j].d])
          /\ BlankInode.d # 0 => P[BlankInode.d] = NoPtr
          /\ \A x, y \in Slots : At(BlankInode, P, x) # 0 /\ At(BlankInode, P, x) = At(BlankInode, P, y) => x = y
          /\ \A x \in Slots : At(BlankInode, P, x) # 0 =>
               \/ i \in U /\ \E y \in Slots : At(BlankInode, P, x) = At(N[i], P, y)
               \/ Spare(At(BlankInode, P, x), M, U, N, P)
      BY <2>6
    <3>3. O = [N EXCEPT ![i] = BlankInode] /\ i \in Inodes
      BY <2>1
    <3> HIDE DEF M, U, N, P
    <3>4. BlocksOK(M, U \cup {i}, O, P)
      BY ONLY <2>6, <3>1, <3>2, <3>3, OneInode
    <3> QED BY <2>7, <2>8, <3>1, <3>4 DEF Fit, BlocksGood, M, U, N, P
  <2>11. t.sbI = Cardinality(Inodes \ Used(t))
    <3>1. i \in Inodes \ Used(s) /\ IsFiniteSet(Inodes)
      BY <2>1, OneGroup
    <3>2. Cardinality(Inodes \ Used(s)) = Cardinality(Inodes \ (Used(s) \cup {i})) + 1
      BY <3>1, OneOut
    <3>3. s.sbI = Cardinality(Inodes \ Used(s)) /\ IsFiniteSet(Inodes \ (Used(s) \cup {i}))
      BY <3>1, FS_Subset DEF Ready
    <3>4. Cardinality(Inodes \ (Used(s) \cup {i})) \in Nat
      BY <3>3, FS_CardinalityType
    <3>5. t.sbI = s.sbI - 1 /\ Used(t) = Used(s) \cup {i}
      BY ONLY <2>8
    <3> QED BY ONLY <3>2, <3>3, <3>4, <3>5
  <2>12. Ready(t)
    <3>1. DOMAIN s.inodes \subseteq Used(s)
      BY DEF Ready
    <3> QED BY ONLY <2>8, <2>9, <2>10, <2>11, <3>1 DEF Ready
  <2> QED BY ONLY <2>1, <2>3, <2>8, <2>9, <2>12 DEF Born
<1> QED BY <1>2, <1>3

-----------------------------------------------------------------------------

-----------------------------------------------------------------------------
(* The tree of names, as a function from inodes to entries.                *)
\* The inode that the entries E give the name n.
Child(E, n) == IF \E e \in E : e.name = n THEN (CHOOSE e \in E : e.name = n).ino ELSE 0

\* The inode that the tree T gives the path p, or zero.
Find(T, p) == LET i == Child(T[RootInode], p[1])
              IN IF Len(p) = 1 THEN i ELSE IF i = 0 THEN 0 ELSE Child(T[i], p[2])

\* The directory in which p is the last name, or zero.
ParentOf(T, p) == IF Len(p) = 1 THEN RootInode ELSE Child(T[RootInode], p[1])

\* An entry of E gives inode i the name n.
Named(E, n, i) == \E e \in E : e.name = n /\ e.ino = i

\* The path p leads to the inode i.
Reached(T, p, i) ==
    \/ Len(p) = 1 /\ Named(T[RootInode], p[1], i)
    \/ Len(p) = 2 /\ \E d \in Inodes : Named(T[RootInode], p[1], d) /\ Named(T[d], p[2], i)

\* Every entry names an inode in use other than the root, with links; no inode
\* has two entries, and no directory two entries of one name.
TreeOK(U, N, T) ==
    /\ RootInode \in U /\ U \subseteq Inodes
    /\ \A i \in U : T[i] \subseteq EntryRecords
    /\ \A i \in U : \A e \in T[i] : e.ino \in U /\ e.ino # RootInode /\ N[e.ino].links > 0
    /\ \A i, j \in U : \A e \in T[i], f \in T[j] : e.ino = f.ino => i = j /\ e = f
    /\ \A i \in U : \A e, f \in T[i] : e.name = f.name => e = f

\* A path has one name or two.
LEMMA PathForms ==
    ASSUME NEW p \in Paths
    PROVE  \/ Len(p) = 1 /\ p[1] \in Names /\ p = <<p[1]>>
           \/ Len(p) = 2 /\ p[1] \in Names /\ p[2] \in Names /\ p = <<p[1], p[2]>>
  BY DEF Paths

\* Zero is no inode.
LEMMA InodeNat == ASSUME NGroups = 1 PROVE 0 \notin Inodes /\ RootInode \in Inodes /\ Inodes \subseteq Nat
  BY OneGroup, ExtAssumption DEF RootInode

\* Child finds the inode that is named.
LEMMA ChildNamed ==
    ASSUME NGroups = 1, NEW E, E \subseteq EntryRecords, \A e, f \in E : e.name = f.name => e = f, NEW n
    PROVE  /\ Child(E, n) = 0 \/ Child(E, n) \in Inodes
           /\ \A i \in Inodes : Child(E, n) = i <=> Named(E, n, i)
<1>1. CASE \E e \in E : e.name = n
  <2> PICK e : e = CHOOSE x \in E : x.name = n
    OBVIOUS
  <2>1. e \in E /\ e.name = n /\ Child(E, n) = e.ino
    BY <1>1 DEF Child
  <2>2. e.ino \in Inodes
    BY <2>1 DEF EntryRecords
  <2> QED BY <2>1, <2>2 DEF Named
<1>2. CASE ~ \E e \in E : e.name = n
  BY <1>2, InodeNat DEF Child, Named
<1> QED BY <1>1, <1>2

\* Find finds the inode that is reached; it is in use, not the root, and has
\* links.
LEMMA Reaching ==
    ASSUME NGroups = 1, NEW U, NEW N, NEW T, TreeOK(U, N, T), NEW p \in Paths
    PROVE  /\ Find(T, p) = 0 \/ Find(T, p) \in Inodes
           /\ \A i \in Inodes : Find(T, p) = i <=> Reached(T, p, i)
           /\ \A i \in Inodes : Reached(T, p, i) => i \in U /\ i # RootInode /\ N[i].links > 0
<1>0. 0 \notin Inodes /\ U \subseteq Inodes /\ RootInode \in U
  BY InodeNat DEF TreeOK
<1>1. ASSUME NEW j \in U, NEW n
      PROVE  /\ Child(T[j], n) = 0 \/ Child(T[j], n) \in Inodes
             /\ \A i \in Inodes : Child(T[j], n) = i <=> Named(T[j], n, i)
  <2>1. T[j] \subseteq EntryRecords /\ \A e, f \in T[j] : e.name = f.name => e = f
    BY DEF TreeOK
  <2> QED BY ONLY NGroups = 1, <2>1, ChildNamed
<1>2. \A j \in U : \A n, i : Named(T[j], n, i) => i \in U /\ i # RootInode /\ N[i].links > 0
  BY DEF TreeOK, Named
<1> PICK d : d = Child(T[RootInode], p[1])
  OBVIOUS
<1>3. CASE Len(p) = 1
  <2>1. Find(T, p) = d
    BY <1>3 DEF Find
  <2>2. \A i \in Inodes : Reached(T, p, i) <=> Named(T[RootInode], p[1], i)
    BY <1>3 DEF Reached
  <2> QED BY <1>0, <1>1, <1>2, <2>1, <2>2
<1>4. CASE Len(p) = 2
  <2>2. \A i : Reached(T, p, i) <=> \E c \in Inodes : Named(T[RootInode], p[1], c) /\ Named(T[c], p[2], i)
    BY <1>4 DEF Reached
  <2>3. CASE d = 0
    <3>1. Find(T, p) = 0
      BY <1>4, <2>3 DEF Find
    <3>2. \A c \in Inodes : ~Named(T[RootInode], p[1], c)
      BY <1>0, <1>1, <2>3
    <3> QED BY <1>0, <2>2, <3>1, <3>2
  <2>4. CASE d # 0
    <3>1. d \in Inodes /\ \A c \in Inodes : c = d <=> Named(T[RootInode], p[1], c)
      BY <1>0, <1>1, <2>4
    <3>2. d \in U
      BY <1>0, <1>2, <3>1
    <3>3. Find(T, p) = Child(T[d], p[2])
      BY <1>4, <2>4 DEF Find
    <3>4. \A i : Reached(T, p, i) <=> Named(T[d], p[2], i)
      BY <2>2, <3>1
    <3> QED BY <1>1, <1>2, <3>2, <3>3, <3>4
  <2> QED BY <2>3, <2>4
<1> QED BY <1>3, <1>4, PathForms

\* An inode has one path.
LEMMA OnePath ==
    ASSUME NGroups = 1, NEW U, NEW N, NEW T, TreeOK(U, N, T), NEW p \in Paths, NEW q \in Paths,
           NEW i \in Inodes, Reached(T, p, i), Reached(T, q, i)
    PROVE  p = q
<1>0. RootInode \in U
  BY DEF TreeOK
<1>1. \A j \in U : \A n, c : Named(T[j], n, c) => c \in U /\ c # RootInode
  BY DEF TreeOK, Named
<1>2. \A j, k \in U : \A n, m, c : Named(T[j], n, c) /\ Named(T[k], m, c) => j = k /\ n = m
  BY DEF TreeOK, Named
<1>3. \A j \in U : \A n, c, d : Named(T[j], n, c) /\ Named(T[j], n, d) => c = d
  BY DEF TreeOK, Named
<1>4. CASE Len(p) = 1 /\ Len(q) = 1
  <2>1. Named(T[RootInode], p[1], i) /\ Named(T[RootInode], q[1], i)
    BY <1>4 DEF Reached
  <2> QED BY <1>0, <1>2, <1>4, <2>1, PathForms
<1>5. CASE Len(p) = 2 /\ Len(q) = 2
  <2>1. PICK c \in Inodes : Named(T[RootInode], p[1], c) /\ Named(T[c], p[2], i)
    BY <1>5 DEF Reached
  <2>2. PICK d \in Inodes : Named(T[RootInode], q[1], d) /\ Named(T[d], q[2], i)
    BY <1>5 DEF Reached
  <2>3. c \in U /\ d \in U
    BY <1>0, <1>1, <2>1, <2>2
  <2>4. c = d /\ p[2] = q[2]
    BY <1>2, <2>1, <2>2, <2>3
  <2>5. p[1] = q[1]
    BY <1>0, <1>2, <2>1, <2>2, <2>4
  <2> QED BY <1>5, <2>4, <2>5, PathForms
<1>6. ASSUME NEW a \in Paths, NEW b \in Paths, Len(a) = 1, Len(b) = 2, Reached(T, a, i), Reached(T, b, i) PROVE FALSE
  <2>1. Named(T[RootInode], a[1], i)
    BY <1>6 DEF Reached
  <2>2. PICK d \in Inodes : Named(T[RootInode], b[1], d) /\ Named(T[d], b[2], i)
    BY <1>6 DEF Reached
  <2>3. d \in U /\ d # RootInode
    BY <1>0, <1>1, <2>2
  <2> QED BY <1>0, <1>2, <2>1, <2>2, <2>3
<1> QED BY <1>4, <1>5, <1>6, PathForms

\* Entries go away.
LEMMA Shrinking ==
    ASSUME NGroups = 1, NEW U, NEW N, NEW T, TreeOK(U, N, T), NEW W \in SUBSET Inodes, RootInode \in W, NEW O, NEW R,
           \A i \in W \cap U : R[i] \subseteq T[i], \A i \in W \ U : R[i] = {},
           \A i \in W \cap U : \A e \in R[i] : e.ino \in W /\ O[e.ino].links > 0
    PROVE  TreeOK(W, O, R) /\ \A p \in Paths, i \in Inodes : Reached(R, p, i) => Reached(T, p, i)
<1>0. RootInode \in W \cap U /\ W \subseteq Inodes /\ U \subseteq Inodes
  BY DEF TreeOK
<1>1. \A i \in W : \A e \in R[i] : i \in U /\ e \in T[i] /\ e.ino \in W /\ e.ino # RootInode /\ O[e.ino].links > 0
  BY DEF TreeOK
<1>2. TreeOK(W, O, R)
  <2>1. \A i \in W : R[i] \subseteq EntryRecords
    BY <1>1 DEF TreeOK
  <2>2. \A i, j \in W : \A e \in R[i], f \in R[j] : e.ino = f.ino => i = j /\ e = f
    BY <1>1 DEF TreeOK
  <2>3. \A i \in W : \A e, f \in R[i] : e.name = f.name => e = f
    BY <1>1 DEF TreeOK
  <2> QED BY <1>0, <1>1, <2>1, <2>2, <2>3 DEF TreeOK
<1>3. \A j \in W : \A n, i : Named(R[j], n, i) => Named(T[j], n, i) /\ i \in W
  BY <1>1 DEF Named
<1>4. ASSUME NEW p \in Paths, NEW i \in Inodes, Reached(R, p, i) PROVE Reached(T, p, i)
  BY <1>0, <1>3, <1>4 DEF Reached
<1> QED BY <1>2, <1>4

\* A new inode gets a name.
\* i is new, and entry e of the missing path p names it in the directory j.
Grows(U, N, T, O, R, p, i, j, e) ==
    /\ TreeOK(U, N, T) /\ i \in Inodes \ U /\ p \in Paths
    /\ j \in U /\ j = ParentOf(T, p) /\ Find(T, p) = 0
    /\ e = [name |-> p[Len(p)], ino |-> i]
    /\ R[j] = T[j] \cup {e} /\ R[i] = {} /\ (\A k \in U \ {j} : R[k] = T[k])
    /\ (\A k \in U : O[k].links = N[k].links) /\ O[i].links > 0

\* The tree with the new name is in order, and only p leads to somewhere new.
LEMMA Growing ==
    ASSUME NGroups = 1, NEW U, NEW N, NEW T, NEW O, NEW R, NEW p, NEW i, NEW j, NEW e, Grows(U, N, T, O, R, p, i, j, e)
    PROVE  /\ TreeOK(U \cup {i}, O, R)
           /\ \A q \in Paths, k \in Inodes : Reached(R, q, k) => Reached(T, q, k) \/ (q = p /\ k = i)
<1>h. /\ TreeOK(U, N, T) /\ i \in Inodes \ U /\ p \in Paths
      /\ j \in U /\ j = ParentOf(T, p) /\ Find(T, p) = 0
      /\ e = [name |-> p[Len(p)], ino |-> i]
      /\ R[j] = T[j] \cup {e} /\ R[i] = {} /\ (\A k \in U \ {j} : R[k] = T[k])
      /\ (\A k \in U : O[k].links = N[k].links) /\ O[i].links > 0
  BY DEF Grows
<1> USE <1>h
<1>0. RootInode \in U /\ U \subseteq Inodes /\ i # j /\ i # RootInode
  BY DEF TreeOK
<1>e. e \in EntryRecords /\ e.name = p[Len(p)] /\ e.ino = i
  BY PathForms DEF EntryRecords
<1>1. \A k \in U \cup {i} : \A f \in R[k] : k \in U /\ (f \in T[k] \/ (f = e /\ k = j))
  OBVIOUS
<1>2. \A k \in U : \A f \in T[k] : f.name # e.name \/ k # j
  <2> SUFFICES ASSUME NEW f \in T[j], f.name = e.name PROVE FALSE
    OBVIOUS
  <2>1. Named(T[j], p[Len(p)], f.ino) /\ f.ino \in Inodes
    BY <1>e, <1>0 DEF Named, TreeOK
  <2>2. Reached(T, p, f.ino)
    <3>1. CASE Len(p) = 1
      BY <2>1, <3>1 DEF Reached, ParentOf
    <3>2. CASE Len(p) = 2
      <4>1. j = Child(T[RootInode], p[1]) /\ j \in Inodes
        BY <1>0, <3>2 DEF ParentOf
      <4>2. T[RootInode] \subseteq EntryRecords /\ \A a, b \in T[RootInode] : a.name = b.name => a = b
        BY <1>0 DEF TreeOK
      <4>3. Named(T[RootInode], p[1], j)
        BY ONLY NGroups = 1, <4>1, <4>2, ChildNamed
      <4> QED BY <2>1, <3>2, <4>1, <4>3 DEF Reached
    <3> QED BY <3>1, <3>2, PathForms
  <2>3. Find(T, p) = f.ino
    BY <2>1, <2>2, Reaching
  <2> QED BY <2>1, <2>3, InodeNat
<1>3. \A k \in U : \A f \in T[k] : f.ino # i
  BY DEF TreeOK
<1>4. TreeOK(U \cup {i}, O, R)
  <2>1. \A k \in U \cup {i} : R[k] \subseteq EntryRecords
    BY <1>e, <1>1 DEF TreeOK
  <2>2. \A k \in U \cup {i} : \A f \in R[k] : f.ino \in U \cup {i} /\ f.ino # RootInode /\ O[f.ino].links > 0
    BY <1>0, <1>e, <1>1 DEF TreeOK
  <2>3. \A k, l \in U \cup {i} : \A f \in R[k], g \in R[l] : f.ino = g.ino => k = l /\ f = g
    BY <1>e, <1>1, <1>3 DEF TreeOK
  <2>4. \A k \in U \cup {i} : \A f, g \in R[k] : f.name = g.name => f = g
    BY <1>1, <1>2 DEF TreeOK
  <2> QED BY <1>0, <2>1, <2>2, <2>3, <2>4 DEF TreeOK
<1>5. \A k \in U \cup {i} : \A n, c : Named(R[k], n, c) => k \in U /\ (Named(T[k], n, c) \/ (k = j /\ n = p[Len(p)] /\ c = i))
  BY <1>1, <1>e DEF Named
<1>6. ASSUME NEW q \in Paths, NEW k \in Inodes, Reached(R, q, k) PROVE Reached(T, q, k) \/ (q = p /\ k = i)
  <2>0. \A d \in Inodes : \A n : Named(T[RootInode], n, d) => d # RootInode /\ d \in U
    BY <1>0 DEF TreeOK, Named
  <2>1. CASE Len(q) = 1
    <3>1. Named(R[RootInode], q[1], k)
      BY <1>6, <2>1 DEF Reached
    <3>2. CASE Named(T[RootInode], q[1], k)
      BY <2>1, <3>2 DEF Reached
    <3>3. CASE RootInode = j /\ q[1] = p[Len(p)] /\ k = i
      <4>1. Len(p) = 1
        <5> SUFFICES ASSUME Len(p) = 2 PROVE FALSE
          BY PathForms
        <5>1. j = Child(T[RootInode], p[1]) /\ j \in Inodes
          BY <1>0 DEF ParentOf
        <5>2. T[RootInode] \subseteq EntryRecords /\ \A a, b \in T[RootInode] : a.name = b.name => a = b
          BY <1>0 DEF TreeOK
        <5>3. Named(T[RootInode], p[1], j)
          BY ONLY NGroups = 1, <5>1, <5>2, ChildNamed
        <5> QED BY <2>0, <3>3, <5>1, <5>3
      <4> QED BY <2>1, <3>3, <4>1, PathForms
    <3> QED BY <1>0, <1>5, <3>1, <3>2, <3>3
  <2>2. CASE Len(q) = 2
    <3>1. PICK d \in Inodes : Named(R[RootInode], q[1], d) /\ Named(R[d], q[2], k)
      BY <1>6, <2>2 DEF Reached
    <3>2. d \in U \cup {i}
      BY <1>0, <1>5, <2>0, <3>1
    <3>3. d \in U /\ Named(T[RootInode], q[1], d)
      BY <1>0, <1>5, <3>1, <3>2
    <3>4. CASE Named(T[d], q[2], k)
      BY <2>2, <3>3, <3>4 DEF Reached
    <3>5. CASE d = j /\ q[2] = p[Len(p)] /\ k = i
      <4>1. j # RootInode
        BY <2>0, <3>3, <3>5
      <4>2. Len(p) = 2 /\ j = Child(T[RootInode], p[1])
        BY <4>1, PathForms DEF ParentOf
      <4>3. T[RootInode] \subseteq EntryRecords /\ \A a, b \in T[RootInode] : a.name = b.name => a = b
        BY <1>0 DEF TreeOK
      <4>4. Named(T[RootInode], p[1], j)
        BY ONLY NGroups = 1, j \in U, <1>0, <4>2, <4>3, ChildNamed
      <4>5. p[1] = q[1]
        BY <1>0, <3>3, <3>5, <4>4 DEF TreeOK, Named
      <4> QED BY <2>2, <3>5, <4>2, <4>5, PathForms
    <3> QED BY <1>5, <3>1, <3>2, <3>4, <3>5
  <2> QED BY <2>1, <2>2, PathForms
<1> QED BY <1>4, <1>6

\* The entries of every inode.
Tree(s) == [i \in Inodes |-> Entries(s, i)]

\* The driver's path lookup is Find.
LEMMA PathLookup ==
    ASSUME NGroups = 1, NEW s, NEW U, NEW N, TreeOK(U, N, Tree(s)), NEW p \in Paths
    PROVE  GetInodeIndex(s, p) = Find(Tree(s), p) /\ ParentIndex(s, p) = ParentOf(Tree(s), p)
<1> PICK T : T = Tree(s)
  OBVIOUS
<1>1. \A i \in Inodes : \A n : Lookup(s, i, n) = Child(T[i], n)
  BY DEF Lookup, Child, Tree
<1>2. RootInode \in Inodes
  BY InodeNat
<1>3. Lookup(s, RootInode, p[1]) = 0 \/ Lookup(s, RootInode, p[1]) \in Inodes
  <2>1. T[RootInode] \subseteq EntryRecords /\ \A e, f \in T[RootInode] : e.name = f.name => e = f
    BY DEF TreeOK
  <2>2. Child(T[RootInode], p[1]) = 0 \/ Child(T[RootInode], p[1]) \in Inodes
    BY ONLY NGroups = 1, <2>1, ChildNamed
  <2> QED BY <1>1, <1>2, <2>2
<1> PICK i : i = Lookup(s, RootInode, p[1])
  OBVIOUS
<1>4. i = Child(T[RootInode], p[1])
  BY <1>1, <1>2
<1>5. CASE Len(p) = 1
  <2>1. GetInodeIndex(s, p) = i /\ Find(T, p) = i
    BY <1>4, <1>5 DEF GetInodeIndex, Find
  <2> QED BY <1>5, <2>1 DEF ParentIndex, ParentOf
<1>6. CASE Len(p) = 2
  <2>1. GetInodeIndex(s, p) = IF i = 0 THEN 0 ELSE Lookup(s, i, p[2])
    BY <1>6 DEF GetInodeIndex
  <2>2. Find(T, p) = IF i = 0 THEN 0 ELSE Child(T[i], p[2])
    BY <1>4, <1>6 DEF Find
  <2>3. GetInodeIndex(s, <<p[1]>>) = i
    BY DEF GetInodeIndex
  <2> QED BY <1>1, <1>3, <1>4, <1>6, <2>1, <2>2, <2>3 DEF ParentIndex, ParentOf
<1> QED BY <1>5, <1>6, PathForms

\* The parent of a path is in use, and the only directory that names what is
\* reached.
LEMMA ParentUsed ==
    ASSUME NGroups = 1, NEW U, NEW N, NEW T, TreeOK(U, N, T), NEW p \in Paths, NEW j, j = ParentOf(T, p)
    PROVE  /\ j = 0 \/ j \in U
           /\ \A i \in Inodes : Reached(T, p, i) =>
                 /\ j \in U /\ j # i /\ Named(T[j], p[Len(p)], i)
                 /\ \A k \in U \ {j} : \A f \in T[k] : f.ino # i
<1>0. RootInode \in U /\ U \subseteq Inodes
  BY DEF TreeOK
<1>1. \A k \in U : \A n, c : Named(T[k], n, c) => c \in U /\ c # RootInode
  BY DEF TreeOK, Named
<1>2. ASSUME NEW k \in U, NEW n, NEW i, Named(T[k], n, i) PROVE \A l \in U \ {k} : \A f \in T[l] : f.ino # i
  BY <1>2 DEF TreeOK, Named
<1>3. CASE Len(p) = 1
  <2>1. j = RootInode
    BY <1>3 DEF ParentOf
  <2>2. \A i \in Inodes : Reached(T, p, i) => Named(T[j], p[Len(p)], i)
    BY <1>3, <2>1 DEF Reached
  <2> QED BY <1>0, <1>1, <1>2, <2>1, <2>2
<1>4. CASE Len(p) = 2
  <2>1. j = Child(T[RootInode], p[1])
    BY <1>4 DEF ParentOf
  <2>2. T[RootInode] \subseteq EntryRecords /\ \A e, f \in T[RootInode] : e.name = f.name => e = f
    BY <1>0 DEF TreeOK
  <2>3. (j = 0 \/ j \in Inodes) /\ \A i \in Inodes : j = i <=> Named(T[RootInode], p[1], i)
    BY ONLY NGroups = 1, <2>1, <2>2, ChildNamed
  <2>4. j = 0 \/ (j \in U /\ j # RootInode /\ Named(T[RootInode], p[1], j))
    BY <1>0, <1>1, <2>3
  <2>5. ASSUME NEW i \in Inodes, Reached(T, p, i)
        PROVE  j \in U /\ j # i /\ Named(T[j], p[Len(p)], i)
    <3>1. PICK d \in Inodes : Named(T[RootInode], p[1], d) /\ Named(T[d], p[2], i)
      BY <1>4, <2>5 DEF Reached
    <3>2. d = j /\ j \in U /\ j # RootInode
      BY <2>3, <2>4, <3>1, InodeNat
    <3>3. j # i
      BY <1>0, <1>2, <2>4, <3>1, <3>2 DEF Named
    <3> QED BY <1>4, <3>1, <3>2, <3>3
  <2> QED BY <1>2, <2>4, <2>5
<1> QED BY <1>3, <1>4, PathForms

\* Only what is no directory changes.
LEMMA SameTree ==
    ASSUME NGroups = 1, NEW s, Good(s), NEW t, Good(t), t.disk.ents = s.disk.ents, NEW i \in Inodes,
           \A j \in Inodes \ {i} : Nodes(t)[j] = Nodes(s)[j],
           (Nodes(s)[i].type # "dir" /\ Nodes(t)[i].type # "dir")
             \/ (Nodes(t)[i].type = Nodes(s)[i].type /\ Nodes(t)[i].size = Nodes(s)[i].size /\ Nodes(t)[i].direct = Nodes(s)[i].direct)
    PROVE  Tree(t) = Tree(s)
<1>1. ASSUME NEW j \in Inodes PROVE EntriesOf(Nodes(t)[j], t.disk.ents) = EntriesOf(Nodes(s)[j], s.disk.ents)
  <2>1. CASE j = i
    BY <2>1 DEF EntriesOf
  <2>2. CASE j # i
    BY <2>2 DEF EntriesOf
  <2> QED BY <2>1, <2>2
<1>2. ASSUME NEW j \in Inodes PROVE Entries(t, j) = Entries(s, j)
  <2>1. Entries(t, j) = EntriesOf(Nodes(t)[j], t.disk.ents) /\ Entries(s, j) = EntriesOf(Nodes(s)[j], s.disk.ents)
    BY EntriesView
  <2> QED BY <1>1, <2>1
<1> QED BY ONLY <1>2 DEF Tree

-----------------------------------------------------------------------------

-----------------------------------------------------------------------------
(* The open files and the inode cache.                                     *)
\* The open files: each has an inode in use that is a file, and no two share
\* an inode or a path. If the path still leads somewhere, it is to that inode,
\* and no other path leads there.
HandleRecords == [path : Paths, ino : Inodes, writing : BOOLEAN, sz : Nat, pos : Nat]
OpenOK(o, U, N, T) ==
    /\ o \in Cached(Handles, HandleRecords) /\ IsFiniteSet(DOMAIN o)
    /\ \A h \in DOMAIN o : o[h].ino \in U /\ o[h].ino # RootInode /\ N[o[h].ino].type = "file"
    /\ \A g, h \in DOMAIN o : o[g].ino = o[h].ino \/ o[g].path = o[h].path => g = h
    /\ \A h \in DOMAIN o : \A p \in Paths, i \in Inodes : Reached(T, p, i) => (i = o[h].ino <=> p = o[h].path)

\* The last inode, i = NoInodes, which deallocate_inode does not free: nothing
\* names it, and the drive has it but for the links.
Lost(s, i) ==
    /\ i = NoInodes /\ i # RootInode /\ \A j \in Used(s) : \A e \in Tree(s)[j] : e.ino # i
    /\ \E l \in Nat : s.disk.node[i] = [Nodes(s)[i] EXCEPT !.links = l]

\* An open file has the inode i.
Holds(o, i) == \E h \in DOMAIN o : o[h].ino = i

\* What is in the inode cache is open or lost.
CacheOK(s, o) == \A i \in DOMAIN s.inodes : Holds(o, i) \/ Lost(s, i)

\* The invariant of a driver s with the open files o.
World(s, o) ==
    Ready(s) /\ TreeOK(Used(s), Nodes(s), Tree(s)) /\ OpenOK(o, Used(s), Nodes(s), Tree(s)) /\ CacheOK(s, o)

\* Write-backs keep it.
LEMMA Viewed ==
    ASSUME NGroups = 1, NEW s, NEW o, World(s, o), NEW t, Good(t), View(t) = View(s), Caches(t) = Caches(s)
    PROVE  World(t, o) /\ Tree(t) = Tree(s)
<1>1. /\ Marked(t) = Marked(s) /\ Used(t) = Used(s) /\ Nodes(t) = Nodes(s) /\ t.disk.ptr = s.disk.ptr
      /\ t.disk.ents = s.disk.ents /\ t.sbB = s.sbB /\ t.sbI = s.sbI /\ t.inodes = s.inodes /\ t.disk.node = s.disk.node
  BY DEF View, Caches
<1>2. Fit(s) /\ Good(s)
  BY DEF World, Ready, Fit
<1>3. Fit(t)
  BY <1>2, SameFit
<1>4. Ready(t)
  BY <1>1, <1>3 DEF World, Ready
<1>5. Tree(t) = Tree(s)
  <2>1. ASSUME NEW j \in Inodes PROVE Entries(t, j) = Entries(s, j)
    <3>1. Entries(t, j) = EntriesOf(Nodes(t)[j], t.disk.ents) /\ Entries(s, j) = EntriesOf(Nodes(s)[j], s.disk.ents)
      BY <1>2, EntriesView
    <3> QED BY <1>1, <3>1
  <2> QED BY ONLY <2>1 DEF Tree
<1>6. \A i : Lost(s, i) => Lost(t, i)
  BY <1>1, <1>5 DEF Lost
<1> QED BY <1>1, <1>4, <1>5, <1>6 DEF World, CacheOK

\* A further file is opened.
Newcomer(o, U, N, T, h, r) ==
    /\ h \in Handles \ DOMAIN o /\ r \in HandleRecords
    /\ r.ino \in U /\ r.ino # RootInode /\ N[r.ino].type = "file"
    /\ \A g \in DOMAIN o : o[g].ino # r.ino /\ o[g].path # r.path
    /\ \A p \in Paths, i \in Inodes : Reached(T, p, i) => (i = r.ino <=> p = r.path)

\* The open files with a newcomer are in order.
LEMMA OpeningHandle ==
    ASSUME NEW o, NEW U, NEW N, NEW T, OpenOK(o, U, N, T), NEW h, NEW r, Newcomer(o, U, N, T, h, r), NEW q, q = With(o, h, r)
    PROVE  OpenOK(q, U, N, T) /\ DOMAIN q = DOMAIN o \cup {h} /\ q[h] = r /\ \A g \in DOMAIN o : q[g] = o[g]
<1>0. /\ h \in Handles \ DOMAIN o /\ r \in HandleRecords
      /\ r.ino \in U /\ r.ino # RootInode /\ N[r.ino].type = "file"
      /\ \A g \in DOMAIN o : o[g].ino # r.ino /\ o[g].path # r.path
      /\ \A p \in Paths, i \in Inodes : Reached(T, p, i) => (i = r.ino <=> p = r.path)
  BY DEF Newcomer
<1> USE <1>0
<1>1. DOMAIN q = DOMAIN o \cup {h} /\ q[h] = r /\ \A g \in DOMAIN o : q[g] = o[g]
  BY DEF With
<1>2. q \in Cached(Handles, HandleRecords)
  <2>1. o \in Cached(Handles, HandleRecords)
    BY DEF OpenOK
  <2> QED BY ONLY <1>0, <2>1, q = With(o, h, r), WithCached
<1>3. IsFiniteSet(DOMAIN q)
  BY <1>1, FS_AddElement DEF OpenOK
<1>4. \A g \in DOMAIN q : q[g].ino \in U /\ q[g].ino # RootInode /\ N[q[g].ino].type = "file"
  BY <1>1 DEF OpenOK
<1>5. \A f, g \in DOMAIN q : q[f].ino = q[g].ino \/ q[f].path = q[g].path => f = g
  BY <1>1 DEF OpenOK
<1>6. \A g \in DOMAIN q : \A p \in Paths, i \in Inodes : Reached(T, p, i) => (i = q[g].ino <=> p = q[g].path)
  BY <1>1 DEF OpenOK
<1> QED BY <1>1, <1>2, <1>3, <1>4, <1>5, <1>6 DEF OpenOK

\* A name that is available is the path of no open file.
LEMMA NameFree ==
    ASSUME MaxPerName = 1, NEW p, IsFiniteSet(DOMAIN open), NameAvailable(p)
    PROVE  \A g \in DOMAIN open : open[g].path # p
<1> PICK S : S = {g \in DOMAIN open : open[g].path = p}
  OBVIOUS
<1>1. Cardinality(S) < 1
  BY DEF NameAvailable
<1>2. IsFiniteSet(S)
  BY FS_Subset
<1>3. Cardinality(S) = 0
  BY <1>1, <1>2, FS_CardinalityType
<1>4. S = {}
  BY <1>2, <1>3, FS_EmptySet
<1> QED BY <1>4

\* The open files depend on the kinds of the inodes only.
LEMMA SameOpen ==
    ASSUME NEW o, NEW U, NEW N, NEW T, OpenOK(o, U, N, T), NEW O, \A i \in U : O[i].type = N[i].type
    PROVE  OpenOK(o, U, O, T)
  BY DEF OpenOK

\* An inode that is lost stays so while it is left alone and gets no name.
LEMMA StaysLost ==
    ASSUME NEW s, NEW t, NEW i, Lost(s, i), t.disk.node[i] = s.disk.node[i], Nodes(t)[i] = Nodes(s)[i],
           \A j \in Used(t) : \A e \in Tree(t)[j] : e.ino # i
    PROVE  Lost(t, i)
  BY DEF Lost

\* A file changes that is open from then on.
TouchedFile(s, t, i) ==
    /\ Ready(t) /\ Used(t) = Used(s) /\ t.disk.ents = s.disk.ents /\ t.disk.node = s.disk.node
    /\ DOMAIN t.inodes \subseteq DOMAIN s.inodes \cup {i}
    /\ \A j \in Inodes \ {i} : Nodes(t)[j] = Nodes(s)[j]
    /\ Nodes(t)[i].type = Nodes(s)[i].type /\ Nodes(t)[i].links = Nodes(s)[i].links

\* The world is sound with the change.
LEMMA Touching ==
    ASSUME NGroups = 1, NEW s, NEW o, World(s, o), NEW i \in Used(s), Nodes(s)[i].type = "file",
           NEW t, TouchedFile(s, t, i), NEW q, OpenOK(q, Used(s), Nodes(s), Tree(s)), Holds(q, i),
           \A j : Holds(o, j) => Holds(q, j)
    PROVE  World(t, q)
<1>1. Good(s) /\ Good(t) /\ i \in Inodes /\ TreeOK(Used(s), Nodes(s), Tree(s)) /\ CacheOK(s, o)
  BY DEF World, Ready, Fit, TouchedFile, Used
<1>2. /\ Ready(t) /\ Used(t) = Used(s) /\ t.disk.ents = s.disk.ents /\ t.disk.node = s.disk.node
      /\ DOMAIN t.inodes \subseteq DOMAIN s.inodes \cup {i}
      /\ \A j \in Inodes \ {i} : Nodes(t)[j] = Nodes(s)[j]
      /\ Nodes(t)[i].type = "file" /\ Nodes(t)[i].links = Nodes(s)[i].links
  BY DEF TouchedFile
<1>3. Tree(t) = Tree(s)
  <2>1. Nodes(s)[i].type # "dir" /\ Nodes(t)[i].type # "dir"
    BY <1>2
  <2> QED BY ONLY NGroups = 1, <1>1, <1>2, <2>1, SameTree
<1>4. \A j \in Inodes : Nodes(t)[j].type = Nodes(s)[j].type /\ Nodes(t)[j].links = Nodes(s)[j].links
  BY <1>2
<1>5. Used(s) \subseteq Inodes
  BY DEF Used
<1>6. OpenOK(q, Used(t), Nodes(t), Tree(t))
  BY <1>2, <1>3, <1>4, <1>5, SameOpen
<1>7. TreeOK(Used(t), Nodes(t), Tree(t))
  BY <1>1, <1>2, <1>3, <1>4, <1>5 DEF TreeOK
<1>8. CacheOK(t, q)
  <2> SUFFICES ASSUME NEW j \in DOMAIN t.inodes, ~Holds(q, j) PROVE Lost(t, j)
    BY DEF CacheOK
  <2>1. j # i /\ j \in DOMAIN s.inodes /\ ~Holds(o, j)
    BY <1>2
  <2>2. Lost(s, j) /\ j \in Inodes
    <3>1. DOMAIN s.inodes \subseteq Used(s)
      BY DEF World, Ready
    <3> QED BY <1>1, <1>5, <2>1, <3>1 DEF CacheOK
  <2>3. \A k \in Used(t) : \A e \in Tree(t)[k] : e.ino # j
    BY <1>2, <1>3, <2>2 DEF Lost
  <2>4. t.disk.node[j] = s.disk.node[j] /\ Nodes(t)[j] = Nodes(s)[j]
    BY <1>2, <2>1, <2>2
  <2> QED BY ONLY <2>2, <2>3, <2>4, StaysLost
<1> QED BY <1>2, <1>6, <1>7, <1>8 DEF World

\* Truncation is such a change.
LEMMA TouchEmptied ==
    ASSUME NGroups = 1, NEW s, Ready(s), NEW i \in Used(s), NEW t, Emptied(s, t, i)
    PROVE  TouchedFile(s, t, i) /\ Nodes(t)[i].size \in Nat
<1>1. Nodes(s) \in [Inodes -> InodeRecords] /\ i \in Inodes
  BY NodeTypes DEF Ready, Fit, Good, Used
<1>2. PICK n \in InodeRecords : Nodes(t) = [Nodes(s) EXCEPT ![i] = n] /\ n.type = Nodes(s)[i].type /\ n.links = Nodes(s)[i].links /\ n.size = 0
  BY DEF Emptied
<1>3. Nodes(t)[i] = n /\ \A j \in Inodes \ {i} : Nodes(t)[j] = Nodes(s)[j]
  BY ONLY <1>1, <1>2
<1>4. DOMAIN t.inodes \subseteq DOMAIN s.inodes \cup {i} /\ Ready(t)
  BY DEF Emptied, Ready
<1> QED BY <1>2, <1>3, <1>4 DEF Emptied, TouchedFile

\* Adding a block is such a change.
LEMMA TouchKept ==
    ASSUME NGroups = 1, NEW s, Ready(s), NEW i \in Used(s), NEW t, Fit(t), Kept(s, t, i)
    PROVE  TouchedFile(s, t, i)
<1>1. Nodes(s) \in [Inodes -> InodeRecords] /\ i \in Inodes
  BY NodeTypes DEF Ready, Fit, Good, Used
<1>2. PICK n \in InodeRecords : Nodes(t) = [Nodes(s) EXCEPT ![i] = n] /\ n.type = Nodes(s)[i].type /\ n.links = Nodes(s)[i].links
  BY DEF Kept
<1>3. Nodes(t)[i] = n /\ \A j \in Inodes \ {i} : Nodes(t)[j] = Nodes(s)[j]
  BY ONLY <1>1, <1>2
<1>4. DOMAIN t.inodes \subseteq DOMAIN s.inodes \cup {i} /\ Ready(t)
  BY DEF Kept, Ready
<1> QED BY <1>2, <1>3, <1>4 DEF Kept, TouchedFile

\* The size of a file is set.
LEMMA TouchSized ==
    ASSUME NGroups = 1, NEW s, NEW i \in Used(s), NEW u, TouchedFile(s, u, i), NEW z \in Nat,
           NEW n, n = [Inode(u, i) EXCEPT !.size = z], NEW t, t = SetInode(u, i, n)
    PROVE  TouchedFile(s, t, i)
<1>1. Fit(u) /\ Good(u) /\ i \in Used(u) /\ i \in Inodes /\ Ready(u)
  BY DEF TouchedFile, Ready, Fit, Used
<1> PICK m : m = Inode(u, i)
  OBVIOUS
<1>2. m = Nodes(u)[i] /\ m \in InodeRecords
  BY <1>1, NodeAt DEF Good
<1>3. n \in InodeRecords /\ n.direct = m.direct /\ n.s = m.s /\ n.d = m.d /\ n.type = m.type /\ n.links = m.links
  BY <1>2 DEF InodeRecords
<1>4. Fit(t) /\ Placing(u, t, i, n, u.disk.ptr)
  BY ONLY NGroups = 1, m = Inode(u, i), t = SetInode(u, i, n), <1>1, <1>3, Resizing
<1>5. /\ Used(t) = Used(u) /\ Nodes(t) = [Nodes(u) EXCEPT ![i] = n] /\ t.disk.ents = u.disk.ents /\ t.sbI = u.sbI
      /\ DOMAIN t.inodes = DOMAIN u.inodes \cup {i} /\ t.disk.node = u.disk.node
  BY ONLY <1>4 DEF Placing
<1>6. Ready(t)
  BY <1>1, <1>4, <1>5 DEF Ready
<1>7. Nodes(u) \in [Inodes -> InodeRecords]
  BY <1>1, NodeTypes DEF Good
<1>8. Nodes(t)[i] = n /\ \A j \in Inodes \ {i} : Nodes(t)[j] = Nodes(u)[j]
  BY ONLY <1>1, <1>5, <1>7
<1>9. /\ Used(u) = Used(s) /\ u.disk.ents = s.disk.ents /\ u.disk.node = s.disk.node
      /\ DOMAIN u.inodes \subseteq DOMAIN s.inodes \cup {i}
      /\ \A j \in Inodes \ {i} : Nodes(u)[j] = Nodes(s)[j]
      /\ Nodes(u)[i].type = Nodes(s)[i].type /\ Nodes(u)[i].links = Nodes(s)[i].links
  BY DEF TouchedFile
<1>10. Nodes(t)[i].type = Nodes(s)[i].type /\ Nodes(t)[i].links = Nodes(s)[i].links
  BY ONLY <1>2, <1>3, <1>8, <1>9
<1>11. \A j \in Inodes \ {i} : Nodes(t)[j] = Nodes(s)[j]
  BY ONLY <1>8, <1>9
<1>12. Used(t) = Used(s) /\ t.disk.ents = s.disk.ents /\ t.disk.node = s.disk.node /\ DOMAIN t.inodes \subseteq DOMAIN s.inodes \cup {i}
  BY ONLY <1>5, <1>9
<1> QED BY ONLY <1>6, <1>10, <1>11, <1>12 DEF TouchedFile

\* The position and size of an open file change.
LEMMA MovingHandle ==
    ASSUME NEW o, NEW U, NEW N, NEW T, OpenOK(o, U, N, T), NEW h \in DOMAIN o, NEW r \in HandleRecords,
           r.ino = o[h].ino, r.path = o[h].path, NEW q, q = [o EXCEPT ![h] = r]
    PROVE  OpenOK(q, U, N, T) /\ DOMAIN q = DOMAIN o /\ q[h] = r /\ \A g \in DOMAIN o \ {h} : q[g] = o[g]
<1>1. DOMAIN q = DOMAIN o /\ \A g \in DOMAIN o : q[g].ino = o[g].ino /\ q[g].path = o[g].path
  OBVIOUS
<1>2. q \in Cached(Handles, HandleRecords)
  <2>1. PICK E \in SUBSET Handles : o \in [E -> HandleRecords]
    BY DEF OpenOK, Cached
  <2>2. q \in [E -> HandleRecords]
    BY <2>1
  <2> QED BY <2>2 DEF Cached
<1>3. \A f, g \in DOMAIN q : q[f].ino = q[g].ino \/ q[f].path = q[g].path => f = g
  BY <1>1 DEF OpenOK
<1>4. \A g \in DOMAIN q : q[g].ino \in U /\ q[g].ino # RootInode /\ N[q[g].ino].type = "file"
  BY <1>1 DEF OpenOK
<1>5. \A g \in DOMAIN q : \A p \in Paths, i \in Inodes : Reached(T, p, i) => (i = q[g].ino <=> p = q[g].path)
  BY <1>1 DEF OpenOK
<1>6. IsFiniteSet(DOMAIN q)
  BY <1>1 DEF OpenOK
<1> QED BY <1>1, <1>2, <1>3, <1>4, <1>5, <1>6 DEF OpenOK

\* The bitmaps and counters are on the drive, unless a file is open for
\* writing.
Tidy(s, o) == CleanMeta(s) \/ \E h \in DOMAIN o : o[h].writing

\* The inductive invariant.
IInv == World(fs, open) /\ Tidy(fs, open)

\* The write-back at the end of a path lookup.
LEMMA Flushed ==
    ASSUME NGroups = 1, NEW s, NEW o, World(s, o), NEW t, t = FlushMetadata(s)
    PROVE  World(t, o) /\ CleanMeta(t) /\ Tree(t) = Tree(s) /\ Nodes(t) = Nodes(s) /\ Used(t) = Used(s)
<1>1. Good(s)
  BY DEF World, Ready, Fit
<1>2. Good(t) /\ View(t) = View(s) /\ CleanMeta(t) /\ Caches(t) = Caches(s)
  BY <1>1, FlushingMetadata
<1>3. World(t, o) /\ Tree(t) = Tree(s)
  BY ONLY NGroups = 1, World(s, o), <1>2, Viewed
<1> QED BY <1>2, <1>3 DEF View

\* An inode that a lookup finds is in use, not the root, and has links.
LEMMA FindUsed ==
    ASSUME NGroups = 1, NEW s, NEW o, World(s, o), NEW p \in Paths, NEW i, i = GetInodeIndex(s, p), i # 0
    PROVE  i \in Used(s) /\ i \in Inodes /\ i # RootInode /\ Reached(Tree(s), p, i) /\ Nodes(s)[i] = Inode(s, i) /\ Nodes(s)[i].links > 0
<1>1. TreeOK(Used(s), Nodes(s), Tree(s)) /\ Good(s)
  BY DEF World, Ready, Fit
<1>2. i = Find(Tree(s), p)
  BY <1>1, PathLookup
<1>3. i \in Inodes /\ Reached(Tree(s), p, i) /\ i \in Used(s) /\ i # RootInode /\ Nodes(s)[i].links > 0
  BY <1>1, <1>2, Reaching
<1> QED BY <1>1, <1>3, NodeAt DEF Good

\* A lookup that finds nothing: the path leads nowhere.
LEMMA NotFound ==
    ASSUME NGroups = 1, NEW s, NEW o, World(s, o), NEW p \in Paths, GetInodeIndex(s, p) = 0
    PROVE  Find(Tree(s), p) = 0
  BY PathLookup DEF World

\* A file that exists is opened, and truncated if it is to be written.
LEMMA OpeningFile ==
    ASSUME NGroups = 1, NEW s, NEW o, World(s, o), NEW p \in Paths, NEW i \in Used(s), Reached(Tree(s), p, i),
           Nodes(s)[i].type = "file", \A g \in DOMAIN o : o[g].path # p, NEW h \in Handles \ DOMAIN o,
           NEW t, t = s \/ t = Truncate(s, i, Inode(s, i).size),
           NEW r \in HandleRecords, r.path = p, r.ino = i, NEW q, q = With(o, h, r)
    PROVE  World(t, q) /\ h \in DOMAIN q /\ q[h] = r /\ \A g \in DOMAIN o : g \in DOMAIN q /\ q[g] = o[g]
<1>1. Ready(s) /\ Fit(s) /\ Good(s) /\ TreeOK(Used(s), Nodes(s), Tree(s)) /\ OpenOK(o, Used(s), Nodes(s), Tree(s)) /\ i \in Inodes
  BY DEF World, Ready, Fit, Used
<1>2. \A g \in DOMAIN o : o[g].ino # r.ino /\ o[g].path # r.path
  BY <1>1 DEF OpenOK
<1>3. \A b \in Paths, k \in Inodes : Reached(Tree(s), b, k) => (k = r.ino <=> b = r.path)
  <2> SUFFICES ASSUME NEW b \in Paths, NEW k \in Inodes, Reached(Tree(s), b, k) PROVE k = i <=> b = p
    OBVIOUS
  <2>1. k = i => b = p
    BY <1>1, OnePath
  <2>2. b = p => k = i
    BY <1>1, Reaching
  <2> QED BY <2>1, <2>2
<1>4. OpenOK(q, Used(s), Nodes(s), Tree(s)) /\ DOMAIN q = DOMAIN o \cup {h} /\ q[h] = r /\ \A g \in DOMAIN o : q[g] = o[g]
  <2>1. OpenOK(o, Used(s), Nodes(s), Tree(s)) /\ r.ino \in Used(s) /\ r.ino # RootInode /\ Nodes(s)[r.ino].type = "file" /\ q = With(o, h, r)
    BY <1>1, Reaching
  <2>2. Newcomer(o, Used(s), Nodes(s), Tree(s), h, r)
    BY ONLY <1>2, <1>3, <2>1, h \in Handles \ DOMAIN o, r \in HandleRecords DEF Newcomer
  <2> QED BY ONLY <2>1, <2>2, OpeningHandle
<1>5. Holds(q, i) /\ \A j : Holds(o, j) => Holds(q, j)
  BY <1>4 DEF Holds
<1>6. TouchedFile(s, t, i)
  <2>1. CASE t = s
    BY <1>1, <2>1 DEF TouchedFile
  <2>2. CASE t = Truncate(s, i, Inode(s, i).size)
    <3>1. Emptied(s, t, i)
      BY <1>1, <2>2, Truncating
    <3> QED BY <1>1, <3>1, TouchEmptied
  <2> QED BY <2>1, <2>2
<1>7. World(t, q)
  BY <1>4, <1>5, <1>6, Touching
<1> QED BY <1>4, <1>7

\* fopen of a file that exists preserves the invariant.
LEMMA StepFopenExisting ==
    ASSUME NGroups = 1, MaxPerName = 1, Misuse = FALSE, IInv,
           NEW h \in Handles, NEW p \in Paths, NEW mode \in {"r", "w", "a"}, FopenExisting(h, p, mode)
    PROVE  IInv'
<1> PICK s : s = FlushMetadata(fs)
  OBVIOUS
<1> PICK i : i = GetInodeIndex(fs, p)
  OBVIOUS
<1> PICK t : t = IF mode = "w" THEN Truncate(s, i, Inode(s, i).size) ELSE s
  OBVIOUS
<1> PICK r : r = [path |-> p, ino |-> i, writing |-> mode # "r", sz |-> Inode(t, i).size,
                  pos |-> IF mode = "a" THEN Inode(t, i).size ELSE 0]
  OBVIOUS
<1>1. /\ h \notin DOMAIN open /\ NameAvailable(p) /\ i # 0 /\ Inode(fs, i).type = "file"
      /\ fs' = t /\ open' = With(open, h, r)
  BY DEF FopenExisting
<1>2. World(fs, open)
  BY DEF IInv
<1>3. World(s, open) /\ CleanMeta(s) /\ Tree(s) = Tree(fs) /\ Nodes(s) = Nodes(fs) /\ Used(s) = Used(fs)
  BY <1>2, Flushed
<1>4. i \in Used(fs) /\ i \in Inodes /\ Reached(Tree(fs), p, i) /\ Nodes(fs)[i] = Inode(fs, i)
  BY <1>1, <1>2, FindUsed
<1>5. \A g \in DOMAIN open : open[g].path # p
  <2>1. IsFiniteSet(DOMAIN open)
    BY <1>2 DEF World, OpenOK
  <2> QED BY <1>1, <2>1, NameFree
<1>6. Good(t)
  <2>1. Fit(s) /\ Good(s)
    BY <1>3 DEF World, Ready, Fit
  <2>2. CASE mode = "w"
    <3>1. Emptied(s, t, i)
      BY <1>3, <1>4, <2>1, <2>2, Truncating
    <3> QED BY <3>1 DEF Emptied, Fit
  <2> QED BY <2>1, <2>2
<1>7. Inode(t, i).size \in Nat
  BY <1>4, <1>6, NodeAt DEF Good, InodeRecords
<1>8. r \in HandleRecords /\ r.path = p /\ r.ino = i /\ (r.writing <=> mode # "r")
  BY <1>4, <1>7 DEF HandleRecords
<1>9. World(fs', open') /\ h \in DOMAIN open' /\ open'[h] = r /\ \A g \in DOMAIN open : g \in DOMAIN open' /\ open'[g] = open[g]
  <2> PICK q : q = With(open, h, r)
    OBVIOUS
  <2>1. i \in Used(s) /\ Reached(Tree(s), p, i) /\ Nodes(s)[i].type = "file" /\ h \in Handles \ DOMAIN open
        /\ (t = s \/ t = Truncate(s, i, Inode(s, i).size)) /\ q = With(open, h, r)
    BY <1>1, <1>3, <1>4
  <2>2. World(t, q) /\ h \in DOMAIN q /\ q[h] = r /\ \A g \in DOMAIN open : g \in DOMAIN q /\ q[g] = open[g]
    BY ONLY NGroups = 1, p \in Paths, <1>3, <1>5, <1>8, <2>1, OpeningFile
  <2> QED BY <1>1, <2>2
<1>10. Tidy(fs', open')
  <2>1. CASE mode = "w"
    BY <1>8, <1>9, <2>1 DEF Tidy
  <2>2. CASE mode # "w"
    <3>1. fs' = s
      BY <1>1, <2>2
    <3> QED BY <1>3, <3>1 DEF Tidy
  <2> QED BY <2>1, <2>2
<1> QED BY <1>9, <1>10 DEF IInv

\* The maximum of two numbers is a number.
LEMMA MaxOfTwo == ASSUME NEW a \in Nat, NEW b \in Nat PROVE Max({a, b}) \in Nat
<1>1. \E x \in {a, b} : \A y \in {a, b} : x >= y
  <2>1. CASE a >= b
    BY <2>1
  <2>2. CASE b >= a
    BY <2>2
  <2> QED BY <2>1, <2>2
<1>2. Max({a, b}) \in {a, b}
  BY <1>1 DEF Max
<1> QED BY <1>2

\* Writing to an open file preserves the invariant.
LEMMA StepWrite ==
    ASSUME NGroups = 1, IInv, NEW h \in Handles, Write(h)
    PROVE  IInv'
<1> PICK f : f = open[h]
  OBVIOUS
<1> PICK have : have = InodeLookup(fs, f.ino, f.pos)
  OBVIOUS
<1> PICK t : t = IF have # 0 THEN [s |-> fs, a |-> have] ELSE AllocateNewBlock(fs, f.ino, f.pos)
  OBVIOUS
<1> PICK i : i = f.ino
  OBVIOUS
<1>1. /\ h \in DOMAIN open /\ open[h].writing /\ f.pos < MaxFile
      /\ fs' = IF t.a # 0 /\ f.pos + 1 > f.sz
                     THEN SetInode(t.s, i, [Inode(t.s, i) EXCEPT !.size = f.pos + 1])
                     ELSE t.s
      /\ open' = IF t.a = 0 THEN open
                       ELSE [open EXCEPT ![h].pos = @ + 1,
                                         ![h].sz = Max({@, f.pos + 1})]
  BY DEF Write
<1>2. World(fs, open) /\ Ready(fs) /\ Fit(fs) /\ OpenOK(open, Used(fs), Nodes(fs), Tree(fs))
  BY DEF IInv, World, Ready
<1>3. f \in HandleRecords /\ i \in Used(fs) /\ Nodes(fs)[i].type = "file"
  <2>1. PICK E \in SUBSET Handles : open \in [E -> HandleRecords]
    BY <1>2 DEF OpenOK, Cached
  <2> QED BY <1>1, <1>2, <2>1 DEF OpenOK
<1>4. f.pos \in 0 .. MaxFile - 1 /\ f.pos \in Nat /\ f.sz \in Nat
  BY <1>1, <1>3, ExtAssumption DEF HandleRecords
<1>5. TouchedFile(fs, t.s, i)
  <2>1. CASE have # 0
    <3>1. t = [s |-> fs, a |-> have]
      BY <2>1
    <3>2. t.s = fs
      BY ONLY <3>1
    <3> QED BY <1>2, <3>2 DEF TouchedFile
  <2>2. CASE have = 0
    <3>1. t = AllocateNewBlock(fs, i, f.pos)
      BY <2>2
    <3>2. Allocated(fs, t, i, f.pos)
      BY ONLY NGroups = 1, <1>2, <1>3, <1>4, <3>1, Allocating
    <3>3. Fit(t.s) /\ Kept(fs, t.s, i)
      BY ONLY <3>2 DEF Allocated
    <3> QED BY <1>2, <1>3, <3>3, TouchKept
  <2> QED BY <2>1, <2>2
<1>6. TouchedFile(fs, fs', i)
  <2>1. CASE ~(t.a # 0 /\ f.pos + 1 > f.sz)
    <3>1. fs' = t.s
      BY <1>1, <2>1
    <3> QED BY <1>5, <3>1
  <2>2. CASE t.a # 0 /\ f.pos + 1 > f.sz
    <3> PICK u : u = t.s
      OBVIOUS
    <3> PICK n : n = [Inode(u, i) EXCEPT !.size = f.pos + 1]
      OBVIOUS
    <3> PICK w : w = SetInode(u, i, n)
      OBVIOUS
    <3>1. fs' = w
      BY <1>1, <2>2
    <3>2. f.pos + 1 \in Nat /\ TouchedFile(fs, u, i) /\ n = [Inode(u, i) EXCEPT !.size = f.pos + 1] /\ w = SetInode(u, i, n)
      BY <1>4, <1>5
    <3>3. TouchedFile(fs, w, i)
      BY ONLY NGroups = 1, <1>3, <3>2, TouchSized
    <3> QED BY <3>1, <3>3
  <2> QED BY <2>1, <2>2
<1>7. /\ OpenOK(open', Used(fs), Nodes(fs), Tree(fs)) /\ DOMAIN open' = DOMAIN open
      /\ \A g \in DOMAIN open : open'[g].ino = open[g].ino
      /\ open'[h].writing
  <2>1. CASE t.a = 0
    BY <1>1, <1>2, <2>1
  <2>2. CASE t.a # 0
    <3> PICK m : m = Max({f.sz, f.pos + 1})
      OBVIOUS
    <3>1. m \in Nat
      BY <1>4, MaxOfTwo
    <3> PICK r : r = [f EXCEPT !.pos = f.pos + 1, !.sz = m]
      OBVIOUS
    <3>2. r \in HandleRecords /\ r.ino = f.ino /\ r.path = f.path /\ r.writing = f.writing
      <4>1. f \in HandleRecords /\ f.pos + 1 \in Nat /\ r = [f EXCEPT !.pos = f.pos + 1, !.sz = m]
        BY <1>3, <1>4
      <4>2. r \in HandleRecords
        BY ONLY <3>1, <4>1 DEF HandleRecords
      <4>3. r.ino = f.ino /\ r.path = f.path
        BY ONLY <4>1 DEF HandleRecords
      <4>4. r.writing = f.writing
        BY ONLY <4>1 DEF HandleRecords
      <4> QED BY ONLY <4>2, <4>3, <4>4
    <3> PICK q : q = [open EXCEPT ![h] = r]
      OBVIOUS
    <3>3. open' = q
      <4>1. open' = [open EXCEPT ![h].pos = @ + 1, ![h].sz = Max({@, f.pos + 1})]
        BY <1>1, <2>2
      <4>2. DOMAIN open' = DOMAIN q /\ \A g \in DOMAIN open \ {h} : open'[g] = q[g]
        BY <4>1
      <4>3. open'[h] = [f EXCEPT !.pos = @ + 1, !.sz = Max({@, f.pos + 1})]
        BY <1>1, <4>1
      <4>4. open'[h] = r
        BY <1>3, <4>3 DEF HandleRecords
      <4>5. open' = [g \in DOMAIN open |-> open'[g]]
        BY <4>1
      <4>6. q = [g \in DOMAIN open |-> q[g]] /\ h \in DOMAIN open /\ q[h] = r
        BY <1>1
      <4>7. \A g \in DOMAIN open : open'[g] = q[g]
        BY ONLY <4>2, <4>4, <4>6
      <4> QED BY ONLY <4>5, <4>6, <4>7
    <3>4. OpenOK(q, Used(fs), Nodes(fs), Tree(fs)) /\ DOMAIN q = DOMAIN open /\ q[h] = r /\ \A g \in DOMAIN open \ {h} : q[g] = open[g]
      <4>1. h \in DOMAIN open /\ q = [open EXCEPT ![h] = r] /\ r.ino = open[h].ino /\ r.path = open[h].path
        BY <1>1, <3>2
      <4> QED BY ONLY <1>2, <3>2, <4>1, MovingHandle
    <3> QED BY <1>1, <3>2, <3>3, <3>4
  <2> QED BY <2>1, <2>2
<1>8. World(fs', open')
  <2> PICK w : w = fs'
    OBVIOUS
  <2> PICK q : q = open'
    OBVIOUS
  <2>1. TouchedFile(fs, w, i) /\ OpenOK(q, Used(fs), Nodes(fs), Tree(fs))
    BY <1>6, <1>7
  <2>2. Holds(q, i) /\ \A j : Holds(open, j) => Holds(q, j)
    BY <1>1, <1>7 DEF Holds
  <2>3. World(w, q)
    BY ONLY NGroups = 1, <1>2, <1>3, <2>1, <2>2, Touching
  <2> QED BY <2>3
<1>9. Tidy(fs', open')
  BY <1>1, <1>7 DEF Tidy
<1> QED BY <1>8, <1>9 DEF IInv

\* The open files without one that is closed.
LEMMA ClosingHandle ==
    ASSUME NEW o, NEW U, NEW N, NEW T, OpenOK(o, U, N, T), NEW h \in DOMAIN o, NEW q, q = [g \in DOMAIN o \ {h} |-> o[g]],
           NEW W, \A g \in DOMAIN o \ {h} : o[g].ino \in W, NEW O, \A i \in W : O[i] = N[i],
           NEW R, \A p \in Paths, i \in Inodes : Reached(R, p, i) => Reached(T, p, i)
    PROVE  OpenOK(q, W, O, R)
<1>1. DOMAIN q = DOMAIN o \ {h} /\ \A g \in DOMAIN o \ {h} : q[g] = o[g]
  OBVIOUS
<1>2. q \in Cached(Handles, HandleRecords)
  <2>1. PICK E \in SUBSET Handles : o \in [E -> HandleRecords]
    BY DEF OpenOK, Cached
  <2>2. q \in [E \ {h} -> HandleRecords]
    BY <2>1
  <2> QED BY <2>2 DEF Cached
<1>3. IsFiniteSet(DOMAIN q)
  BY <1>1, FS_Subset DEF OpenOK
<1>4. \A f, g \in DOMAIN q : q[f].ino = q[g].ino \/ q[f].path = q[g].path => f = g
  BY <1>1 DEF OpenOK
<1>5. \A g \in DOMAIN q : q[g].ino \in W /\ q[g].ino # RootInode /\ O[q[g].ino].type = "file"
  BY <1>1 DEF OpenOK
<1>6. \A g \in DOMAIN q : \A p \in Paths, i \in Inodes : Reached(R, p, i) => (i = q[g].ino <=> p = q[g].path)
  BY <1>1 DEF OpenOK
<1> QED BY <1>2, <1>3, <1>4, <1>5, <1>6 DEF OpenOK

\* What the driver has cached stays in order.
Unmoved(s, t, j) ==
    /\ t.disk.node[j] = s.disk.node[j] /\ Nodes(t)[j] = Nodes(s)[j]
    /\ \A k \in Used(t) : \A e \in Tree(t)[k] : e.ino # j \/ (k \in Used(s) /\ e \in Tree(s)[k])

\* The world is sound if its parts are and the cache stays in order.
LEMMA Proceeding ==
    ASSUME NEW s, NEW o, World(s, o), NEW t, NEW q, Ready(t), TreeOK(Used(t), Nodes(t), Tree(t)),
           OpenOK(q, Used(t), Nodes(t), Tree(t)),
           \A j \in DOMAIN t.inodes : Holds(q, j) \/ (j \in DOMAIN s.inodes /\ ~Holds(o, j) /\ Unmoved(s, t, j))
    PROVE  World(t, q)
<1>1. CacheOK(t, q)
  <2> SUFFICES ASSUME NEW j \in DOMAIN t.inodes, ~Holds(q, j) PROVE Lost(t, j)
    BY DEF CacheOK
  <2>1. j \in DOMAIN s.inodes /\ ~Holds(o, j) /\ Unmoved(s, t, j)
    OBVIOUS
  <2>2. Lost(s, j)
    BY <2>1 DEF World, CacheOK
  <2>3. \A k \in Used(t) : \A e \in Tree(t)[k] : e.ino # j
    BY <2>1, <2>2 DEF Unmoved, Lost
  <2>4. t.disk.node[j] = s.disk.node[j] /\ Nodes(t)[j] = Nodes(s)[j]
    BY <2>1 DEF Unmoved
  <2> QED BY ONLY <2>2, <2>3, <2>4, StaysLost
<1> QED BY <1>1 DEF World

\* flush_inode
Dropped(s, t, i) ==
    /\ Good(t) /\ View(t) = View(s) /\ DOMAIN t.inodes = DOMAIN s.inodes \ {i}
    /\ \A j \in Inodes \ {i} : t.disk.node[j] = s.disk.node[j]

\* flush_inode drops one inode from the cache.
LEMMA Dropping ==
    ASSUME NGroups = 1, NEW s, Good(s), NEW i \in Inodes, NEW t, t = FlushInode(s, i)
    PROVE  Dropped(s, t, i) /\ (CleanMeta(s) => CleanMeta(t))
<1>1. /\ Good(t) /\ View(t) = View(s)
      /\ DOMAIN t.inodes = DOMAIN s.inodes \ {i} /\ t.disk.node = [s.disk.node EXCEPT ![i] = Inode(s, i)]
      /\ CleanMeta(s) => CleanMeta(t)
  BY FlushingInode
<1>2. s.disk.node \in [Inodes -> InodeRecords]
  BY DEF Good, Drivers, Drives
<1>3. \A j \in Inodes \ {i} : t.disk.node[j] = s.disk.node[j]
  BY ONLY <1>1, <1>2
<1> QED BY <1>1, <1>3 DEF Dropped

\* With the write-back that follows it.
LEMMA DroppingClean ==
    ASSUME NGroups = 1, NEW s, Good(s), NEW i \in Inodes, NEW t, t = FlushMetadata(FlushInode(s, i))
    PROVE  Dropped(s, t, i) /\ CleanMeta(t)
<1> PICK u : u = FlushInode(s, i)
  OBVIOUS
<1>1. Dropped(s, u, i)
  BY Dropping
<1>2. Good(u) /\ t = FlushMetadata(u)
  BY <1>1 DEF Dropped
<1>3. Good(t) /\ View(t) = View(u) /\ CleanMeta(t) /\ Caches(t) = Caches(u)
  BY ONLY NGroups = 1, <1>2, FlushingMetadata
<1>4. t.inodes = u.inodes /\ t.disk.node = u.disk.node
  BY ONLY <1>3 DEF Caches
<1> QED BY <1>1, <1>3, <1>4 DEF Dropped

\* Dropped is transitive.
LEMMA DroppedTwice ==
    ASSUME NEW s, NEW t, NEW u, NEW i, Dropped(s, t, i), Dropped(t, u, i)
    PROVE  Dropped(s, u, i)
<1>1. Good(u) /\ View(u) = View(s) /\ DOMAIN u.inodes = DOMAIN s.inodes \ {i}
  BY DEF Dropped
<1>2. \A j \in Inodes \ {i} : u.disk.node[j] = s.disk.node[j]
  BY DEF Dropped
<1> QED BY <1>1, <1>2 DEF Dropped

\* The driver is as ready as before, and shows the same tree.
LEMMA DroppedReady ==
    ASSUME NGroups = 1, NEW s, Ready(s), NEW i, NEW t, Dropped(s, t, i)
    PROVE  Ready(t) /\ Used(t) = Used(s) /\ Nodes(t) = Nodes(s) /\ Tree(t) = Tree(s) /\ t.disk.ents = s.disk.ents
<1>1. Fit(s) /\ Good(s) /\ Good(t) /\ View(t) = View(s)
  BY DEF Ready, Fit, Dropped
<1>2. Used(t) = Used(s) /\ Nodes(t) = Nodes(s) /\ t.disk.ents = s.disk.ents /\ t.sbI = s.sbI
  BY <1>1 DEF View
<1>3. Fit(t)
  BY <1>1, SameFit
<1>4. Ready(t)
  BY <1>2, <1>3 DEF Ready, Dropped
<1>5. Tree(t) = Tree(s)
  <2>1. ASSUME NEW j \in Inodes PROVE Entries(t, j) = Entries(s, j)
    <3>1. Entries(t, j) = EntriesOf(Nodes(t)[j], t.disk.ents) /\ Entries(s, j) = EntriesOf(Nodes(s)[j], s.disk.ents)
      BY <1>1, EntriesView
    <3> QED BY <1>2, <3>1
  <2> QED BY ONLY <2>1 DEF Tree
<1> QED BY <1>2, <1>4, <1>5

\* The tree of the inodes that are left.
LEMMA LeftTree ==
    ASSUME NGroups = 1, NEW s, Good(s), NEW t, Good(t), t.disk.ents = s.disk.ents, NEW i,
           \A j \in Inodes \ {i} : Nodes(t)[j] = Nodes(s)[j]
    PROVE  \A j \in Inodes \ {i} : Tree(t)[j] = Tree(s)[j]
<1> SUFFICES ASSUME NEW j \in Inodes \ {i} PROVE Tree(t)[j] = Tree(s)[j]
  OBVIOUS
<1>1. Entries(t, j) = EntriesOf(Nodes(t)[j], t.disk.ents) /\ Entries(s, j) = EntriesOf(Nodes(s)[j], s.disk.ents)
  BY EntriesView
<1>2. Tree(t)[j] = Entries(t, j) /\ Tree(s)[j] = Entries(s, j)
  BY DEF Tree
<1>3. Nodes(t)[j] = Nodes(s)[j] /\ t.disk.ents = s.disk.ents
  OBVIOUS
<1> QED BY ONLY <1>1, <1>2, <1>3

\* fclose preserves the invariant, whether or not it deletes the inode.
LEMMA StepClose ==
    ASSUME NGroups = 1, IInv, NEW h \in Handles, Close(h)
    PROVE  IInv'
<1> PICK i : i = open[h].ino
  OBVIOUS
<1> PICK s : s = IF open[h].writing THEN FlushMetadata(FlushInode(fs, i)) ELSE fs
  OBVIOUS
<1> DEFINE gone == Inode(s, i).links = 0 /\ InodeUsed(s, i)
<1> PICK q : q = [g \in DOMAIN open \ {h} |-> open[g]]
  OBVIOUS
<1> PICK w : w = fs'
  OBVIOUS
<1>1. /\ h \in DOMAIN open /\ open' = q
      /\ w = IF gone THEN FlushMetadata(FlushInode(DeallocateInode(s, i), i)) ELSE FlushInode(s, i)
  BY DEF Close
<1>2. /\ World(fs, open) /\ Ready(fs) /\ Good(fs) /\ TreeOK(Used(fs), Nodes(fs), Tree(fs))
      /\ OpenOK(open, Used(fs), Nodes(fs), Tree(fs)) /\ Tidy(fs, open)
  BY DEF IInv, World, Ready, Fit
<1>3. i \in Used(fs) /\ i \in Inodes /\ i # RootInode
  BY <1>1, <1>2 DEF OpenOK, Used
<1>4. s = fs \/ Dropped(fs, s, i)
  <2>1. CASE open[h].writing
    BY <1>2, <1>3, <2>1, DroppingClean
  <2>2. CASE ~open[h].writing
    BY <2>2
  <2> QED BY <2>1, <2>2
<1>5. Ready(s) /\ Good(s) /\ Used(s) = Used(fs) /\ Nodes(s) = Nodes(fs) /\ Tree(s) = Tree(fs) /\ s.disk.ents = fs.disk.ents
  BY <1>2, <1>4, DroppedReady DEF Dropped
<1>6. DOMAIN q = DOMAIN open \ {h} /\ \A g \in DOMAIN q : q[g] = open[g] /\ open[g].ino # i
  BY <1>1, <1>2 DEF OpenOK

\* Nothing is deleted.
<1>7. ASSUME Dropped(s, w, i)
      PROVE  World(w, q)
  <2>1. Dropped(fs, w, i)
    BY <1>4, <1>7, DroppedTwice
  <2>2. Ready(w) /\ Used(w) = Used(fs) /\ Nodes(w) = Nodes(fs) /\ Tree(w) = Tree(fs)
    BY <1>2, <2>1, DroppedReady
  <2>3. OpenOK(q, Used(fs), Nodes(fs), Tree(fs))
    <3>1. /\ \A g \in DOMAIN open \ {h} : open[g].ino \in Used(fs)
          /\ \A k \in Used(fs) : Nodes(fs)[k] = Nodes(fs)[k]
          /\ \A p \in Paths, k \in Inodes : Reached(Tree(fs), p, k) => Reached(Tree(fs), p, k)
      BY <1>2 DEF OpenOK
    <3> QED BY ONLY <1>1, <1>2, q = [g \in DOMAIN open \ {h} |-> open[g]], <3>1, ClosingHandle
  <2>4. \A j \in DOMAIN w.inodes : Holds(q, j) \/ (j \in DOMAIN fs.inodes /\ ~Holds(open, j) /\ Unmoved(fs, w, j))
    <3> SUFFICES ASSUME NEW j \in DOMAIN w.inodes, ~Holds(q, j) PROVE j \in DOMAIN fs.inodes /\ ~Holds(open, j) /\ Unmoved(fs, w, j)
      OBVIOUS
    <3>1. j \in DOMAIN fs.inodes /\ j # i
      BY <2>1 DEF Dropped
    <3>2. ~Holds(open, j)
      BY <1>6, <3>1 DEF Holds
    <3>3. j \in Inodes
      BY <1>2, <3>1 DEF Ready, Used
    <3>4. w.disk.node[j] = fs.disk.node[j]
      BY <2>1, <3>1, <3>3 DEF Dropped
    <3> QED BY <2>2, <3>1, <3>2, <3>4 DEF Unmoved
  <2>5. TreeOK(Used(w), Nodes(w), Tree(w)) /\ OpenOK(q, Used(w), Nodes(w), Tree(w))
    BY <1>2, <2>2, <2>3
  <2> QED BY ONLY <1>2, <2>2, <2>4, <2>5, Proceeding
<1>8. CASE gone
  <2> PICK d : d = DeallocateInode(s, i)
    OBVIOUS
  <2>1. Deleted(s, d, i)
    BY <1>3, <1>5, Deleting
  <2>2. w = FlushMetadata(FlushInode(d, i))
    BY <1>1, <1>8
  <2>3. Good(d)
    BY <1>5, <2>1 DEF Deleted, Ready, Fit
  <2>4. Dropped(d, w, i) /\ CleanMeta(w)
    BY ONLY NGroups = 1, <1>3, <2>2, <2>3, DroppingClean
  <2>5. CASE d = s
    <3>1. Dropped(s, w, i)
      BY <2>4, <2>5
    <3> QED BY <1>1, <1>7, <2>4, <3>1 DEF IInv, Tidy
  <2>6. CASE d # s
    <3>1. /\ Ready(d) /\ CleanMeta(d) /\ Used(d) = Used(s) \ {i} /\ d.disk.ents = s.disk.ents
          /\ DOMAIN d.inodes = DOMAIN s.inodes \ {i}
          /\ \A j \in Inodes \ {i} : Nodes(d)[j] = Nodes(s)[j] /\ d.disk.node[j] = s.disk.node[j]
      BY <2>1, <2>6 DEF Deleted
    <3>2. Ready(w) /\ Used(w) = Used(d) /\ Nodes(w) = Nodes(d) /\ Tree(w) = Tree(d) /\ w.disk.ents = d.disk.ents
      BY <2>4, <3>1, DroppedReady
    <3>3. /\ Ready(w) /\ Used(w) = Used(fs) \ {i} /\ DOMAIN w.inodes \subseteq DOMAIN fs.inodes \ {i}
          /\ \A j \in Inodes \ {i} : Nodes(w)[j] = Nodes(fs)[j] /\ w.disk.node[j] = fs.disk.node[j]
      <4>1. DOMAIN w.inodes = DOMAIN d.inodes \ {i} /\ \A j \in Inodes \ {i} : w.disk.node[j] = d.disk.node[j]
        BY <2>4 DEF Dropped
      <4>2. DOMAIN s.inodes \ {i} = DOMAIN fs.inodes \ {i} /\ \A j \in Inodes \ {i} : s.disk.node[j] = fs.disk.node[j]
        BY <1>4 DEF Dropped
      <4> QED BY ONLY <1>5, <3>1, <3>2, <4>1, <4>2
    <3>4. \A j \in Inodes \ {i} : Tree(w)[j] = Tree(fs)[j]
      <4>1. Good(fs) /\ Good(w) /\ w.disk.ents = fs.disk.ents /\ \A j \in Inodes \ {i} : Nodes(w)[j] = Nodes(fs)[j]
        BY <1>2, <1>5, <3>1, <3>2, <3>3 DEF Ready, Fit
      <4> QED BY ONLY NGroups = 1, <4>1, LeftTree
    <3>5. Nodes(fs)[i].links = 0
      BY <1>3, <1>5, <1>8, NodeAt DEF Good
    <3>6. TreeOK(Used(w), Nodes(w), Tree(w)) /\ \A p \in Paths, k \in Inodes : Reached(Tree(w), p, k) => Reached(Tree(fs), p, k)
      <4>1. Used(w) \in SUBSET Inodes /\ RootInode \in Used(w) /\ Used(w) \subseteq Used(fs)
        BY <1>2, <1>3, <3>3 DEF TreeOK
      <4>2. \A k \in Used(w) \cap Used(fs) : Tree(w)[k] \subseteq Tree(fs)[k]
        BY <3>3, <3>4, <4>1
      <4>3. \A k \in Used(w) \ Used(fs) : Tree(w)[k] = {}
        BY <4>1
      <4>4. \A k \in Used(w) \cap Used(fs) : \A e \in Tree(w)[k] : e.ino \in Used(w) /\ Nodes(w)[e.ino].links > 0
        <5> SUFFICES ASSUME NEW k \in Used(w) \cap Used(fs), NEW e \in Tree(fs)[k] PROVE e.ino \in Used(w) /\ Nodes(w)[e.ino].links > 0
          BY <4>2
        <5>1. e.ino \in Used(fs) /\ Nodes(fs)[e.ino].links > 0
          BY <1>2 DEF TreeOK
        <5>2. e.ino # i
          BY <3>5, <5>1
        <5>3. e.ino \in Inodes
          BY <1>2, <5>1 DEF TreeOK
        <5> QED BY <3>3, <5>1, <5>2, <5>3
      <4> QED BY ONLY NGroups = 1, <1>2, <4>1, <4>2, <4>3, <4>4, Shrinking
    <3>7. OpenOK(q, Used(w), Nodes(w), Tree(w))
      <4>1. \A g \in DOMAIN open \ {h} : open[g].ino \in Used(w)
        BY <1>2, <1>6, <3>3 DEF OpenOK
      <4>2. \A k \in Used(w) : Nodes(w)[k] = Nodes(fs)[k]
        BY <3>3 DEF Used
      <4> QED BY ONLY <1>1, <1>2, q = [g \in DOMAIN open \ {h} |-> open[g]], <3>6, <4>1, <4>2, ClosingHandle
    <3>8. \A j \in DOMAIN w.inodes : Holds(q, j) \/ (j \in DOMAIN fs.inodes /\ ~Holds(open, j) /\ Unmoved(fs, w, j))
      <4> SUFFICES ASSUME NEW j \in DOMAIN w.inodes, ~Holds(q, j) PROVE j \in DOMAIN fs.inodes /\ ~Holds(open, j) /\ Unmoved(fs, w, j)
        OBVIOUS
      <4>1. j \in DOMAIN fs.inodes /\ j # i
        BY <3>3
      <4>2. ~Holds(open, j)
        BY <1>6, <4>1 DEF Holds
      <4>3. j \in Inodes
        BY <1>2, <4>1 DEF Ready, Used
      <4>4. \A k \in Used(w) : k \in Used(fs) /\ Tree(w)[k] = Tree(fs)[k]
        BY <3>3, <3>4 DEF Used
      <4> QED BY <3>3, <4>1, <4>2, <4>3, <4>4 DEF Unmoved
    <3>9. World(w, q)
      BY ONLY <1>2, <3>3, <3>6, <3>7, <3>8, Proceeding
    <3> QED BY <1>1, <2>4, <3>9 DEF IInv, Tidy
  <2> QED BY <2>5, <2>6
<1>9. CASE ~gone
  <2>1. Dropped(s, w, i) /\ (CleanMeta(s) => CleanMeta(w))
    <3>1. w = FlushInode(s, i)
      BY <1>1, <1>9
    <3> QED BY ONLY NGroups = 1, <1>3, <1>5, <3>1, Dropping
  <2>2. World(w, q)
    BY <1>7, <2>1
  <2>3. Tidy(w, q)
    <3>1. CASE open[h].writing
      <4>1. CleanMeta(s)
        BY <1>2, <1>3, <3>1, DroppingClean
      <4> QED BY <2>1, <4>1 DEF Tidy
    <3>2. CASE ~open[h].writing
      <4>1. s = fs
        BY <3>2
      <4>2. CASE CleanMeta(fs)
        BY <2>1, <4>1, <4>2 DEF Tidy
      <4>3. CASE \E g \in DOMAIN open : open[g].writing
        <5>1. PICK g \in DOMAIN open : open[g].writing
          BY <4>3
        <5>2. g \in DOMAIN q /\ q[g] = open[g]
          BY <1>6, <3>2, <5>1
        <5> QED BY <5>1, <5>2 DEF Tidy
      <4> QED BY <1>2, <4>2, <4>3 DEF Tidy
    <3> QED BY <3>1, <3>2
  <2> QED BY <1>1, <2>2, <2>3 DEF IInv
<1> QED BY <1>8, <1>9

-----------------------------------------------------------------------------

-----------------------------------------------------------------------------
(* unlink and rmdir.                                                       *)
\* The open files stay in order while their inodes stay and no path appears.
LEMMA StillOpen ==
    ASSUME NEW o, NEW U, NEW N, NEW T, OpenOK(o, U, N, T),
           NEW W, \A g \in DOMAIN o : o[g].ino \in W, NEW O, \A i \in W : O[i].type = N[i].type,
           NEW R, \A p \in Paths, i \in Inodes : Reached(R, p, i) => Reached(T, p, i)
    PROVE  OpenOK(o, W, O, R)
  BY DEF OpenOK

\* Two inodes differ at most in their links and indirect blocks.
SameFile(m, n) == n.type = m.type /\ n.size = m.size /\ n.direct = m.direct

\* Inode i has lost a link, and with the last one perhaps its place in the
\* bitmap.
Unlinked(s, u, i, o) ==
    /\ Ready(u) /\ u.disk.ents = s.disk.ents /\ Used(u) \in {Used(s), Used(s) \ {i}}
    /\ \A j \in Inodes \ {i} : Nodes(u)[j] = Nodes(s)[j] /\ u.disk.node[j] = s.disk.node[j]
    /\ DOMAIN u.inodes \subseteq DOMAIN s.inodes \cup {i}
    /\ i \in Used(u) => SameFile(Nodes(s)[i], Nodes(u)[i])
    /\ i \notin Used(u) => ~Holds(o, i)
    /\ i \in DOMAIN u.inodes => \/ Holds(o, i)
                                \/ i = NoInodes /\ \E l \in Nat : u.disk.node[i] = [Nodes(u)[i] EXCEPT !.links = l]

\* The cases of unlink and rmdir: others have links, nobody has it open, or
\* somebody does.
LEMMA Unlinking ==
    ASSUME NGroups = 1, NEW s, NEW o, World(s, o), NEW i \in Used(s), ~Lost(s, i), NEW l \in Nat,
           NEW n, n = [Inode(s, i) EXCEPT !.links = l], NEW t, t = SetInode(s, i, n),
           NEW u, \/ u = FlushInode(t, i)
                  \/ u = DeallocateInode(t, i) /\ ~Holds(o, i)
                  \/ u = t /\ Holds(o, i)
    PROVE  Unlinked(s, u, i, o)
<1>1. Ready(s) /\ Fit(s) /\ Good(s) /\ i \in Inodes /\ CacheOK(s, o)
  BY DEF World, Ready, Fit, Used
<1> PICK m : m = Inode(s, i)
  OBVIOUS
<1>2. m = Nodes(s)[i] /\ m \in InodeRecords
  BY <1>1, NodeAt DEF Good
<1>3. /\ n \in InodeRecords /\ n.direct = m.direct /\ n.s = m.s /\ n.d = m.d /\ n.type = m.type /\ n.size = m.size
      /\ m = [n EXCEPT !.links = m.links] /\ m.links \in Nat
  BY <1>2 DEF InodeRecords
<1>4. Fit(t) /\ Placing(s, t, i, n, s.disk.ptr)
  BY ONLY NGroups = 1, i \in Used(s), m = Inode(s, i), t = SetInode(s, i, n), <1>1, <1>3, Resizing
<1>5. /\ Used(t) = Used(s) /\ Nodes(t) = [Nodes(s) EXCEPT ![i] = n] /\ t.disk.ents = s.disk.ents /\ t.sbI = s.sbI
      /\ DOMAIN t.inodes = DOMAIN s.inodes \cup {i} /\ t.disk.node = s.disk.node
  BY ONLY <1>4 DEF Placing
<1>6. Ready(t) /\ Good(t)
  BY <1>1, <1>4, <1>5 DEF Ready, Fit
<1>7. Nodes(t)[i] = n /\ \A j \in Inodes \ {i} : Nodes(t)[j] = Nodes(s)[j]
  <2>1. Nodes(s) \in [Inodes -> InodeRecords]
    BY <1>1, NodeTypes DEF Good
  <2> QED BY ONLY <1>1, <1>5, <2>1
<1>8. SameFile(Nodes(s)[i], Nodes(t)[i])
  BY <1>2, <1>3, <1>7 DEF SameFile
<1>9. ~Holds(o, i) => s.disk.node[i] = m
  <2> SUFFICES ASSUME ~Holds(o, i) PROVE s.disk.node[i] = m
    OBVIOUS
  <2>1. i \notin DOMAIN s.inodes
    BY <1>1 DEF CacheOK
  <2> QED BY <2>1 DEF Inode
<1>10. ASSUME u = t PROVE Unlinked(s, u, i, o)
  <2>1. Holds(o, i) \/ (u = DeallocateInode(t, i) /\ ~Holds(o, i)) \/ u = FlushInode(t, i)
    OBVIOUS
  <2>2. Ready(u) /\ u.disk.ents = s.disk.ents /\ Used(u) = Used(s) /\ DOMAIN u.inodes = DOMAIN s.inodes \cup {i}
        /\ Nodes(u)[i] = n /\ u.disk.node = s.disk.node
    BY <1>5, <1>6, <1>7, <1>10
  <2>3. \A j \in Inodes \ {i} : Nodes(u)[j] = Nodes(s)[j] /\ u.disk.node[j] = s.disk.node[j]
    BY <1>5, <1>7, <1>10
  <2>4. CASE Holds(o, i)
    BY <1>8, <1>10, <2>2, <2>3, <2>4 DEF Unlinked
  <2>5. CASE u = FlushInode(t, i)
    <3>1. i \notin DOMAIN u.inodes
      <4>1. Dropped(t, u, i)
        BY <1>1, <1>6, <2>5, Dropping
      <4> QED BY <4>1 DEF Dropped
    <3> QED BY <2>2, <3>1
  <2>6. CASE u = DeallocateInode(t, i) /\ ~Holds(o, i)
    <3>1. Deleted(t, u, i)
      BY <1>5, <1>6, <2>6, Deleting
    <3>2. i = NoInodes
      <4>1. i \in Used(t)
        BY <1>5
      <4> QED BY <1>10, <3>1, <4>1 DEF Deleted
    <3>3. u.disk.node[i] = [Nodes(u)[i] EXCEPT !.links = m.links]
      BY <1>3, <1>9, <2>2, <2>6
    <3>4. i \in DOMAIN u.inodes => \/ Holds(o, i)
                                   \/ i = NoInodes /\ \E k \in Nat : u.disk.node[i] = [Nodes(u)[i] EXCEPT !.links = k]
      BY <1>3, <3>2, <3>3
    <3>5. i \in Used(u) /\ SameFile(Nodes(s)[i], Nodes(u)[i])
      BY <1>8, <1>10, <2>2
    <3> HIDE <2>6
    <3> QED BY ONLY <2>2, <2>3, <3>4, <3>5 DEF Unlinked
  <2> QED BY <2>1, <2>4, <2>5, <2>6
<1>11. CASE u = FlushInode(t, i)
  <2>1. Dropped(t, u, i)
    BY <1>1, <1>6, <1>11, Dropping
  <2>2. Ready(u) /\ Used(u) = Used(t) /\ Nodes(u) = Nodes(t) /\ u.disk.ents = t.disk.ents
    BY <1>6, <2>1, DroppedReady
  <2>3. DOMAIN u.inodes = DOMAIN t.inodes \ {i} /\ \A j \in Inodes \ {i} : u.disk.node[j] = t.disk.node[j]
    BY <2>1 DEF Dropped
  <2>4. DOMAIN u.inodes \subseteq DOMAIN s.inodes \cup {i} /\ i \notin DOMAIN u.inodes
    BY ONLY <1>5, <2>3
  <2>5. \A j \in Inodes \ {i} : Nodes(u)[j] = Nodes(s)[j] /\ u.disk.node[j] = s.disk.node[j]
    BY ONLY <1>5, <1>7, <2>2, <2>3
  <2>6. Used(u) = Used(s) /\ i \in Used(u) /\ u.disk.ents = s.disk.ents /\ SameFile(Nodes(s)[i], Nodes(u)[i])
    BY <1>5, <1>8, <2>2
  <2> QED BY ONLY <2>2, <2>4, <2>5, <2>6 DEF Unlinked
<1>12. CASE u # t /\ u = DeallocateInode(t, i) /\ ~Holds(o, i)
  <2>1. Deleted(t, u, i)
    BY <1>5, <1>6, <1>12, Deleting
  <2>2. /\ Ready(u) /\ Used(u) = Used(t) \ {i} /\ u.disk.ents = t.disk.ents
        /\ DOMAIN u.inodes = DOMAIN t.inodes \ {i}
        /\ \A j \in Inodes \ {i} : Nodes(u)[j] = Nodes(t)[j] /\ u.disk.node[j] = t.disk.node[j]
    BY <1>12, <2>1 DEF Deleted
  <2>3. Used(u) = Used(s) \ {i} /\ i \notin Used(u) /\ i \notin DOMAIN u.inodes /\ DOMAIN u.inodes \subseteq DOMAIN s.inodes \cup {i}
    BY ONLY <1>5, <2>2
  <2>4. \A j \in Inodes \ {i} : Nodes(u)[j] = Nodes(s)[j] /\ u.disk.node[j] = s.disk.node[j]
    BY ONLY <1>5, <1>7, <2>2
  <2>5. u.disk.ents = s.disk.ents /\ ~Holds(o, i)
    BY <1>5, <1>12, <2>2
  <2> QED BY ONLY <2>2, <2>3, <2>4, <2>5 DEF Unlinked
<1> QED BY <1>10, <1>11, <1>12

\* The parent directory is written without the entry.
LEMMA Unnaming ==
    ASSUME NGroups = 1, NEW s, NEW o, World(s, o), NEW p \in Paths, NEW i \in Used(s), Reached(Tree(s), p, i),
           NEW u, Unlinked(s, u, i, o), NEW dir, dir = ParentOf(Tree(s), p),
           NEW rest, rest = {e \in Entries(s, dir) : e.ino # i}, NEW w, w = DirectoryFlush(u, dir, rest)
    PROVE  World(w, o) /\ CleanMeta(w)
<1>1. /\ Ready(s) /\ Good(s) /\ TreeOK(Used(s), Nodes(s), Tree(s)) /\ OpenOK(o, Used(s), Nodes(s), Tree(s)) /\ CacheOK(s, o)
      /\ i \in Inodes /\ Used(s) \subseteq Inodes
  BY DEF World, Ready, Fit, Used
<1>2. /\ Ready(u) /\ u.disk.ents = s.disk.ents /\ Used(u) \in {Used(s), Used(s) \ {i}}
      /\ \A j \in Inodes \ {i} : Nodes(u)[j] = Nodes(s)[j] /\ u.disk.node[j] = s.disk.node[j]
      /\ DOMAIN u.inodes \subseteq DOMAIN s.inodes \cup {i}
      /\ i \in Used(u) => SameFile(Nodes(s)[i], Nodes(u)[i])
      /\ i \notin Used(u) => ~Holds(o, i)
      /\ i \in DOMAIN u.inodes => \/ Holds(o, i)
                                  \/ i = NoInodes /\ \E l \in Nat : u.disk.node[i] = [Nodes(u)[i] EXCEPT !.links = l]
  BY DEF Unlinked
<1>3. /\ dir \in Used(s) /\ dir # i /\ \A k \in Used(s) \ {dir} : \A f \in Tree(s)[k] : f.ino # i
  BY <1>1, ParentUsed
<1>4. i # RootInode
  BY <1>1, Reaching
<1>5. dir \in Used(u) /\ dir \in Inodes
  BY <1>1, <1>2, <1>3
<1>6. rest \in SUBSET EntryRecords /\ rest \subseteq Tree(s)[dir] /\ \A e \in rest : e.ino # i
  <2>1. Tree(s)[dir] = Entries(s, dir)
    BY <1>5 DEF Tree
  <2>2. Tree(s)[dir] \subseteq EntryRecords
    BY <1>1, <1>3 DEF TreeOK
  <2> QED BY <2>1, <2>2
<1>7. Rewritten(u, w, dir, rest)
  <2>1. Fit(u) /\ MaxFile > 0
    BY <1>2, ExtAssumption DEF Ready
  <2> QED BY ONLY NGroups = 1, w = DirectoryFlush(u, dir, rest), <1>5, <1>6, <2>1, Rewriting
<1>8. /\ Fit(w) /\ CleanMeta(w) /\ Used(w) = Used(u) /\ w.sbI = u.sbI
      /\ Nodes(w)[dir].type = Nodes(u)[dir].type /\ Nodes(w)[dir].links = Nodes(u)[dir].links
      /\ \A j \in Inodes \ {dir} : Nodes(w)[j] = Nodes(u)[j] /\ w.disk.node[j] = u.disk.node[j]
      /\ DOMAIN w.inodes = DOMAIN u.inodes \ {dir}
      /\ Entries(w, dir) \in {rest, {}}
      /\ \A j \in Used(u) \ {dir} : Entries(w, j) = Entries(u, j)
  BY <1>7 DEF Rewritten
<1>9. Ready(w)
  BY <1>2, <1>8 DEF Ready
<1>10. \A k \in Used(w) : k \in Used(s) /\ k \in Inodes
  BY <1>1, <1>2, <1>8
<1>11. \A k \in Used(w) : Tree(w)[k] \subseteq Tree(s)[k]
  <2> SUFFICES ASSUME NEW k \in Used(w) PROVE Tree(w)[k] \subseteq Tree(s)[k]
    OBVIOUS
  <2>1. Tree(w)[k] = Entries(w, k) /\ Tree(s)[k] = Entries(s, k)
    BY <1>10 DEF Tree
  <2>2. CASE k = dir
    BY <1>6, <1>8, <2>1, <2>2
  <2>3. CASE k # dir
    <3>1. Entries(w, k) = Entries(u, k)
      BY <1>8, <2>3
    <3>2. Entries(u, k) = EntriesOf(Nodes(u)[k], u.disk.ents) /\ Entries(s, k) = EntriesOf(Nodes(s)[k], s.disk.ents)
      BY <1>1, <1>2, <1>10, EntriesView DEF Ready, Fit
    <3>3. Nodes(u)[k] = Nodes(s)[k] \/ SameFile(Nodes(s)[k], Nodes(u)[k])
      BY <1>2, <1>8, <1>10
    <3>4. EntriesOf(Nodes(u)[k], s.disk.ents) = EntriesOf(Nodes(s)[k], s.disk.ents)
      BY <3>3 DEF SameFile, EntriesOf
    <3> QED BY <1>2, <2>1, <3>1, <3>2, <3>4
  <2> QED BY <2>2, <2>3
<1>12. \A k \in Used(w) : \A e \in Tree(w)[k] : e.ino # i
  <2> SUFFICES ASSUME NEW k \in Used(w), NEW e \in Tree(w)[k] PROVE e.ino # i
    OBVIOUS
  <2>1. CASE k = dir
    <3>1. Tree(w)[k] = Entries(w, k)
      BY <1>10 DEF Tree
    <3> QED BY <1>6, <1>8, <2>1, <3>1
  <2>2. CASE k # dir
    BY <1>3, <1>10, <1>11, <2>2
  <2> QED BY <2>1, <2>2
<1>13. \A k \in Inodes \ {i} : Nodes(w)[k].links = Nodes(s)[k].links /\ Nodes(w)[k].type = Nodes(s)[k].type
  <2> SUFFICES ASSUME NEW k \in Inodes \ {i} PROVE Nodes(w)[k].links = Nodes(s)[k].links /\ Nodes(w)[k].type = Nodes(s)[k].type
    OBVIOUS
  <2>1. CASE k = dir
    BY <1>2, <1>8, <2>1
  <2>2. CASE k # dir
    BY <1>2, <1>8, <2>2
  <2> QED BY <2>1, <2>2
<1>14. \A k \in Used(w) : Nodes(w)[k].type = Nodes(s)[k].type
  <2>1. i \in Used(w) => Nodes(w)[i].type = Nodes(s)[i].type
    BY <1>1, <1>2, <1>3, <1>8 DEF SameFile
  <2> QED BY <1>10, <1>13, <2>1
<1>15. TreeOK(Used(w), Nodes(w), Tree(w)) /\ \A q \in Paths, k \in Inodes : Reached(Tree(w), q, k) => Reached(Tree(s), q, k)
  <2>1. Used(w) \in SUBSET Inodes /\ RootInode \in Used(w)
    BY <1>1, <1>2, <1>4, <1>8 DEF TreeOK
  <2>2. /\ \A k \in Used(w) \cap Used(s) : Tree(w)[k] \subseteq Tree(s)[k]
        /\ \A k \in Used(w) \ Used(s) : Tree(w)[k] = {}
    BY <1>10, <1>11
  <2>3. \A k \in Used(w) \cap Used(s) : \A e \in Tree(w)[k] : e.ino \in Used(w) /\ Nodes(w)[e.ino].links > 0
    <3> SUFFICES ASSUME NEW k \in Used(w), NEW e \in Tree(w)[k] PROVE e.ino \in Used(w) /\ Nodes(w)[e.ino].links > 0
      OBVIOUS
    <3>1. k \in Used(s) /\ e \in Tree(s)[k] /\ e.ino # i
      BY <1>10, <1>11, <1>12
    <3>2. e.ino \in Used(s) /\ Nodes(s)[e.ino].links > 0 /\ e.ino \in Inodes
      BY <1>1, <3>1 DEF TreeOK
    <3> QED BY <1>2, <1>8, <1>13, <3>1, <3>2
  <2> QED BY ONLY NGroups = 1, <1>1, <2>1, <2>2, <2>3, Shrinking
<1>16. OpenOK(o, Used(w), Nodes(w), Tree(w))
  <2>1. \A g \in DOMAIN o : o[g].ino \in Used(w)
    BY <1>1, <1>2, <1>8 DEF OpenOK, Holds
  <2> QED BY ONLY <1>1, <1>14, <1>15, <2>1, StillOpen
<1>17. CacheOK(w, o)
  <2> SUFFICES ASSUME NEW j \in DOMAIN w.inodes, ~Holds(o, j) PROVE Lost(w, j)
    BY DEF CacheOK
  <2>1. j \in DOMAIN u.inodes /\ j # dir
    BY <1>8
  <2>2. CASE j = i
    <3>1. i = NoInodes /\ \E l \in Nat : u.disk.node[i] = [Nodes(u)[i] EXCEPT !.links = l]
      BY <1>2, <2>1, <2>2
    <3>2. w.disk.node[i] = u.disk.node[i] /\ Nodes(w)[i] = Nodes(u)[i]
      BY <1>1, <1>3, <1>8
    <3>3. \E l \in Nat : w.disk.node[i] = [Nodes(w)[i] EXCEPT !.links = l]
      BY ONLY <3>1, <3>2
    <3> QED BY ONLY <1>4, <1>12, <2>2, <3>1, <3>3 DEF Lost
  <2>3. CASE j # i
    <3>1. j \in DOMAIN s.inodes
      BY <1>2, <2>1, <2>3
    <3>2. Lost(s, j) /\ j \in Inodes
      BY <1>1, <3>1 DEF CacheOK, Ready
    <3>3. w.disk.node[j] = s.disk.node[j] /\ Nodes(w)[j] = Nodes(s)[j]
      BY <1>2, <1>8, <2>1, <2>3, <3>2
    <3>4. \A k \in Used(w) : \A e \in Tree(w)[k] : e.ino # j
      BY <1>10, <1>11, <3>2 DEF Lost
    <3> QED BY ONLY <3>2, <3>3, <3>4, StaysLost
  <2> QED BY <2>2, <2>3
<1> QED BY <1>8, <1>9, <1>15, <1>16, <1>17 DEF World

\* The world is sound without the name.
LEMMA Removing ==
    ASSUME NGroups = 1, NEW s, World(s, open), NEW p \in Paths, NEW i, i = GetInodeIndex(s, p), i # 0,
           NEW w, w = Removed(s, p, i)
    PROVE  World(w, open) /\ CleanMeta(w)
<1>1. /\ i \in Used(s) /\ i \in Inodes /\ Reached(Tree(s), p, i) /\ Nodes(s)[i] = Inode(s, i)
      /\ Ready(s) /\ Good(s) /\ Fit(s) /\ TreeOK(Used(s), Nodes(s), Tree(s)) /\ OpenOK(open, Used(s), Nodes(s), Tree(s))
  BY FindUsed DEF World, Ready, Fit
<1> PICK n : n = Inode(s, i)
  OBVIOUS
<1> PICK l : l = IF n.links = 0 THEN 0 ELSE n.links - 1
  OBVIOUS
<1>2. n \in InodeRecords /\ n.links \in Nat /\ l \in Nat
  BY <1>1, NodeAt DEF Good, InodeRecords
<1> PICK m : m = [n EXCEPT !.links = l]
  OBVIOUS
<1>3. m = [n EXCEPT !.links = IF @ = 0 THEN 0 ELSE @ - 1] /\ m.links = l /\ m \in InodeRecords
  BY <1>2 DEF InodeRecords
<1> PICK t : t = SetInode(s, i, m)
  OBVIOUS
<1> PICK dir : dir = ParentIndex(s, p)
  OBVIOUS
<1> PICK rest : rest = {e \in Entries(s, dir) : e.ino # i}
  OBVIOUS
<1> PICK u : u = CASE l # 0 -> FlushInode(t, i)
                   [] l = 0 /\ ~IsOpen(p) -> DeallocateInode(t, i)
                   [] OTHER -> t
  OBVIOUS
<1>4. Inode(t, i) = m
  <2>1. s.inodes \in Cached(Inodes, InodeRecords)
    BY <1>1 DEF Good, Drivers
  <2>2. t.inodes = With(s.inodes, i, m)
    BY <1>1 DEF SetInode, Good, Drivers
  <2> QED BY <2>2 DEF Inode, With
<1>5. w = DirectoryFlush(u, dir, rest)
  BY <1>3, <1>4 DEF Removed
<1>6. IsOpen(p) <=> Holds(open, i)
  <2>1. \A h \in DOMAIN open : i = open[h].ino <=> p = open[h].path
    BY <1>1 DEF OpenOK
  <2> QED BY <2>1 DEF IsOpen, Holds
<1>7. \/ u = FlushInode(t, i)
      \/ u = DeallocateInode(t, i) /\ ~Holds(open, i)
      \/ u = t /\ Holds(open, i)
  <2>1. CASE l # 0
    BY <2>1
  <2>2. CASE l = 0 /\ ~IsOpen(p)
    BY <1>6, <2>2
  <2>3. CASE l = 0 /\ IsOpen(p)
    BY <1>6, <2>3
  <2> QED BY <2>1, <2>2, <2>3
<1>8. ~Lost(s, i)
  <2>1. \E j \in Used(s) : \E e \in Tree(s)[j] : e.ino = i
    <3> PICK j : j = ParentOf(Tree(s), p)
      OBVIOUS
    <3>1. j \in Used(s) /\ Named(Tree(s)[j], p[Len(p)], i)
      BY <1>1, ParentUsed
    <3> QED BY <3>1 DEF Named
  <2> QED BY <2>1 DEF Lost
<1>9. Unlinked(s, u, i, open)
  <2>1. m = [Inode(s, i) EXCEPT !.links = l] /\ t = SetInode(s, i, m)
    OBVIOUS
  <2> QED BY ONLY NGroups = 1, World(s, open), <1>1, <1>2, <1>7, <1>8, <2>1, Unlinking
<1>10. dir = ParentOf(Tree(s), p)
  BY <1>1, PathLookup
<1> QED BY ONLY NGroups = 1, World(s, open), p \in Paths, <1>1, <1>5, <1>9, <1>10, rest = {e \in Entries(s, dir) : e.ino # i}, Unnaming

\* unlink and rmdir preserve the invariant.
LEMMA StepRemove ==
    ASSUME NGroups = 1, IInv, NEW p \in Paths, Unlink(p) \/ Rmdir(p)
    PROVE  IInv'
<1> PICK i : i = GetInodeIndex(fs, p)
  OBVIOUS
<1> PICK s : s = FlushMetadata(fs)
  OBVIOUS
<1>1. i # 0 /\ fs' = Removed(s, p, i) /\ open' = open
  BY DEF Unlink, Rmdir
<1>2. World(fs, open)
  BY DEF IInv
<1>3. World(s, open) /\ Tree(s) = Tree(fs)
  BY <1>2, Flushed
<1>4. i = GetInodeIndex(s, p)
  <2>1. GetInodeIndex(fs, p) = Find(Tree(fs), p)
    BY <1>2, PathLookup DEF World
  <2>2. GetInodeIndex(s, p) = Find(Tree(s), p)
    BY <1>3, PathLookup DEF World
  <2> QED BY <1>3, <2>1, <2>2
<1> PICK w : w = Removed(s, p, i)
  OBVIOUS
<1>5. World(w, open) /\ CleanMeta(w)
  BY <1>1, <1>3, <1>4, Removing
<1> QED BY <1>1, <1>5 DEF IInv, Tidy

-----------------------------------------------------------------------------

-----------------------------------------------------------------------------
(* fopen of a new file and mkdir.                                          *)
\* What Created leaves: inode i is new and named e in the directory j, unless
\* the directory lost its entries.
Made(s, x, i, j, type, e) ==
    /\ Ready(x) /\ CleanMeta(x) /\ i \in Inodes \ Used(s) /\ Used(x) = Used(s) \cup {i}
    /\ Nodes(x)[i].type = type /\ Nodes(x)[i].links = 1
    /\ Nodes(x)[j].type = Nodes(s)[j].type /\ Nodes(x)[j].links = Nodes(s)[j].links
    /\ \A k \in Inodes \ {i, j} : Nodes(x)[k] = Nodes(s)[k] /\ x.disk.node[k] = s.disk.node[k]
    /\ DOMAIN x.inodes \subseteq (DOMAIN s.inodes \cup {i}) \ {j}
    /\ type = "dir" => i \notin DOMAIN x.inodes
    /\ Tree(x)[i] = {} /\ Tree(x)[j] \in {Tree(s)[j] \cup {e}, {}} /\ \A k \in Used(s) \ {j} : Tree(x)[k] = Tree(s)[k]

\* The tree with the new name, the open files and the cache are in order.
LEMMA Naming ==
    ASSUME NGroups = 1, NEW s, NEW o, World(s, o), NEW p \in Paths, Find(Tree(s), p) = 0, NEW j \in Used(s), j = ParentOf(Tree(s), p),
           \A g \in DOMAIN o : o[g].path # p, NEW i, NEW e, e = [name |-> p[Len(p)], ino |-> i],
           NEW x, NEW type, Made(s, x, i, j, type, e)
    PROVE  /\ TreeOK(Used(x), Nodes(x), Tree(x)) /\ OpenOK(o, Used(x), Nodes(x), Tree(x))
           /\ \A q \in Paths, k \in Inodes : Reached(Tree(x), q, k) => (k = i <=> q = p)
           /\ \A k \in DOMAIN x.inodes : k = i \/ Holds(o, k) \/ Lost(x, k)
           /\ \A g \in DOMAIN o : o[g].ino # i
<1>1. /\ Ready(s) /\ Good(s) /\ TreeOK(Used(s), Nodes(s), Tree(s)) /\ OpenOK(o, Used(s), Nodes(s), Tree(s)) /\ CacheOK(s, o)
      /\ Used(s) \subseteq Inodes /\ RootInode \in Used(s)
  BY DEF World, Ready, Fit, Used, TreeOK
<1>2. /\ i \in Inodes \ Used(s) /\ Used(x) = Used(s) \cup {i}
      /\ Nodes(x)[i].type = type /\ Nodes(x)[i].links = 1
      /\ Nodes(x)[j].type = Nodes(s)[j].type /\ Nodes(x)[j].links = Nodes(s)[j].links
      /\ \A k \in Inodes \ {i, j} : Nodes(x)[k] = Nodes(s)[k] /\ x.disk.node[k] = s.disk.node[k]
      /\ DOMAIN x.inodes \subseteq (DOMAIN s.inodes \cup {i}) \ {j}
      /\ Tree(x)[i] = {} /\ Tree(x)[j] \in {Tree(s)[j] \cup {e}, {}} /\ \A k \in Used(s) \ {j} : Tree(x)[k] = Tree(s)[k]
  BY DEF Made
<1>3. \A k \in Used(s) : Nodes(x)[k].links = Nodes(s)[k].links /\ Nodes(x)[k].type = Nodes(s)[k].type
  <2> SUFFICES ASSUME NEW k \in Used(s) PROVE Nodes(x)[k].links = Nodes(s)[k].links /\ Nodes(x)[k].type = Nodes(s)[k].type
    OBVIOUS
  <2>1. CASE k = j
    BY <1>2, <2>1
  <2>2. CASE k # j
    BY <1>1, <1>2, <2>2
  <2> QED BY <2>1, <2>2
<1>4. /\ TreeOK(Used(x), Nodes(x), Tree(x))
      /\ \A q \in Paths, k \in Inodes : Reached(Tree(x), q, k) => Reached(Tree(s), q, k) \/ (q = p /\ k = i)
  <2>1. CASE Tree(x)[j] = Tree(s)[j] \cup {e}
    <3>1. /\ \A k \in Used(s) : Nodes(x)[k].links = Nodes(s)[k].links
          /\ Nodes(x)[i].links > 0 /\ i \in Inodes \ Used(s) /\ Tree(x)[i] = {}
          /\ \A k \in Used(s) \ {j} : Tree(x)[k] = Tree(s)[k]
      BY <1>2, <1>3
    <3> PICK U : U = Used(s)
      OBVIOUS
    <3> PICK T : T = Tree(s)
      OBVIOUS
    <3> PICK R : R = Tree(x)
      OBVIOUS
    <3> PICK N : N = Nodes(s)
      OBVIOUS
    <3> PICK O : O = Nodes(x)
      OBVIOUS
    <3>2. /\ TreeOK(U, N, T) /\ i \in Inodes \ U /\ p \in Paths /\ j \in U /\ j = ParentOf(T, p) /\ Find(T, p) = 0
          /\ e = [name |-> p[Len(p)], ino |-> i]
          /\ R[j] = T[j] \cup {e} /\ R[i] = {} /\ \A k \in U \ {j} : R[k] = T[k]
          /\ (\A k \in U : O[k].links = N[k].links) /\ O[i].links > 0
      <4>1. TreeOK(U, N, T) /\ j = ParentOf(T, p) /\ Find(T, p) = 0
        BY <1>1
      <4>2. R[j] = T[j] \cup {e} /\ R[i] = {} /\ \A k \in U \ {j} : R[k] = T[k]
        BY <2>1, <3>1
      <4>3. (\A k \in U : O[k].links = N[k].links) /\ O[i].links > 0
        BY <3>1
      <4>4. i \in Inodes \ U /\ p \in Paths /\ j \in U
        BY <3>1
      <4> QED BY ONLY e = [name |-> p[Len(p)], ino |-> i], <4>1, <4>2, <4>3, <4>4
    <3>3. /\ TreeOK(U \cup {i}, O, R)
          /\ \A q \in Paths, k \in Inodes : Reached(R, q, k) => Reached(T, q, k) \/ (q = p /\ k = i)
      <4> Grows(U, N, T, O, R, p, i, j, e)
        BY ONLY <3>2 DEF Grows
      <4> QED BY ONLY NGroups = 1, Grows(U, N, T, O, R, p, i, j, e), Growing
    <3> QED BY <1>2, <3>3
  <2>2. CASE Tree(x)[j] = {}
    <3> PICK W : W = Used(s) \cup {i}
      OBVIOUS
    <3>1. /\ W \in SUBSET Inodes /\ RootInode \in W /\ \A k \in W \ Used(s) : Tree(x)[k] = {}
          /\ \A k \in W \cap Used(s) : Tree(x)[k] \subseteq Tree(s)[k]
      BY <1>1, <1>2, <2>2
    <3>2. \A k \in W \cap Used(s) : \A f \in Tree(x)[k] : f.ino \in W /\ Nodes(x)[f.ino].links > 0
      <4> SUFFICES ASSUME NEW k \in Used(s), NEW f \in Tree(s)[k] PROVE f.ino \in W /\ Nodes(x)[f.ino].links > 0
        BY <3>1
      <4>1. f.ino \in Used(s) /\ Nodes(s)[f.ino].links > 0
        BY <1>1 DEF TreeOK
      <4> QED BY <1>3, <4>1
    <3>3. /\ TreeOK(W, Nodes(x), Tree(x))
          /\ \A q \in Paths, k \in Inodes : Reached(Tree(x), q, k) => Reached(Tree(s), q, k)
      BY ONLY NGroups = 1, <1>1, <3>1, <3>2, Shrinking
    <3> QED BY <1>2, <3>3
  <2> QED BY <1>2, <2>1, <2>2
<1>5. \A q \in Paths, k \in Inodes : Reached(Tree(s), q, k) => k # i /\ q # p
  <2> SUFFICES ASSUME NEW q \in Paths, NEW k \in Inodes, Reached(Tree(s), q, k) PROVE k # i /\ q # p
    OBVIOUS
  <2>1. k \in Used(s) /\ Find(Tree(s), q) = k
    BY <1>1, Reaching
  <2> QED BY <1>2, <2>1, InodeNat
<1>6. \A q \in Paths, k \in Inodes : Reached(Tree(x), q, k) => (k = i <=> q = p)
  BY <1>4, <1>5
<1>7. \A g \in DOMAIN o : o[g].ino # i
  BY <1>1, <1>2 DEF OpenOK
<1>8. OpenOK(o, Used(x), Nodes(x), Tree(x))
  <2>1. \A g \in DOMAIN o : o[g].ino \in Used(x) /\ o[g].ino # RootInode /\ Nodes(x)[o[g].ino].type = "file"
    BY <1>1, <1>2, <1>3 DEF OpenOK
  <2>2. \A g \in DOMAIN o : \A q \in Paths, k \in Inodes : Reached(Tree(x), q, k) => (k = o[g].ino <=> q = o[g].path)
    BY <1>1, <1>4, <1>7 DEF OpenOK
  <2> QED BY <1>1, <2>1, <2>2 DEF OpenOK
<1>9. ASSUME NEW k \in DOMAIN x.inodes, k # i, ~Holds(o, k) PROVE Lost(x, k)
  <2>1. k \in DOMAIN s.inodes /\ k # j
    BY <1>2, <1>9
  <2>2. Lost(s, k) /\ k \in Inodes
    BY <1>1, <1>9, <2>1 DEF CacheOK, Ready
  <2>3. \A l \in Used(x) : \A f \in Tree(x)[l] : f.ino # k
    <3> SUFFICES ASSUME NEW l \in Used(x), NEW f \in Tree(x)[l] PROVE f.ino # k
      OBVIOUS
    <3>1. l \in Used(s) /\ (f \in Tree(s)[l] \/ f = e)
      BY <1>2
    <3>2. e.ino = i
      OBVIOUS
    <3> QED BY <1>9, <2>2, <3>1, <3>2 DEF Lost
  <2>4. x.disk.node[k] = s.disk.node[k] /\ Nodes(x)[k] = Nodes(s)[k]
    BY <1>2, <1>9, <2>1, <2>2
  <2> QED BY ONLY <2>2, <2>3, <2>4, StaysLost
<1> QED BY <1>4, <1>6, <1>7, <1>8, <1>9

\* Created fails and changes nothing, or makes and names a new inode.
LEMMA Making ==
    ASSUME NGroups = 1, NEW s, Ready(s), NEW p \in Paths, NEW j \in Used(s), NEW type \in {"file", "dir"},
           Tree(s)[j] \subseteq EntryRecords, NEW q, q = Created(s, p, j, type)
    PROVE  \/ q.i = 0 /\ q.s = s
           \/ q.i # 0 /\ Made(s, q.s, q.i, j, type, [name |-> p[Len(p)], ino |-> q.i])
<1>1. Fit(s) /\ Good(s) /\ j \in Inodes /\ Used(s) \subseteq Inodes /\ 0 \notin Inodes /\ MaxFile > 0
  BY InodeNat, ExtAssumption DEF Ready, Fit, Used
<1> PICK t : t = AllocateNewInode(s, j)
  OBVIOUS
<1> PICK a : a = t.s
  OBVIOUS
<1> PICK i : i = t.i
  OBVIOUS
<1>2. Born(s, t)
  BY <1>1, Bearing
<1>3. CASE i = 0
  <2>1. q = t
    BY <1>3 DEF Created
  <2>2. a = s
    BY <1>1, <1>2, <1>3 DEF Born
  <2> QED BY <1>3, <2>1, <2>2
<1>4. CASE i # 0
  <2>1. /\ i \in Inodes \ Used(s) /\ Ready(a) /\ Used(a) = Used(s) \cup {i}
        /\ Nodes(a) = [Nodes(s) EXCEPT ![i] = BlankInode]
        /\ a.disk.ents = s.disk.ents /\ a.disk.node = s.disk.node
        /\ DOMAIN a.inodes = DOMAIN s.inodes \cup {i}
    BY <1>2, <1>4 DEF Born
  <2>2. Fit(a) /\ Good(a) /\ i \in Used(a) /\ i \in Inodes /\ Nodes(s) \in [Inodes -> InodeRecords] /\ Nodes(a) \in [Inodes -> InodeRecords]
    BY <1>1, <2>1, NodeTypes DEF Ready, Fit, Good
  <2> PICK m : m = Inode(a, i)
    OBVIOUS
  <2>3. m = BlankInode /\ m \in InodeRecords /\ m.size = 0
    <3>1. m = Nodes(a)[i] /\ m \in InodeRecords
      BY <2>2, NodeAt DEF Good
    <3>2. Nodes(a)[i] = BlankInode
      BY ONLY <2>1, <2>2
    <3> QED BY <3>1, <3>2 DEF BlankInode
  <2> PICK n : n = [m EXCEPT !.type = type, !.links = 1]
    OBVIOUS
  <2>4. /\ n \in InodeRecords /\ n.direct = m.direct /\ n.s = m.s /\ n.d = m.d /\ n.type = type /\ n.links = 1 /\ n.size = 0
    BY <2>3 DEF InodeRecords, Types
  <2> PICK u : u = SetInode(a, i, n)
    OBVIOUS
  <2>5. Fit(u) /\ Placing(a, u, i, n, a.disk.ptr)
    BY ONLY NGroups = 1, m = Inode(a, i), u = SetInode(a, i, n), <2>2, <2>4, Resizing
  <2>6. /\ Good(u) /\ Used(u) = Used(a) /\ Nodes(u) = [Nodes(a) EXCEPT ![i] = n] /\ u.disk.ents = a.disk.ents /\ u.sbI = a.sbI
        /\ DOMAIN u.inodes = DOMAIN a.inodes \cup {i} /\ u.disk.node = a.disk.node
    BY ONLY <2>5 DEF Placing
  <2>7. /\ Ready(u) /\ Used(u) = Used(s) \cup {i} /\ DOMAIN u.inodes = DOMAIN s.inodes \cup {i}
        /\ u.disk.ents = s.disk.ents /\ u.disk.node = s.disk.node
    BY <2>1, <2>5, <2>6 DEF Ready
  <2>8. Nodes(u)[i] = n /\ \A k \in Inodes \ {i} : Nodes(u)[k] = Nodes(s)[k]
    BY ONLY <2>1, <2>2, <2>6
  <2>9. Tree(u)[i] = {} /\ \A k \in Inodes \ {i} : Tree(u)[k] = Tree(s)[k]
    <3>1. Tree(u)[i] = EntriesOf(Nodes(u)[i], u.disk.ents)
      <4>1. Good(u) /\ i \in Inodes
        BY ONLY <2>2, <2>6
      <4> QED BY ONLY NGroups = 1, <4>1, EntriesView DEF Tree
    <3>2. EntriesOf(n, u.disk.ents) = {}
      BY <2>4 DEF EntriesOf
    <3>3. Good(u) /\ u.disk.ents = s.disk.ents
      BY <2>6, <2>7
    <3>4. \A k \in Inodes \ {i} : Tree(u)[k] = Tree(s)[k]
      BY ONLY NGroups = 1, <1>1, <2>8, <3>3, LeftTree
    <3> QED BY <2>8, <3>1, <3>2, <3>4
  <2> PICK e : e = [name |-> p[Len(p)], ino |-> i]
    OBVIOUS
  <2>10. e \in EntryRecords
    BY <2>2, PathForms DEF EntryRecords
  <2> PICK new : new = Entries(u, j) \cup {e}
    OBVIOUS
  <2>11. j # i /\ j \in Used(u) /\ new = Tree(s)[j] \cup {e} /\ new \in SUBSET EntryRecords
    <3>1. Entries(u, j) = Tree(u)[j]
      BY <1>1 DEF Tree
    <3> QED BY <1>1, <2>1, <2>7, <2>9, <2>10, <3>1
  <2> PICK v : v = DirectoryFlush(u, j, new)
    OBVIOUS
  <2>12. Rewritten(u, v, j, new)
    BY ONLY NGroups = 1, v = DirectoryFlush(u, j, new), <1>1, <2>5, <2>11, Rewriting
  <2>13. /\ Fit(v) /\ CleanMeta(v) /\ Used(v) = Used(u) /\ v.sbI = u.sbI
         /\ Nodes(v)[j].type = Nodes(u)[j].type /\ Nodes(v)[j].links = Nodes(u)[j].links
         /\ \A k \in Inodes \ {j} : Nodes(v)[k] = Nodes(u)[k] /\ v.disk.node[k] = u.disk.node[k]
         /\ DOMAIN v.inodes = DOMAIN u.inodes \ {j}
         /\ Entries(v, j) \in {new, {}}
         /\ \A k \in Used(u) \ {j} : Entries(v, k) = Entries(u, k)
    BY <2>12 DEF Rewritten
  <2>14. Ready(v)
    BY ONLY <2>7, <2>13 DEF Ready
  <2>15. \A k \in Inodes : Tree(v)[k] = Entries(v, k) /\ Tree(u)[k] = Entries(u, k)
    BY DEF Tree
  \* the state after the parent is written
  <2>16. /\ Nodes(v)[i].type = type /\ Nodes(v)[i].links = 1
         /\ Nodes(v)[j].type = Nodes(s)[j].type /\ Nodes(v)[j].links = Nodes(s)[j].links
         /\ \A k \in Inodes \ {i, j} : Nodes(v)[k] = Nodes(s)[k] /\ v.disk.node[k] = s.disk.node[k]
         /\ DOMAIN v.inodes \subseteq (DOMAIN s.inodes \cup {i}) \ {j}
    <3>1. Nodes(v)[i] = n
      BY ONLY <2>2, <2>8, <2>11, <2>13
    <3>2. Nodes(v)[j].type = Nodes(s)[j].type /\ Nodes(v)[j].links = Nodes(s)[j].links
      BY ONLY <1>1, <2>8, <2>11, <2>13
    <3>3. \A k \in Inodes \ {i, j} : Nodes(v)[k] = Nodes(s)[k] /\ v.disk.node[k] = s.disk.node[k]
      BY ONLY <2>7, <2>8, <2>13
    <3>4. DOMAIN v.inodes \subseteq (DOMAIN s.inodes \cup {i}) \ {j}
      BY ONLY <2>7, <2>13
    <3> QED BY <2>4, <3>1, <3>2, <3>3, <3>4
  <2>17. Tree(v)[i] = {} /\ Tree(v)[j] \in {Tree(s)[j] \cup {e}, {}} /\ \A k \in Used(s) \ {j} : Tree(v)[k] = Tree(s)[k]
    <3>1. Tree(v)[i] = {}
      <4>1. i \in Used(u) \ {j} /\ i \in Inodes
        BY ONLY <2>2, <2>6, <2>11
      <4>2. Entries(v, i) = Entries(u, i)
        BY ONLY <2>13, <4>1
      <4> QED BY ONLY <2>9, <2>15, <4>1, <4>2
    <3>2. Tree(v)[j] \in {Tree(s)[j] \cup {e}, {}}
      BY ONLY <1>1, <2>11, <2>13, <2>15
    <3>3. ASSUME NEW k \in Used(s) \ {j} PROVE Tree(v)[k] = Tree(s)[k]
      <4>1. k \in Used(u) \ {j} /\ k \in Inodes \ {i}
        BY ONLY <1>1, <2>1, <2>7, <3>3
      <4>2. Entries(v, k) = Entries(u, k)
        BY ONLY <2>13, <4>1
      <4>3. Tree(u)[k] = Tree(s)[k]
        BY ONLY <2>9, <4>1
      <4> QED BY ONLY <2>15, <4>1, <4>2, <4>3
    <3> QED BY <3>1, <3>2, <3>3
  <2>18. i \in Inodes \ Used(s) /\ Used(v) = Used(s) \cup {i} /\ CleanMeta(v)
    BY <2>1, <2>7, <2>13
  <2>19. CASE type = "file"
    <3>1. q = [s |-> v, i |-> i]
      BY <1>4, <2>19 DEF Created
    <3>2. q.s = v /\ q.i = i
      BY ONLY <3>1
    <3>3. Made(s, v, i, j, type, e)
      BY <2>14, <2>16, <2>17, <2>18, <2>19 DEF Made
    <3> QED BY <1>4, <3>2, <3>3
  <2>20. CASE type = "dir"
    <3> PICK w : w = DirectoryFlush(v, i, {})
      OBVIOUS
    <3>1. q = [s |-> w, i |-> i]
      BY <1>4, <2>20 DEF Created
    <3>2. q.s = w /\ q.i = i
      BY ONLY <3>1
    <3>3. Rewritten(v, w, i, {})
      <4>1. i \in Used(v) /\ {} \in SUBSET EntryRecords
        BY <2>18
      <4> QED BY ONLY NGroups = 1, w = DirectoryFlush(v, i, {}), <1>1, <2>13, <4>1, Rewriting
    <3>4. /\ Fit(w) /\ CleanMeta(w) /\ Used(w) = Used(v) /\ w.sbI = v.sbI
          /\ Nodes(w)[i].type = Nodes(v)[i].type /\ Nodes(w)[i].links = Nodes(v)[i].links
          /\ \A k \in Inodes \ {i} : Nodes(w)[k] = Nodes(v)[k] /\ w.disk.node[k] = v.disk.node[k]
          /\ DOMAIN w.inodes = DOMAIN v.inodes \ {i}
          /\ Entries(w, i) = {}
          /\ \A k \in Used(v) \ {i} : Entries(w, k) = Entries(v, k)
      BY <3>3 DEF Rewritten
    <3>5. Ready(w)
      <4>1. DOMAIN w.inodes \subseteq Used(w)
        BY ONLY <2>14, <3>4 DEF Ready
      <4>2. Inodes \ Used(w) = Inodes \ Used(v) /\ w.sbI = v.sbI
        BY ONLY <3>4
      <4>3. w.sbI = Cardinality(Inodes \ Used(w))
        <5>1. v.sbI = Cardinality(Inodes \ Used(v))
          BY <2>14 DEF Ready
        <5> QED BY ONLY <4>2, <5>1
      <4> QED BY ONLY <3>4, <4>1, <4>3 DEF Ready
    <3>6. /\ Nodes(w)[i].type = type /\ Nodes(w)[i].links = 1
          /\ Nodes(w)[j].type = Nodes(s)[j].type /\ Nodes(w)[j].links = Nodes(s)[j].links
          /\ \A k \in Inodes \ {i, j} : Nodes(w)[k] = Nodes(s)[k] /\ w.disk.node[k] = s.disk.node[k]
          /\ DOMAIN w.inodes \subseteq (DOMAIN s.inodes \cup {i}) \ {j}
          /\ i \notin DOMAIN w.inodes
      BY ONLY <1>1, <2>11, <2>16, <3>4
    <3>7. \A k \in Used(s) : Tree(w)[k] = Tree(v)[k]
      <4> SUFFICES ASSUME NEW k \in Used(s) PROVE Tree(w)[k] = Tree(v)[k]
        OBVIOUS
      <4>1. k \in Used(v) \ {i} /\ k \in Inodes
        BY ONLY <1>1, <2>18, k \in Used(s)
      <4>2. Entries(w, k) = Entries(v, k)
        BY ONLY <3>4, <4>1
      <4> QED BY ONLY <4>1, <4>2 DEF Tree
    <3>8. Tree(w)[i] = {}
      BY ONLY <2>2, <3>4 DEF Tree
    <3>9. Tree(w)[j] \in {Tree(s)[j] \cup {e}, {}} /\ \A k \in Used(s) \ {j} : Tree(w)[k] = Tree(s)[k]
      BY ONLY j \in Used(s), <2>17, <3>7
    <3>10. Made(s, w, i, j, type, e)
      BY ONLY <2>18, <3>4, <3>5, <3>6, <3>8, <3>9 DEF Made
    <3> QED BY <1>4, <3>2, <3>10
  <2> QED BY <2>19, <2>20
<1> QED BY <1>3, <1>4

\* No open file has the name p.
Nameless(o, p) == \A g \in DOMAIN o : o[g].path # p

\* x is sound with the new inode i, a file once it is opened.
Founded(x, o, p, i, type) ==
    /\ i \in Inodes /\ CleanMeta(x) /\ (type = "dir" => World(x, o))
    /\ type = "file" => \A h \in Handles \ DOMAIN o, r \in HandleRecords :
                           r.path = p /\ r.ino = i => World(x, With(o, h, r))

\* Created leaves the world sound; a new file is held by the handle it is opened with.
LEMMA Founding ==
    ASSUME NGroups = 1, NEW s, NEW o, World(s, o), CleanMeta(s), NEW p \in Paths, GetInodeIndex(s, p) = 0,
           NEW j, j = ParentIndex(s, p), j # 0, Nameless(o, p),
           NEW type \in {"file", "dir"}, NEW q, q = Created(s, p, j, type), NEW x, x = q.s, NEW i, i = q.i
    PROVE  (i = 0 /\ x = s) \/ Founded(x, o, p, i, type)
<1>1. /\ Ready(s) /\ TreeOK(Used(s), Nodes(s), Tree(s)) /\ OpenOK(o, Used(s), Nodes(s), Tree(s)) /\ CacheOK(s, o)
  BY DEF World
<1>2. j = ParentOf(Tree(s), p) /\ Find(Tree(s), p) = 0
  BY <1>1, PathLookup
<1>3. j \in Used(s)
  BY <1>1, <1>2, ParentUsed
<1>4. Tree(s)[j] \subseteq EntryRecords
  BY <1>1, <1>3 DEF TreeOK
<1> PICK e : e = [name |-> p[Len(p)], ino |-> i]
  OBVIOUS
<1>5. (i = 0 /\ x = s) \/ Made(s, x, i, j, type, e)
  BY <1>1, <1>3, <1>4, Making
<1>6. ASSUME Made(s, x, i, j, type, e) PROVE Founded(x, o, p, i, type)
  <2>1. /\ Ready(x) /\ CleanMeta(x) /\ i \in Inodes \ Used(s) /\ Used(x) = Used(s) \cup {i} /\ Nodes(x)[i].type = type
        /\ type = "dir" => i \notin DOMAIN x.inodes
    BY <1>6 DEF Made
  <2>2. /\ TreeOK(Used(x), Nodes(x), Tree(x)) /\ OpenOK(o, Used(x), Nodes(x), Tree(x))
        /\ \A b \in Paths, k \in Inodes : Reached(Tree(x), b, k) => (k = i <=> b = p)
        /\ \A k \in DOMAIN x.inodes : k = i \/ Holds(o, k) \/ Lost(x, k)
        /\ \A g \in DOMAIN o : o[g].ino # i
    <3>1. World(s, o) /\ p \in Paths /\ Find(Tree(s), p) = 0 /\ j \in Used(s) /\ j = ParentOf(Tree(s), p)
          /\ (\A g \in DOMAIN o : o[g].path # p) /\ e = [name |-> p[Len(p)], ino |-> i]
      BY <1>2, <1>3 DEF Nameless
    <3> QED BY ONLY NGroups = 1, <3>1, <1>6, Naming
  <2>3. CASE type = "dir"
    <3>1. CacheOK(x, o)
      BY <2>1, <2>2, <2>3 DEF CacheOK
    <3>2. World(x, o)
      BY <2>1, <2>2, <3>1 DEF World
    <3> QED BY <2>1, <2>3, <3>2 DEF Founded
  <2>4. CASE type = "file"
    <3> SUFFICES ASSUME NEW h \in Handles \ DOMAIN o, NEW r \in HandleRecords, r.path = p, r.ino = i
                 PROVE  World(x, With(o, h, r))
      BY <2>1, <2>4 DEF Founded
    <3> PICK b : b = With(o, h, r)
      OBVIOUS
    <3>0. i \in Used(x) /\ i # RootInode
      BY <1>1, <2>1 DEF TreeOK
    <3>1. OpenOK(b, Used(x), Nodes(x), Tree(x)) /\ DOMAIN b = DOMAIN o \cup {h} /\ b[h] = r /\ \A g \in DOMAIN o : b[g] = o[g]
      <4>1. /\ OpenOK(o, Used(x), Nodes(x), Tree(x)) /\ r.ino \in Used(x) /\ r.ino # RootInode
            /\ Nodes(x)[r.ino].type = "file" /\ b = With(o, h, r)
        BY <2>1, <2>2, <2>4, <3>0
      <4>2. \A g \in DOMAIN o : o[g].ino # r.ino /\ o[g].path # r.path
        BY <2>2 DEF Nameless
      <4>3. \A c \in Paths, k \in Inodes : Reached(Tree(x), c, k) => (k = r.ino <=> c = r.path)
        BY ONLY <2>2, r.path = p, r.ino = i
      <4>4. Newcomer(o, Used(x), Nodes(x), Tree(x), h, r)
        BY ONLY h \in Handles \ DOMAIN o, r \in HandleRecords, <4>1, <4>2, <4>3 DEF Newcomer
      <4>5. OpenOK(o, Used(x), Nodes(x), Tree(x))
        BY <4>1
      <4>6. b = With(o, h, r)
        OBVIOUS
      <4>7. OpenOK(b, Used(x), Nodes(x), Tree(x))
        BY ONLY <4>4, <4>5, <4>6, OpeningHandle
      <4>8. DOMAIN b = DOMAIN o \cup {h} /\ b[h] = r /\ \A g \in DOMAIN o : b[g] = o[g]
        BY ONLY <4>6 DEF With
      <4> QED BY ONLY <4>7, <4>8
    <3>2. Holds(b, i) /\ \A k : Holds(o, k) => Holds(b, k)
      BY <3>1 DEF Holds
    <3>3. CacheOK(x, b)
      BY <2>2, <3>2 DEF CacheOK
    <3> QED BY <2>1, <2>2, <3>1, <3>3 DEF World
  <2> QED BY <2>3, <2>4
<1> QED BY <1>5, <1>6

\* What a lookup before the operation finds, seen after the write-back.
LEMMA LookedUp ==
    ASSUME NGroups = 1, IInv, NEW s, s = FlushMetadata(fs), NEW p \in Paths
    PROVE  /\ World(s, open) /\ CleanMeta(s) /\ GetInodeIndex(s, p) = GetInodeIndex(fs, p)
           /\ ParentIndex(s, p) = ParentIndex(fs, p) /\ IsFiniteSet(DOMAIN open)
<1>1. World(fs, open)
  BY DEF IInv
<1>2. World(s, open) /\ CleanMeta(s) /\ Tree(s) = Tree(fs)
  BY <1>1, Flushed
<1>3. GetInodeIndex(fs, p) = Find(Tree(fs), p) /\ ParentIndex(fs, p) = ParentOf(Tree(fs), p)
  BY <1>1, PathLookup DEF World
<1>4. GetInodeIndex(s, p) = Find(Tree(s), p) /\ ParentIndex(s, p) = ParentOf(Tree(s), p)
  BY <1>2, PathLookup DEF World
<1>5. IsFiniteSet(DOMAIN open)
  BY <1>1 DEF World, OpenOK
<1> QED BY <1>2, <1>3, <1>4, <1>5

\* fopen of a new file preserves the invariant.
LEMMA StepFopenCreate ==
    ASSUME NGroups = 1, MaxPerName = 1, IInv, NEW h \in Handles, NEW p \in Paths, NEW mode, FopenCreate(h, p, mode)
    PROVE  IInv'
<1> PICK s : s = FlushMetadata(fs)
  OBVIOUS
<1> PICK j : j = ParentIndex(fs, p)
  OBVIOUS
<1> PICK q : q = Created(s, p, j, "file")
  OBVIOUS
<1> PICK x : x = q.s
  OBVIOUS
<1> PICK i : i = q.i
  OBVIOUS
<1> PICK r : r = [path |-> p, ino |-> i, writing |-> TRUE, sz |-> 0, pos |-> 0]
  OBVIOUS
<1>1. /\ h \notin DOMAIN open /\ NameAvailable(p) /\ GetInodeIndex(fs, p) = 0 /\ j # 0
      /\ fs' = x /\ open' = IF i = 0 THEN open ELSE With(open, h, r)
  BY DEF FopenCreate
<1>2. World(s, open) /\ CleanMeta(s) /\ GetInodeIndex(s, p) = 0 /\ j = ParentIndex(s, p) /\ IsFiniteSet(DOMAIN open)
  BY <1>1, LookedUp
<1>3. Nameless(open, p)
  BY <1>1, <1>2, NameFree DEF Nameless
<1>4. (i = 0 /\ x = s) \/ Founded(x, open, p, i, "file")
  <2>1. /\ Nameless(open, p)
        /\ q = Created(s, p, j, "file") /\ x = q.s /\ i = q.i /\ j # 0 /\ p \in Paths
        /\ "file" \in {"file", "dir"}
    BY <1>1, <1>3
  <2> QED BY ONLY NGroups = 1, <1>2, <2>1, Founding
<1>5. CASE i = 0
  <2>1. fs' = s /\ open' = open
    BY <1>1, <1>4, <1>5, InodeNat DEF Founded
  <2> QED BY <1>2, <2>1 DEF IInv, Tidy
<1>6. CASE i # 0
  <2>1. r \in HandleRecords /\ r.path = p /\ r.ino = i
    BY <1>4, <1>6 DEF HandleRecords, Founded
  <2>2. h \in Handles \ DOMAIN open
    BY <1>1
  <2> PICK b : b = With(open, h, r)
    OBVIOUS
  <2>3. World(x, b) /\ CleanMeta(x)
    BY ONLY <1>4, <1>6, <2>1, <2>2, b = With(open, h, r) DEF Founded
  <2>4. fs' = x /\ open' = b
    BY <1>1, <1>6
  <2> QED BY <2>3, <2>4 DEF IInv, Tidy
<1> QED BY <1>5, <1>6

\* mkdir preserves the invariant.
LEMMA StepMkdir ==
    ASSUME NGroups = 1, MaxPerName = 1, IInv, NEW p \in Paths, Mkdir(p)
    PROVE  IInv'
<1> PICK s : s = FlushMetadata(fs)
  OBVIOUS
<1> PICK j : j = ParentIndex(fs, p)
  OBVIOUS
<1> PICK q : q = Created(s, p, j, "dir")
  OBVIOUS
<1> PICK x : x = q.s
  OBVIOUS
<1> PICK i : i = q.i
  OBVIOUS
<1>1. NameAvailable(p) /\ GetInodeIndex(fs, p) = 0 /\ j # 0 /\ fs' = x /\ open' = open
  BY DEF Mkdir
<1>2. World(s, open) /\ CleanMeta(s) /\ GetInodeIndex(s, p) = 0 /\ j = ParentIndex(s, p) /\ IsFiniteSet(DOMAIN open)
  BY <1>1, LookedUp
<1>3. Nameless(open, p)
  BY <1>1, <1>2, NameFree DEF Nameless
<1>4. World(x, open) /\ CleanMeta(x)
  <2>1. /\ Nameless(open, p)
        /\ q = Created(s, p, j, "dir") /\ x = q.s /\ i = q.i /\ j # 0 /\ p \in Paths
        /\ "dir" \in {"file", "dir"}
    BY <1>1, <1>3
  <2>2. (i = 0 /\ x = s) \/ Founded(x, open, p, i, "dir")
    BY ONLY NGroups = 1, <1>2, <2>1, Founding
  <2> QED BY <1>2, <2>2 DEF Founded
<1> QED BY <1>1, <1>4 DEF IInv, Tidy

-----------------------------------------------------------------------------

-----------------------------------------------------------------------------
(* Mounting again.                                                         *)
\* Two inodes differ at most in their links.
Alike(m, n) == /\ n.type = m.type /\ n.size = m.size /\ n.direct = m.direct /\ n.s = m.s /\ n.d = m.d

\* What is mounted again shows the same blocks, names and counters.
Again(s, t) ==
    /\ Good(t) /\ Marked(t) = Marked(s) /\ Used(t) = Used(s) /\ t.disk = s.disk /\ t.sbB = s.sbB /\ t.sbI = s.sbI
    /\ t.inodes = <<>> /\ CleanMeta(t)

\* Mounting the drive again shows what was shown, if nothing was in memory
\* only.
LEMMA MountingAgain ==
    ASSUME NGroups = 1, NEW s, Good(s), CleanMeta(s), NEW t, t = Mounted(s.disk)
    PROVE  Again(s, t) /\ \A i \in Inodes : Nodes(t)[i] = s.disk.node[i]
<1> PICK d : d = s.disk
  OBVIOUS
<1>1. /\ s \in Drivers /\ d \in Drives /\ Recorded(s)
      /\ t = [sbB |-> d.sbB, sbI |-> d.sbI, bgdt |-> d.bgdt, block_alloc |-> <<>>, inode_alloc |-> <<>>, inodes |-> <<>>, disk |-> d]
  BY DEF Good, Drivers, Mounted
<1>2. /\ s.block_alloc = <<>> /\ s.inode_alloc = <<>> /\ s.sbB = d.sbB /\ s.sbI = d.sbI
      /\ [s.bgdt[0] EXCEPT !.mod = FALSE] = d.bgdt[0]
  BY DEF CleanMeta
<1>3. /\ t.sbB = d.sbB /\ t.sbI = d.sbI /\ t.bgdt = d.bgdt /\ t.block_alloc = <<>> /\ t.inode_alloc = <<>>
      /\ t.inodes = <<>> /\ t.disk = d
  BY ONLY <1>1
<1>4. t \in Drivers
  <2>1. /\ <<>> \in Cached(Groups, SUBSET Int) /\ <<>> \in Cached(Inodes, InodeRecords)
    BY EmptyCached
  <2>2. d.sbB \in Int /\ d.sbI \in Int /\ d.bgdt \in [Groups -> Descriptors]
    BY <1>1 DEF Drives
  <2> QED BY ONLY <1>1, <2>1, <2>2 DEF Drivers
<1>5. d.bgdt[0].mod = FALSE
  BY DEF Recorded, Good
<1>6. Recorded(t)
  BY ONLY <1>3, <1>5 DEF Recorded
<1>7. s.bgdt[0].grp = 0 /\ d.bgdt[0].grp = 0 /\ s.bgdt[0] \in Descriptors /\ d.bgdt[0] \in Descriptors
  <2>1. s.bgdt \in [Groups -> Descriptors] /\ d.bgdt \in [Groups -> Descriptors] /\ 0 \in Groups
    BY <1>1, OneGroup DEF Drivers, Drives
  <2>2. s.bgdt[0] \in Descriptors /\ d.bgdt[0] \in Descriptors
    BY ONLY <2>1
  <2> QED BY ONLY <2>2 DEF Descriptors
<1>8. DOMAIN <<>> = {}
  OBVIOUS
<1>9. Bits(t, 0) = Bits(s, 0)
  BY ONLY <1>2, <1>3, <1>7, <1>8, d = s.disk DEF Bits
<1>10. InodeBits(t, 0) = InodeBits(s, 0)
  BY ONLY <1>2, <1>3, <1>7, <1>8, d = s.disk DEF InodeBits
<1>11. Marked(t) = Marked(s) /\ Used(t) = Used(s)
  BY ONLY NGroups = 1, <1>9, <1>10, SameMarked, SameUsed
<1>12. CleanMeta(t)
  <2>1. [d.bgdt[0] EXCEPT !.mod = FALSE] = d.bgdt[0]
    BY ONLY <1>5, <1>7 DEF Descriptors
  <2> QED BY ONLY <1>3, <2>1 DEF CleanMeta
<1>13. \A i \in Inodes : Nodes(t)[i] = s.disk.node[i]
  <2> SUFFICES ASSUME NEW i \in Inodes PROVE Nodes(t)[i] = s.disk.node[i]
    OBVIOUS
  <2>1. Nodes(t)[i] = Inode(t, i)
    BY <1>4, NodeAt
  <2>2. Inode(t, i) = t.disk.node[i]
    BY ONLY <1>3, <1>8 DEF Inode
  <2> QED BY <1>3, <2>1, <2>2
<1>14. Good(t)
  BY ONLY <1>4, <1>6 DEF Good
<1> QED BY <1>2, <1>3, <1>11, <1>12, <1>13, <1>14 DEF Again

\* Links do not matter to the blocks.
LEMMA AlikeBlocks ==
    ASSUME NEW M, NEW U, NEW N, NEW P, BlocksOK(M, U, N, P), NEW O, \A i \in U : Alike(N[i], O[i])
    PROVE  BlocksOK(M, U, O, P)
<1>1. \A i \in U : O[i].direct = N[i].direct /\ O[i].s = N[i].s /\ O[i].d = N[i].d
  BY DEF Alike
<1>2. \A i \in U, x \in Slots : At(O[i], P, x) = At(N[i], P, x)
  BY <1>1 DEF At
<1>3. Held(M, U, O, P) /\ Apart(U, O, P)
  BY <1>2 DEF BlocksOK, Held, Apart
<1>4. Hollow(U, O, P)
  BY <1>1 DEF BlocksOK, Hollow
<1> QED BY <1>3, <1>4 DEF BlocksOK

\* With no file open only the lost inode is in memory.
LEMMA Unopened ==
    ASSUME NGroups = 1, NEW s, NEW o, World(s, o), DOMAIN o = {}, NEW i \in DOMAIN s.inodes
    PROVE  Lost(s, i)
  BY DEF World, CacheOK, Holds

\* Mounting again preserves the invariant.
LEMMA StepRemount ==
    ASSUME NGroups = 1, IInv, Remount
    PROVE  IInv'
<1> PICK s : s = fs
  OBVIOUS
<1> PICK t : t = Mounted(s.disk)
  OBVIOUS
<1>0. DOMAIN <<>> = {}
  OBVIOUS
<1>1. open = <<>> /\ fs' = t /\ open' = open /\ DOMAIN open = {}
  BY <1>0 DEF Remount
<1>2. World(s, open) /\ CleanMeta(s)
  BY <1>1 DEF IInv, Tidy
<1>3. /\ Ready(s) /\ Fit(s) /\ Good(s) /\ TreeOK(Used(s), Nodes(s), Tree(s)) /\ OpenOK(open, Used(s), Nodes(s), Tree(s))
      /\ Used(s) \subseteq Inodes
  BY <1>2 DEF World, Ready, Fit, Used
<1>4. Again(s, t) /\ \A i \in Inodes : Nodes(t)[i] = s.disk.node[i]
  BY <1>2, <1>3, MountingAgain
<1>5. /\ Good(t) /\ Marked(t) = Marked(s) /\ Used(t) = Used(s) /\ t.disk = s.disk /\ t.sbB = s.sbB /\ t.sbI = s.sbI
      /\ t.inodes = <<>> /\ CleanMeta(t)
  BY <1>4 DEF Again
<1>6. ASSUME NEW i \in Inodes, i \notin DOMAIN s.inodes PROVE Nodes(t)[i] = Nodes(s)[i]
  <2>1. Nodes(s)[i] = Inode(s, i)
    BY <1>3, NodeAt DEF Good
  <2>2. Inode(s, i) = s.disk.node[i]
    BY <1>6 DEF Inode
  <2> QED BY <1>4, <2>1, <2>2
<1>7. ASSUME NEW i \in Inodes PROVE Alike(Nodes(s)[i], Nodes(t)[i])
  <2>1. CASE i \notin DOMAIN s.inodes
    BY <1>6, <2>1 DEF Alike
  <2>2. CASE i \in DOMAIN s.inodes
    <3>1. Lost(s, i)
      BY ONLY NGroups = 1, <1>1, <1>2, <2>2, Unopened
    <3>2. PICK l \in Nat : s.disk.node[i] = [Nodes(s)[i] EXCEPT !.links = l]
      BY <3>1 DEF Lost
    <3>3. Nodes(s)[i] \in InodeRecords
      BY <1>3, NodeTypes DEF Good
    <3>4. Nodes(t)[i] = [Nodes(s)[i] EXCEPT !.links = l]
      BY <1>4, <3>2
    <3> QED BY ONLY <3>3, <3>4 DEF Alike, InodeRecords
  <2> QED BY <2>1, <2>2
<1>8. Fit(t)
  <2>1. BlocksOK(Marked(s), Used(s), Nodes(s), s.disk.ptr)
    BY <1>3 DEF Fit, BlocksGood
  <2>2. \A i \in Used(s) : Alike(Nodes(s)[i], Nodes(t)[i])
    BY <1>3, <1>7
  <2>3. BlocksOK(Marked(s), Used(s), Nodes(t), s.disk.ptr)
    BY ONLY <2>1, <2>2, AlikeBlocks
  <2> QED BY <1>3, <1>5, <2>3 DEF Fit, BlocksGood
<1>9. Ready(t)
  <2>1. s.sbI = Cardinality(Inodes \ Used(s))
    BY <1>3 DEF Ready
  <2> QED BY <1>0, <1>5, <1>8, <2>1 DEF Ready
<1>10. Tree(t) = Tree(s)
  <2>1. ASSUME NEW i \in Inodes PROVE Entries(t, i) = Entries(s, i)
    <3>1. Entries(t, i) = EntriesOf(Nodes(t)[i], t.disk.ents) /\ Entries(s, i) = EntriesOf(Nodes(s)[i], s.disk.ents)
      BY <1>3, <1>5, EntriesView
    <3>2. Alike(Nodes(s)[i], Nodes(t)[i])
      BY <1>7
    <3>3. t.disk.ents = s.disk.ents
      BY <1>5
    <3> QED BY ONLY <3>1, <3>2, <3>3 DEF Alike, EntriesOf
  <2> QED BY ONLY <2>1 DEF Tree
<1>11. TreeOK(Used(s), Nodes(t), Tree(s))
  <2>1. ASSUME NEW i \in Used(s), NEW e \in Tree(s)[i] PROVE Nodes(t)[e.ino].links > 0
    <3>1. e.ino \in Used(s) /\ e.ino \in Inodes /\ Nodes(s)[e.ino].links > 0
      BY <1>3 DEF TreeOK
    <3>2. e.ino \notin DOMAIN s.inodes
      <4> SUFFICES ASSUME e.ino \in DOMAIN s.inodes PROVE FALSE
        OBVIOUS
      <4>1. Lost(s, e.ino)
        BY <1>1, <1>2, Unopened
      <4> QED BY <4>1 DEF Lost
    <3>3. Nodes(t)[e.ino] = Nodes(s)[e.ino]
      BY <1>6, <3>1, <3>2
    <3> QED BY <3>1, <3>3
  <2> QED BY <1>3, <2>1 DEF TreeOK
<1>12. OpenOK(open, Used(s), Nodes(t), Tree(s))
  <2>1. \A i \in Used(s) : Nodes(t)[i].type = Nodes(s)[i].type
    BY <1>3, <1>7 DEF Alike
  <2> QED BY <1>3, <2>1, SameOpen
<1>13. CacheOK(t, open)
  BY <1>0, <1>5 DEF CacheOK
<1>14. World(t, open)
  BY <1>5, <1>9, <1>10, <1>11, <1>12, <1>13 DEF World
<1> QED BY <1>1, <1>5, <1>14 DEF IInv, Tidy

-----------------------------------------------------------------------------

-----------------------------------------------------------------------------
(* The state after the first mount.                                        *)
\* The root directory of a drive that was formatted, and such a drive.
RootNode == [BlankInode EXCEPT !.type = "dir", !.links = 1, !.size = 1, !.direct[0] = Addr(0, Meta)]
Formatted(d) ==
    /\ d.sbB = Cardinality({a \in Addrs : IndexOf(a) \notin 0 .. Meta})
    /\ d.sbI = Cardinality({i \in Inodes : InodeIndex(i) \notin 0 .. FirstInode - 1})
    /\ d.bmap = [g \in Groups |-> 0 .. Meta] /\ d.imap = [g \in Groups |-> 0 .. FirstInode - 1]
    /\ d.node = [i \in Inodes |-> IF i = RootInode THEN RootNode ELSE BlankInode]
    /\ d.ents = [a \in Addrs |-> {}] /\ d.ptr = [a \in Addrs |-> NoPtr]

\* CleanDisk is formatted, field by field.
LEMMA Formatting ==
    ASSUME NGroups = 1, NEW d, d = CleanDisk
    PROVE  /\ Formatted(d)
           /\ d.bgdt = [g \in Groups |-> GroupDescriptor(g, BPG - Cardinality(0 .. Meta), IPG - Cardinality(0 .. FirstInode - 1))]
           /\ d = [sbB |-> d.sbB, sbI |-> d.sbI, bgdt |-> d.bgdt, bmap |-> d.bmap, imap |-> d.imap,
                   node |-> d.node, ents |-> d.ents, ptr |-> d.ptr]
<1>1. Groups = {0} /\ (\A a \in Addrs : GroupOf(a) = 0) /\ (\A i \in Inodes : InodeGroup(i) = 0)
  BY OneGroup
<1>2. d.sbB = Cardinality({a \in Addrs : IndexOf(a) \notin 0 .. Meta})
  <2>1. d.sbB = Cardinality({ a \in Addrs : IndexOf(a) \notin 0 .. (IF GroupOf(a) = 0 THEN Meta ELSE Meta - 1) })
    BY DEF CleanDisk
  <2>2. { a \in Addrs : IndexOf(a) \notin 0 .. (IF GroupOf(a) = 0 THEN Meta ELSE Meta - 1) } = {a \in Addrs : IndexOf(a) \notin 0 .. Meta}
    BY ONLY <1>1
  <2> QED BY ONLY <2>1, <2>2
<1>3. d.sbI = Cardinality({i \in Inodes : InodeIndex(i) \notin 0 .. FirstInode - 1})
  <2>1. d.sbI = Cardinality({ i \in Inodes : InodeIndex(i) \notin (IF InodeGroup(i) = 0 THEN 0 .. FirstInode - 1 ELSE {}) })
    BY DEF CleanDisk
  <2>2. { i \in Inodes : InodeIndex(i) \notin (IF InodeGroup(i) = 0 THEN 0 .. FirstInode - 1 ELSE {}) }
           = {i \in Inodes : InodeIndex(i) \notin 0 .. FirstInode - 1}
    BY ONLY <1>1
  <2> QED BY ONLY <2>1, <2>2
<1>4. d.bgdt = [g \in Groups |-> GroupDescriptor(g, BPG - Cardinality(0 .. Meta), IPG - Cardinality(0 .. FirstInode - 1))]
  <2>1. d.bgdt = [g \in Groups |-> GroupDescriptor(g, BPG - Cardinality(0 .. (IF g = 0 THEN Meta ELSE Meta - 1)),
                                                   IPG - Cardinality(IF g = 0 THEN 0 .. FirstInode - 1 ELSE {}))]
    BY DEF CleanDisk
  <2> QED BY ONLY <1>1, <2>1
<1>5. d.bmap = [g \in Groups |-> 0 .. Meta]
  <2>1. d.bmap = [g \in Groups |-> 0 .. (IF g = 0 THEN Meta ELSE Meta - 1)]
    BY DEF CleanDisk
  <2> QED BY ONLY <1>1, <2>1
<1>6. d.imap = [g \in Groups |-> 0 .. FirstInode - 1]
  <2>1. d.imap = [g \in Groups |-> IF g = 0 THEN 0 .. FirstInode - 1 ELSE {}]
    BY DEF CleanDisk
  <2> QED BY ONLY <1>1, <2>1
<1>7. /\ d.node = [i \in Inodes |-> IF i = RootInode THEN RootNode ELSE BlankInode]
      /\ d.ents = [a \in Addrs |-> {}] /\ d.ptr = [a \in Addrs |-> NoPtr]
  BY DEF CleanDisk, RootNode
<1>8. d = [sbB |-> d.sbB, sbI |-> d.sbI, bgdt |-> d.bgdt, bmap |-> d.bmap, imap |-> d.imap,
           node |-> d.node, ents |-> d.ents, ptr |-> d.ptr]
  BY DEF CleanDisk
<1>9. Formatted(d)
  BY ONLY <1>2, <1>3, <1>5, <1>6, <1>7 DEF Formatted
<1> QED BY ONLY <1>4, <1>8, <1>9

\* The root directory has one block, behind the tables.
LEMMA RootBlock ==
    ASSUME NGroups = 1
    PROVE  /\ BlankInode \in InodeRecords /\ RootNode \in InodeRecords /\ Addr(0, Meta) \in Addrs \ MetaBlocks /\ Addr(0, Meta) > 0
           /\ RootNode.type = "dir" /\ RootNode.links = 1 /\ RootNode.s = 0 /\ RootNode.d = 0
           /\ RootNode.direct[0] = Addr(0, Meta) /\ \A k \in 1 .. Direct - 1 : RootNode.direct[k] = 0
<1> USE ExtAssumption
<1> PICK a : a = Addr(0, Meta)
  OBVIOUS
<1>1. Meta \in 0 .. BPG - 1
  OBVIOUS
<1>2. a = Meta + Off /\ a \in Addrs /\ IndexOf(a) = Meta
  BY <1>1, OneGroup
<1>3. a \notin MetaBlocks
  <2> SUFFICES ASSUME NEW k \in 0 .. Meta - 1, a = Addr(0, k) PROVE FALSE
    BY DEF MetaBlocks
  <2>1. k \in 0 .. BPG - 1
    OBVIOUS
  <2>2. IndexOf(Addr(0, k)) = k
    BY <2>1, OneGroup
  <2> QED BY <1>2, <2>2
<1>4. a \in Nat /\ a > 0
  BY <1>2
<1> PICK f : f = [k \in 0 .. Direct - 1 |-> 0]
  OBVIOUS
<1> PICK b : b = [type |-> "none", links |-> 0, size |-> 0, direct |-> f, s |-> 0, d |-> 0]
  OBVIOUS
<1>5. BlankInode = b
  BY DEF BlankInode
<1> PICK e : e = [f EXCEPT ![0] = a]
  OBVIOUS
<1>6. f \in [0 .. Direct - 1 -> Nat] /\ e \in [0 .. Direct - 1 -> Nat] /\ e[0] = a /\ \A k \in 1 .. Direct - 1 : e[k] = 0
  BY <1>4
<1>7. b \in InodeRecords
  BY ONLY <1>6, b = [type |-> "none", links |-> 0, size |-> 0, direct |-> f, s |-> 0, d |-> 0] DEF InodeRecords, Types
<1>8. RootNode = [type |-> "dir", links |-> 1, size |-> 1, direct |-> e, s |-> 0, d |-> 0]
  <2>1. RootNode = [b EXCEPT !.type = "dir", !.links = 1, !.size = 1, !.direct[0] = a]
    BY <1>5 DEF RootNode
  <2> QED BY ONLY <2>1, b = [type |-> "none", links |-> 0, size |-> 0, direct |-> f, s |-> 0, d |-> 0], e = [f EXCEPT ![0] = a]
<1>9. RootNode \in InodeRecords
  BY ONLY <1>6, <1>8 DEF InodeRecords, Types
<1>10. RootNode.type = "dir" /\ RootNode.links = 1 /\ RootNode.s = 0 /\ RootNode.d = 0 /\ RootNode.direct = e
  BY ONLY <1>8
<1> QED BY <1>2, <1>3, <1>4, <1>5, <1>6, <1>7, <1>9, <1>10

\* A blank inode holds no block.
LEMMA BlankAt == ASSUME NEW P, NEW x \in Slots PROVE At(BlankInode, P, x) = 0
  BY ExtAssumption DEF At, BlankInode, Slots

\* The root directory holds one block.
LEMMA RootAt ==
    ASSUME NGroups = 1, NEW P, NEW x \in Slots
    PROVE  At(RootNode, P, x) = IF x = 0 THEN Addr(0, Meta) ELSE 0
  BY RootBlock, ExtAssumption DEF At, Slots

\* CleanDisk has its types.
LEMMA Formed ==
    ASSUME NGroups = 1, NEW d, d = CleanDisk
    PROVE  /\ d \in Drives /\ d.bgdt[0].mod = FALSE /\ d.bgdt[0] \in Descriptors
<1> USE ExtAssumption
<1>1. Groups = {0} /\ IsFiniteSet(Addrs) /\ IsFiniteSet(Inodes)
  BY OneGroup
<1>2. /\ Formatted(d)
      /\ d.bgdt = [g \in Groups |-> GroupDescriptor(g, BPG - Cardinality(0 .. Meta), IPG - Cardinality(0 .. FirstInode - 1))]
      /\ d = [sbB |-> d.sbB, sbI |-> d.sbI, bgdt |-> d.bgdt, bmap |-> d.bmap, imap |-> d.imap,
              node |-> d.node, ents |-> d.ents, ptr |-> d.ptr]
  BY ONLY NGroups = 1, d = CleanDisk, Formatting
<1>3. Cardinality(0 .. Meta) = Meta + 1 /\ Cardinality(0 .. FirstInode - 1) = FirstInode
  BY FS_Interval DEF RootInode
<1> PICK b : b = BPG - (Meta + 1)
  OBVIOUS
<1> PICK c : c = IPG - FirstInode
  OBVIOUS
<1>4. b \in Counts /\ c \in Counts
  BY DEF Counts, RootInode
<1>5. d.bgdt = [g \in Groups |-> [grp |-> g, mod |-> FALSE, blocks |-> b, inodes |-> c]]
  BY <1>2, <1>3 DEF GroupDescriptor
<1>6. d.bgdt \in [Groups -> Descriptors] /\ d.bgdt[0].mod = FALSE /\ d.bgdt[0] \in Descriptors
  <2>1. [grp |-> 0, mod |-> FALSE, blocks |-> b, inodes |-> c] \in Descriptors
    BY ONLY <1>4 DEF Descriptors
  <2>2. d.bgdt = [g \in Groups |-> [grp |-> 0, mod |-> FALSE, blocks |-> b, inodes |-> c]]
    BY ONLY <1>1, <1>5
  <2>3. d.bgdt[0] = [grp |-> 0, mod |-> FALSE, blocks |-> b, inodes |-> c]
    BY ONLY <1>1, <2>2
  <2>4. d.bgdt[0].mod = FALSE
    BY ONLY <2>3
  <2>5. d.bgdt \in [Groups -> Descriptors]
    BY ONLY <2>1, <2>2
  <2> QED BY ONLY <2>1, <2>3, <2>4, <2>5
<1>7. d.sbB \in Int /\ d.sbI \in Int
  <2>1. IsFiniteSet({a \in Addrs : IndexOf(a) \notin 0 .. Meta}) /\ IsFiniteSet({i \in Inodes : InodeIndex(i) \notin 0 .. FirstInode - 1})
    BY <1>1, FS_Subset
  <2>2. d.sbB \in Nat /\ d.sbI \in Nat
    BY <1>2, <2>1, FS_CardinalityType DEF Formatted
  <2> QED BY ONLY <2>2
<1>8. d.bmap \in [Groups -> SUBSET Int] /\ d.imap \in [Groups -> SUBSET Int]
  BY <1>2 DEF Formatted
<1>9. d.node \in [Inodes -> InodeRecords]
  BY <1>2, RootBlock DEF Formatted
<1>10. d.ents \in [Addrs -> SUBSET EntryRecords] /\ d.ptr \in [Addrs -> [0 .. APB - 1 -> Nat]]
  BY <1>2 DEF Formatted, NoPtr
<1>11. d \in Drives
  BY ONLY <1>2, <1>6, <1>7, <1>8, <1>9, <1>10 DEF Drives
<1> QED BY ONLY <1>6, <1>11

\* What the driver shows after mounting it.
LEMMA FirstMount ==
    ASSUME NGroups = 1, NEW s, s = Mounted(CleanDisk)
    PROVE  /\ Good(s) /\ CleanMeta(s) /\ Formatted(s.disk) /\ s.inodes = <<>> /\ s.sbB = s.disk.sbB /\ s.sbI = s.disk.sbI
           /\ Marked(s) = {a \in Addrs : IndexOf(a) \in 0 .. Meta}
           /\ Used(s) = {i \in Inodes : InodeIndex(i) \in 0 .. FirstInode - 1}
           /\ Nodes(s) = s.disk.node
<1> PICK d : d = CleanDisk
  OBVIOUS
<1>1. d \in Drives /\ d.bgdt[0].mod = FALSE /\ d.bgdt[0] \in Descriptors
  BY Formed
<1>2. Formatted(d)
  BY Formatting
<1>3. s = [sbB |-> d.sbB, sbI |-> d.sbI, bgdt |-> d.bgdt, block_alloc |-> <<>>, inode_alloc |-> <<>>, inodes |-> <<>>, disk |-> d]
  BY DEF Mounted
<1>4. /\ s.sbB = d.sbB /\ s.sbI = d.sbI /\ s.bgdt = d.bgdt /\ s.block_alloc = <<>> /\ s.inode_alloc = <<>>
      /\ s.inodes = <<>> /\ s.disk = d
  BY ONLY <1>3
<1>5. s \in Drivers
  <2>1. /\ <<>> \in Cached(Groups, SUBSET Int) /\ <<>> \in Cached(Inodes, InodeRecords)
    BY EmptyCached
  <2>2. d.sbB \in Int /\ d.sbI \in Int /\ d.bgdt \in [Groups -> Descriptors]
    BY <1>1 DEF Drives
  <2> QED BY ONLY <1>1, <1>3, <2>1, <2>2 DEF Drivers
<1>6. Recorded(s)
  BY ONLY <1>1, <1>4 DEF Recorded
<1>7. CleanMeta(s)
  <2>1. [d.bgdt[0] EXCEPT !.mod = FALSE] = d.bgdt[0]
    BY ONLY <1>1 DEF Descriptors
  <2> QED BY ONLY <1>4, <2>1 DEF CleanMeta
<1>8. d.bgdt[0].grp = 0
  BY ONLY <1>1 DEF Descriptors
<1>9. DOMAIN <<>> = {} /\ Groups = {0}
  BY OneGroup
<1>10. Bits(s, 0) = 0 .. Meta
  BY ONLY <1>2, <1>4, <1>8, <1>9 DEF Bits, Formatted
<1>11. InodeBits(s, 0) = 0 .. FirstInode - 1
  BY ONLY <1>2, <1>4, <1>8, <1>9 DEF InodeBits, Formatted
<1>12. Marked(s) = {a \in Addrs : IndexOf(a) \in 0 .. Meta}
  <2>1. \A a \in Addrs : a \in Marked(s) <=> IndexOf(a) \in 0 .. Meta
    BY <1>10, MarkedBits
  <2> QED BY <2>1 DEF Marked
<1>13. Used(s) = {i \in Inodes : InodeIndex(i) \in 0 .. FirstInode - 1}
  <2>1. \A i \in Inodes : i \in Used(s) <=> InodeIndex(i) \in 0 .. FirstInode - 1
    BY <1>11, UsedBits
  <2> QED BY <2>1 DEF Used
<1>14. Nodes(s) = s.disk.node
  <2>1. Nodes(s) \in [Inodes -> InodeRecords] /\ s.disk.node \in [Inodes -> InodeRecords]
    BY <1>1, <1>4, <1>5, NodeTypes DEF Drives
  <2>2. \A i \in Inodes : Nodes(s)[i] = s.disk.node[i]
    <3> SUFFICES ASSUME NEW i \in Inodes PROVE Nodes(s)[i] = s.disk.node[i]
      OBVIOUS
    <3>1. Nodes(s)[i] = Inode(s, i)
      BY <1>5, NodeAt
    <3> QED BY ONLY <1>4, <1>9, <3>1 DEF Inode
  <2> QED BY ONLY <2>1, <2>2
<1>15. Good(s)
  BY ONLY <1>5, <1>6 DEF Good
<1> QED BY ONLY <1>2, <1>4, <1>7, <1>12, <1>13, <1>14, <1>15

\* The invariant holds at first.
LEMMA FirstState ==
    ASSUME NGroups = 1, Init
    PROVE  IInv
<1> USE ExtAssumption
<1> PICK s : s = fs
  OBVIOUS
<1>0. DOMAIN <<>> = {}
  OBVIOUS
<1>1. s = Mounted(CleanDisk) /\ open = <<>>
  BY DEF Init
<1>2. /\ Good(s) /\ CleanMeta(s) /\ Formatted(s.disk) /\ s.inodes = <<>> /\ s.sbB = s.disk.sbB /\ s.sbI = s.disk.sbI
      /\ Marked(s) = {a \in Addrs : IndexOf(a) \in 0 .. Meta}
      /\ Used(s) = {i \in Inodes : InodeIndex(i) \in 0 .. FirstInode - 1}
      /\ Nodes(s) = s.disk.node
  BY <1>1, FirstMount
<1> PICK M : M = Marked(s)
  OBVIOUS
<1> PICK U : U = Used(s)
  OBVIOUS
<1> PICK N : N = Nodes(s)
  OBVIOUS
<1> PICK P : P = s.disk.ptr
  OBVIOUS
<1>3. N = [i \in Inodes |-> IF i = RootInode THEN RootNode ELSE BlankInode] /\ U \subseteq Inodes
  BY <1>2 DEF Formatted
<1>4. RootInode \in U
  <2>1. RootInode \in Inodes /\ RootInode - 1 \in 0 .. FirstInode - 1
    BY InodeNat DEF RootInode
  <2>2. InodeIndex(RootInode) = RootInode - 1
    BY <2>1, OneGroup
  <2> QED BY <1>2, <2>1, <2>2
<1>5. ASSUME NEW i \in U, NEW x \in Slots PROVE At(N[i], P, x) = IF i = RootInode /\ x = 0 THEN Addr(0, Meta) ELSE 0
  <2>1. CASE i = RootInode
    <3>1. N[i] = RootNode
      BY <1>3, <2>1
    <3> QED BY <2>1, <3>1, RootAt
  <2>2. CASE i # RootInode
    <3>1. N[i] = BlankInode
      BY <1>3, <2>2
    <3> QED BY <2>2, <3>1, BlankAt
  <2> QED BY <2>1, <2>2
<1>6. Addr(0, Meta) \in M \ MetaBlocks
  BY <1>2, RootBlock, OneGroup
<1>7. MetaBlocks \subseteq M
  <2> SUFFICES ASSUME NEW k \in 0 .. Meta - 1 PROVE Addr(0, k) \in M
    BY DEF MetaBlocks
  <2>1. k \in 0 .. BPG - 1 /\ k \in 0 .. Meta
    OBVIOUS
  <2> QED BY <1>2, <2>1, OneGroup
<1>8. Held(M, U, N, P)
  BY <1>5, <1>6 DEF Held
<1>9. Apart(U, N, P)
  BY <1>5 DEF Apart
<1>10. Hollow(U, N, P)
  <2>1. \A i \in U : N[i].d = 0
    BY <1>3, RootBlock DEF BlankInode
  <2> QED BY <2>1 DEF Hollow
<1>11. BlocksGood(s)
  BY <1>7, <1>8, <1>9, <1>10 DEF BlocksGood, BlocksOK
<1>12. s.sbB = Cardinality(Addrs \ M)
  <2>1. s.sbB = Cardinality({a \in Addrs : IndexOf(a) \notin 0 .. Meta})
    BY <1>2 DEF Formatted
  <2>2. {a \in Addrs : IndexOf(a) \notin 0 .. Meta} = Addrs \ M
    BY <1>2
  <2> QED BY <2>1, <2>2
<1>13. s.sbI = Cardinality(Inodes \ U)
  <2>1. s.sbI = Cardinality({i \in Inodes : InodeIndex(i) \notin 0 .. FirstInode - 1})
    BY <1>2 DEF Formatted
  <2>2. {i \in Inodes : InodeIndex(i) \notin 0 .. FirstInode - 1} = Inodes \ U
    BY <1>2
  <2> QED BY <2>1, <2>2
<1>14. Ready(s)
  BY <1>0, <1>2, <1>11, <1>12, <1>13 DEF Ready, Fit
<1>15. \A i \in Inodes : Tree(s)[i] = {}
  <2> SUFFICES ASSUME NEW i \in Inodes PROVE Entries(s, i) = {}
    BY DEF Tree
  <2>1. Entries(s, i) = EntriesOf(N[i], s.disk.ents)
    BY <1>2, EntriesView
  <2>2. CASE i = RootInode
    <3>1. N[i] = RootNode
      BY <1>3, <2>2
    <3>2. s.disk.ents = [a \in Addrs |-> {}] /\ RootNode.direct[0] \in Addrs
      BY <1>2, RootBlock DEF Formatted
    <3>3. s.disk.ents[RootNode.direct[0]] = {}
      BY ONLY <3>2
    <3> QED BY <2>1, <3>1, <3>3 DEF EntriesOf
  <2>3. CASE i # RootInode
    <3>1. N[i] = BlankInode /\ BlankInode.type = "none"
      BY <1>3, <2>3 DEF BlankInode
    <3> QED BY <2>1, <3>1 DEF EntriesOf
  <2> QED BY <2>2, <2>3
<1>16. TreeOK(U, N, Tree(s))
  BY <1>3, <1>4, <1>15 DEF TreeOK
<1>17. OpenOK(open, U, N, Tree(s))
  BY <1>0, <1>1, EmptyCached, FS_EmptySet DEF OpenOK
<1>18. CacheOK(s, open)
  BY <1>0, <1>2 DEF CacheOK
<1>19. World(s, open)
  BY <1>14, <1>16, <1>17, <1>18 DEF World
<1> QED BY <1>2, <1>19 DEF IInv, Tidy

-----------------------------------------------------------------------------

-----------------------------------------------------------------------------
(* The invariant.                                                          *)
\* Every step preserves the invariant.
LEMMA Inductive ==
    ASSUME NGroups = 1, MaxPerName = 1, Misuse = FALSE
    PROVE  IInv /\ [Next]_vars => IInv'
<1> SUFFICES ASSUME IInv, [Next]_vars PROVE IInv'
  OBVIOUS
<1>1. ASSUME NEW h \in Handles, NEW p \in Paths, NEW mode \in {"r", "w", "a"}, FopenExisting(h, p, mode) PROVE IInv'
  BY <1>1, StepFopenExisting
<1>2. ASSUME NEW h \in Handles, NEW p \in Paths, NEW mode \in {"r", "w", "a"}, FopenCreate(h, p, mode) PROVE IInv'
  BY <1>2, StepFopenCreate
<1>3. ASSUME NEW h \in Handles, Write(h) PROVE IInv'
  BY <1>3, StepWrite
<1>4. ASSUME NEW h \in Handles, Close(h) PROVE IInv'
  BY <1>4, StepClose
<1>5. ASSUME NEW p \in Paths, Unlink(p) \/ Rmdir(p) PROVE IInv'
  BY <1>5, StepRemove
<1>6. ASSUME NEW p \in Paths, Mkdir(p) PROVE IInv'
  BY <1>6, StepMkdir
<1>7. CASE Remount
  BY <1>7, StepRemount
<1>8. CASE UNCHANGED vars
  <2>1. fs' = fs /\ open' = open
    BY <1>8 DEF vars
  <2> QED BY <2>1 DEF IInv
<1> QED BY <1>1, <1>2, <1>3, <1>4, <1>5, <1>6, <1>7, <1>8 DEF Next

\* The invariant holds in every behaviour.
LEMMA Always ==
    ASSUME NGroups = 1, MaxPerName = 1, Misuse = FALSE
    PROVE  Spec => []IInv
<1>1. Init => IInv
  BY FirstState
<1>2. IInv /\ [Next]_vars => IInv'
  BY Inductive
<1> QED BY <1>1, <1>2, PTL DEF Spec

-----------------------------------------------------------------------------

-----------------------------------------------------------------------------
(* What the invariant says of the pointers.                                *)
\* The reference that slot x of inode i is.
Place(i, n, P, x) ==
    IF x = -2 THEN <<i, "doubly", 0, n.d>> ELSE IF x = -1 THEN <<i, "singly", 0, n.s>>
    ELSE IF x < Direct THEN <<i, "direct", x, n.direct[x]>>
    ELSE <<n.s, "data", x - Direct, P[n.s][x - Direct]>>

\* The reference r is what slot x of inode i holds.
Placed(r, i, x) ==
    /\ i \in Used(fs) /\ x \in Slots /\ r = Place(i, Nodes(fs)[i], fs.disk.ptr, x)
    /\ r[4] = At(Nodes(fs)[i], fs.disk.ptr, x)

\* The reference r is a block of the tables.
Table(r, k) == k \in 0 .. Meta - 1 /\ r = <<0, "meta", k, Addr(0, k)>>

\* The sets that References is made of.
DirectRefs == { <<i, "direct", k, Inode(fs, i).direct[k]>> : i \in Used(fs), k \in 0 .. Direct - 1 }
SinglyRefs == { <<i, "singly", 0, Inode(fs, i).s>> : i \in Used(fs) }
DoublyRefs == { <<i, "doubly", 0, Inode(fs, i).d>> : i \in Used(fs) }
RefsIn(R, kind) == { <<r[4], kind, k, fs.disk.ptr[r[4]][k]>> : r \in { x \in R : x[4] # 0 }, k \in 0 .. APB - 1 }
LowerRefs == RefsIn(DoublyRefs, "singly below")
DataRefs == RefsIn(SinglyRefs \cup LowerRefs, "data")
TableRefs == { <<g, "meta", k, Addr(g, k)>> : g \in Groups, k \in 0 .. Meta - 1 }

\* References is the union of these sets.
LEMMA RefSets ==
    References = { r \in DirectRefs \cup SinglyRefs \cup DoublyRefs \cup LowerRefs \cup DataRefs \cup TableRefs : r[4] # 0 }
  BY DEF References, Used, DirectRefs, SinglyRefs, DoublyRefs, RefsIn, LowerRefs, DataRefs, TableRefs

\* b is a pointer in a block that a reference of R leads to.
Lower(b, R, kind) == \E c \in R, k \in 0 .. APB - 1 : c[4] # 0 /\ b = <<c[4], kind, k, fs.disk.ptr[c[4]][k]>>

\* RefsIn has the pointers in the blocks that R leads to.
LEMMA InRefs == ASSUME NEW R, NEW kind, NEW b, b \in RefsIn(R, kind) PROVE Lower(b, R, kind)
  BY DEF RefsIn, Lower

\* Every reference is a slot of an inode in use or a block of the tables: nothing
\* is reached through a doubly indirect block.
LEMMA Places ==
    ASSUME NGroups = 1, IInv, NEW r \in References
    PROVE  r[4] # 0 /\ ((\E i, x : Placed(r, i, x)) \/ \E k : Table(r, k))
<1> USE ExtAssumption
<1> PICK U : U = Used(fs)
  OBVIOUS
<1> PICK N : N = Nodes(fs)
  OBVIOUS
<1> PICK P : P = fs.disk.ptr
  OBVIOUS
<1>1. /\ Hollow(U, N, P) /\ N \in [Inodes -> InodeRecords] /\ P \in [Addrs -> Pointers] /\ U \subseteq Inodes
      /\ Held(Marked(fs), U, N, P) /\ Good(fs)
  <2>1. Good(fs) /\ BlocksGood(fs)
    BY DEF IInv, World, Ready, Fit
  <2>2. Typed(Marked(fs), U, N, P)
    BY <2>1, TypedView DEF Good
  <2> QED BY <2>1, <2>2 DEF BlocksGood, BlocksOK, Typed
<1>2. \A i \in U : Inode(fs, i) = N[i]
  BY <1>1, NodeAt DEF Good
<1>3. Groups = {0}
  BY OneGroup
<1>4. /\ r[4] # 0
      /\ r \in DirectRefs \/ r \in SinglyRefs \/ r \in DoublyRefs \/ r \in LowerRefs \/ r \in DataRefs \/ r \in TableRefs
  BY RefSets
<1>5. ASSUME NEW b \in LowerRefs PROVE b[4] = 0
  <2>1. PICK c \in DoublyRefs, k \in 0 .. APB - 1 : c[4] # 0 /\ b = <<c[4], "singly below", k, P[c[4]][k]>>
    <3>1. b \in RefsIn(DoublyRefs, "singly below")
      BY DEF LowerRefs
    <3>2. Lower(b, DoublyRefs, "singly below")
      BY ONLY <3>1, InRefs
    <3> QED BY <3>2 DEF Lower
  <2>2. PICK i \in U : c = <<i, "doubly", 0, Inode(fs, i).d>>
    BY DEF DoublyRefs
  <2>3. c[4] = N[i].d
    BY <1>2, <2>2
  <2>4. P[c[4]] = NoPtr
    BY <1>1, <2>1, <2>3 DEF Hollow
  <2>5. P[c[4]][k] = 0
    BY <2>4 DEF NoPtr
  <2> QED BY ONLY <2>1, <2>5
<1>6. r[4] # 0 /\ (r \in DirectRefs \/ r \in SinglyRefs \/ r \in DoublyRefs \/ r \in DataRefs \/ r \in TableRefs)
  BY <1>4, <1>5
<1>7. CASE r \in DirectRefs
  <2>1. PICK i \in U, k \in 0 .. Direct - 1 : r = <<i, "direct", k, Inode(fs, i).direct[k]>>
    BY <1>7 DEF DirectRefs
  <2>2. r = <<i, "direct", k, N[i].direct[k]>> /\ k \in Slots /\ k # -1 /\ k # -2 /\ k < Direct
    BY <1>2, <2>1 DEF Slots
  <2>3. Placed(r, i, k)
    BY ONLY <2>2, i \in U, U = Used(fs), N = Nodes(fs), P = fs.disk.ptr DEF Placed, Place, At
  <2> QED BY <1>6, <2>3
<1>8. CASE r \in SinglyRefs
  <2>1. PICK i \in U : r = <<i, "singly", 0, Inode(fs, i).s>>
    BY <1>8 DEF SinglyRefs
  <2>2. r = <<i, "singly", 0, N[i].s>> /\ -1 \in Slots /\ -1 # -2
    BY <1>2, <2>1 DEF Slots
  <2>3. Placed(r, i, -1)
    BY ONLY <2>2, i \in U, U = Used(fs), N = Nodes(fs), P = fs.disk.ptr DEF Placed, Place, At
  <2> QED BY <1>6, <2>3
<1>9. CASE r \in DoublyRefs
  <2>1. PICK i \in U : r = <<i, "doubly", 0, Inode(fs, i).d>>
    BY <1>9 DEF DoublyRefs
  <2>2. r = <<i, "doubly", 0, N[i].d>> /\ -2 \in Slots
    BY <1>2, <2>1 DEF Slots
  <2>3. Placed(r, i, -2)
    BY ONLY <2>2, i \in U, U = Used(fs), N = Nodes(fs), P = fs.disk.ptr DEF Placed, Place, At
  <2> QED BY <1>6, <2>3
<1>10. CASE r \in DataRefs
  <2>1. PICK b \in SinglyRefs \cup LowerRefs, k \in 0 .. APB - 1 : b[4] # 0 /\ r = <<b[4], "data", k, P[b[4]][k]>>
    <3>1. r \in RefsIn(SinglyRefs \cup LowerRefs, "data")
      BY <1>10 DEF DataRefs
    <3>2. Lower(r, SinglyRefs \cup LowerRefs, "data")
      BY ONLY <3>1, InRefs
    <3> QED BY <3>2 DEF Lower
  <2>2. PICK i \in U : b = <<i, "singly", 0, Inode(fs, i).s>>
    BY <1>5, <2>1 DEF SinglyRefs
  <2>3. b[4] = N[i].s
    BY <1>2, <2>2
  <2> PICK x : x = Direct + k
    OBVIOUS
  <2>4. x \in Slots /\ x # -1 /\ x # -2 /\ ~(x < Direct) /\ x - Direct = k
    BY <2>1 DEF Slots
  <2>5. N[i].s # 0 /\ r = <<N[i].s, "data", k, P[N[i].s][k]>>
    BY <2>1, <2>3
  <2>6. Placed(r, i, x)
    BY ONLY <2>4, <2>5, i \in U, U = Used(fs), N = Nodes(fs), P = fs.disk.ptr DEF Placed, Place, At
  <2> QED BY <1>6, <2>6
<1>11. CASE r \in TableRefs
  <2>1. PICK k \in 0 .. Meta - 1 : r = <<0, "meta", k, Addr(0, k)>>
    BY <1>3, <1>11 DEF TableRefs
  <2>2. Table(r, k)
    BY <2>1 DEF Table
  <2> QED BY <1>6, <2>2
<1> QED BY <1>6, <1>7, <1>8, <1>9, <1>10, <1>11

\* No block is reached twice, since no two places hold the same address.
LEMMA OncePlaced ==
    ASSUME NGroups = 1, IInv
    PROVE  BlocksOnce
<1> USE ExtAssumption
<1>1. /\ Held(Marked(fs), Used(fs), Nodes(fs), fs.disk.ptr) /\ Apart(Used(fs), Nodes(fs), fs.disk.ptr)
  BY DEF IInv, World, Ready, Fit, BlocksGood, BlocksOK
<1> SUFFICES ASSUME NEW r \in References, NEW q \in References, r[4] = q[4] PROVE r = q
  BY DEF BlocksOnce
<1>2. ASSUME NEW b \in References, NEW i, NEW x, Placed(b, i, x) PROVE b[4] \notin MetaBlocks
  <2>1. b[4] # 0
    BY Places
  <2> QED BY <1>1, <1>2, <2>1 DEF Placed, Held
<1>3. ASSUME NEW b \in References, NEW k, Table(b, k) PROVE b[4] \in MetaBlocks
  BY <1>3 DEF Table, MetaBlocks
<1>4. CASE (\E i, x : Placed(r, i, x)) /\ \E j, y : Placed(q, j, y)
  <2>1. PICK i, x : Placed(r, i, x)
    BY <1>4
  <2>2. PICK j, y : Placed(q, j, y)
    BY <1>4
  <2>3. r[4] # 0
    BY Places
  <2>4. i = j /\ x = y
    BY <1>1, <2>1, <2>2, <2>3 DEF Placed, Apart
  <2> QED BY <2>1, <2>2, <2>4 DEF Placed
<1>5. CASE (\E k : Table(r, k)) /\ \E l : Table(q, l)
  <2>1. PICK k : Table(r, k)
    BY <1>5
  <2>2. PICK l : Table(q, l)
    BY <1>5
  <2>3. k + Off = l + Off /\ k \in Int /\ l \in Int
    <3>1. k \in 0 .. BPG - 1 /\ l \in 0 .. BPG - 1 /\ Addr(0, k) = Addr(0, l)
      BY <2>1, <2>2 DEF Table
    <3> QED BY <3>1, OneGroup
  <2>4. k = l
    BY <2>3
  <2> QED BY <2>1, <2>2, <2>4 DEF Table
<1>6. ((\E i, x : Placed(r, i, x)) \/ \E k : Table(r, k)) /\ ((\E i, x : Placed(q, i, x)) \/ \E k : Table(q, k))
  BY Places
<1> QED BY <1>2, <1>3, <1>4, <1>5, <1>6

\* What is reached is marked, since every place holds a marked block.
LEMMA AllMarked ==
    ASSUME NGroups = 1, IInv
    PROVE  ReferencedAllocated
<1>1. /\ Held(Marked(fs), Used(fs), Nodes(fs), fs.disk.ptr) /\ MetaBlocks \subseteq Marked(fs)
  BY DEF IInv, World, Ready, Fit, BlocksGood, BlocksOK
<1> SUFFICES ASSUME NEW r \in References PROVE IndexOf(r[4]) \in Bits(fs, GroupOf(r[4]))
  BY DEF ReferencedAllocated
<1>2. r[4] # 0 /\ ((\E i, x : Placed(r, i, x)) \/ \E k : Table(r, k))
  BY Places
<1>3. r[4] \in Marked(fs)
  <2>1. CASE \E i, x : Placed(r, i, x)
    BY <1>1, <1>2, <2>1 DEF Placed, Held
  <2>2. CASE \E k : Table(r, k)
    BY <1>1, <2>2 DEF Table, MetaBlocks
  <2> QED BY <1>2, <2>1, <2>2
<1> QED BY <1>3 DEF Marked

\* The counters are those of the invariant.
LEMMA AllCounted ==
    ASSUME NGroups = 1, IInv
    PROVE  CountsExact
<1>1. fs.sbB = Cardinality(Addrs \ Marked(fs)) /\ fs.sbI = Cardinality(Inodes \ Used(fs))
  BY DEF IInv, World, Ready, Fit
<1>2. Addrs \ Marked(fs) = { a \in Addrs : IndexOf(a) \notin Bits(fs, GroupOf(a)) }
  BY DEF Marked
<1>3. Inodes \ Used(fs) = { i \in Inodes : ~InodeUsed(fs, i) }
  BY DEF Used
<1> QED BY <1>1, <1>2, <1>3 DEF CountsExact

\* The entries are those of the tree.
LEMMA AllNamed ==
    ASSUME NGroups = 1, IInv
    PROVE  NamedLive
<1>1. TreeOK(Used(fs), Nodes(fs), Tree(fs)) /\ OpenOK(open, Used(fs), Nodes(fs), Tree(fs)) /\ Good(fs)
  BY DEF IInv, World, Ready, Fit
<1>2. ASSUME NEW i \in Inodes, InodeUsed(fs, i), NEW e \in Entries(fs, i)
      PROVE  InodeUsed(fs, e.ino) /\ Inode(fs, e.ino).links > 0
  <2>1. i \in Used(fs) /\ e \in Tree(fs)[i]
    BY <1>2 DEF Used, Tree
  <2>2. e.ino \in Used(fs) /\ Nodes(fs)[e.ino].links > 0 /\ e.ino \in Inodes
    BY <1>1, <2>1 DEF TreeOK
  <2> QED BY <1>1, <2>2, NodeAt DEF Used, Good
<1>3. \A h \in DOMAIN open : InodeUsed(fs, open[h].ino)
  BY <1>1 DEF OpenOK, Used
<1> QED BY <1>2, <1>3 DEF NamedLive

\* With no file open, the invariant leaves only the lost inode in memory.
LEMMA AllOnDisk ==
    ASSUME NGroups = 1, IInv
    PROVE  DiskCurrent
<1> SUFFICES ASSUME open = <<>>
             PROVE  /\ DOMAIN fs.inodes \subseteq {NoInodes} /\ fs.block_alloc = <<>> /\ fs.inode_alloc = <<>>
                    /\ fs.sbB = fs.disk.sbB /\ fs.sbI = fs.disk.sbI
                    /\ \A g \in Groups : [fs.bgdt[g] EXCEPT !.mod = FALSE] = fs.disk.bgdt[g]
  BY DEF DiskCurrent
<1>1. DOMAIN open = {}
  OBVIOUS
<1>2. World(fs, open) /\ CleanMeta(fs)
  BY <1>1 DEF IInv, Tidy
<1>3. DOMAIN fs.inodes \subseteq {NoInodes}
  BY <1>1, <1>2, Unopened DEF Lost
<1>4. \A g \in Groups : [fs.bgdt[g] EXCEPT !.mod = FALSE] = fs.disk.bgdt[g]
  <2>1. [fs.bgdt[0] EXCEPT !.mod = FALSE] = fs.disk.bgdt[0]
    BY <1>2 DEF CleanMeta
  <2>2. Groups = {0}
    BY OneGroup
  <2> QED BY ONLY <2>1, <2>2
<1>5. fs.block_alloc = <<>> /\ fs.inode_alloc = <<>> /\ fs.sbB = fs.disk.sbB /\ fs.sbI = fs.disk.sbI
  BY <1>2 DEF CleanMeta
<1> QED BY ONLY <1>3, <1>4, <1>5

-----------------------------------------------------------------------------
(* The theorems.                                                           *)

\* No block serves twice, as data of two files, as data and as pointers, or as
\* a block of the tables (allocate_new_block, inode_set).
THEOREM NoBlockServesTwice ==
    ASSUME NGroups = 1, MaxPerName = 1, Misuse = FALSE
    PROVE  Spec => []BlocksOnce
<1>1. IInv => BlocksOnce
  BY OncePlaced
<1>2. Spec => []IInv
  BY Always
<1> QED BY <1>1, <1>2, PTL

\* What an inode in use reaches is marked in the bitmap, so no allocation takes
\* it (deallocate_block, truncate, DeallocateInode).
THEOREM ReachedIsMarked ==
    ASSUME NGroups = 1, MaxPerName = 1, Misuse = FALSE
    PROVE  Spec => []ReferencedAllocated
<1>1. IInv => ReferencedAllocated
  BY AllMarked
<1>2. Spec => []IInv
  BY Always
<1> QED BY <1>1, <1>2, PTL

\* The superblock's counts of free blocks and inodes are those of the bitmaps,
\* also after an allocation that failed half way.
THEOREM FreeIsCounted ==
    ASSUME NGroups = 1, MaxPerName = 1, Misuse = FALSE
    PROVE  Spec => []CountsExact
<1>1. IInv => CountsExact
  BY AllCounted
<1>2. Spec => []IInv
  BY Always
<1> QED BY <1>1, <1>2, PTL

\* Directory entries and open files have inodes in use, and what has a name has
\* a link (unlink, ~Ext2File).
THEOREM NamesAreLive ==
    ASSUME NGroups = 1, MaxPerName = 1, Misuse = FALSE
    PROVE  Spec => []NamedLive
<1>1. IInv => NamedLive
  BY AllNamed
<1>2. Spec => []IInv
  BY Always
<1> QED BY <1>1, <1>2, PTL

\* With no file open nothing is in memory only, but for the last inode
\* (flush_inode, FlushMetadata).
THEOREM NothingInMemoryOnly ==
    ASSUME NGroups = 1, MaxPerName = 1, Misuse = FALSE
    PROVE  Spec => []DiskCurrent
<1>1. IInv => DiskCurrent
  BY AllOnDisk
<1>2. Spec => []IInv
  BY Always
<1> QED BY <1>1, <1>2, PTL
=============================================================================
