----------------------------- MODULE StorageProofs -----------------------------
(***************************************************************************)
(* Theorems about the file objects (Files), the mounted file systems (Vfs) *)
(* and the disks (Disk).                                                   *)
(*                                                                         *)
(* Files.  FilesInv says what the contents of an open file are: the medium *)
(* with the buffer laid over it (BlockOverlay, ExtOverlay, MemoryOverlay). *)
(* Every call keeps that, for any block size and any lengths, so what a    *)
(* read delivers is what was written (ReadsDeliver), and a flush, which    *)
(* puts the buffer down, leaves nothing behind (FlushWrites).  Positions   *)
(* are compared through Base, the first byte of their block: with Blocks   *)
(* and BlockMates no later step divides.                                   *)
(*                                                                         *)
(* Vfs.  VfsInv says of tmpfs that two names never share an address and    *)
(* that two FILEs never share a name, which with the rules of Vfs is what  *)
(* keeps the address that a FILE holds the one of its own file; and of a   *)
(* FILE that its file system is the one mounted nearest above its path.    *)
(*                                                                         *)
(* Disk.  The three ways a driver writes a sector number to the registers  *)
(* are each the inverse of what the drive does with them (RegistersRight), *)
(* for any word size, heads and sectors per track that the registers have  *)
(* room for.  IoOK follows a transfer: which of wires, registers and       *)
(* command of its channel are already about the sector it is for.          *)
(***************************************************************************)
EXTENDS Files, Vfs, Disk, FiniteSetTheorems, TLAPS

-----------------------------------------------------------------------------
(* Blocks                                                                  *)
LEMMA DivMod ==
    ASSUME NEW n \in Nat
    PROVE  /\ Block(n) \in Nat /\ n % S \in 0 .. S - 1
           /\ n = S * Block(n) + (n % S)
<1>1. S \in Nat /\ S > 0
  BY FilesAssumption
<1>2. n % S \in 0 .. S - 1
  BY <1>1
<1>3. n = S * (n \div S) + (n % S)
  BY <1>1
<1>4. n \div S \in Nat
  BY <1>1
<1> QED
  BY <1>2, <1>3, <1>4 DEF Block
LEMMA SameBlock ==
    ASSUME NEW q \in Nat, NEW r \in 0 .. S - 1
    PROVE  Block(S * q + r) = q /\ (S * q + r) % S = r
<1>1. S \in Nat /\ S > 0
  BY FilesAssumption
<1> DEFINE n == S * q + r
           b == Block(n)
<1>2. n \in Nat /\ S * q \in Nat /\ r \in Nat /\ r < S
  BY <1>1
<1>3. b \in Nat /\ n % S \in 0 .. S - 1 /\ n = S * b + (n % S)
  BY <1>2, DivMod
<1> HIDE DEF b
<1>4. b = q
  <2>1. ASSUME b >= q + 1 PROVE FALSE
    <3>1. S * (b - q - 1) >= 0 /\ S * (b - q - 1) = S * b - S * q - S
      BY <1>1, <1>3, <2>1
    <3> QED BY <3>1, <1>1, <1>2, <1>3
  <2>2. ASSUME q >= b + 1 PROVE FALSE
    <3>1. S * (q - b - 1) >= 0 /\ S * (q - b - 1) = S * q - S * b - S
      BY <1>1, <1>3, <2>2
    <3> QED BY <3>1, <1>1, <1>2, <1>3
  <2> QED BY <2>1, <2>2, <1>3
<1> QED
  BY <1>2, <1>3, <1>4 DEF b

-----------------------------------------------------------------------------
\* The first byte of the block that holds p, and the bytes of that block.
Base(p) == Block(p) * S
InBlock(a, p) == Base(p) <= a /\ a < Base(p) + S

LEMMA Blocks ==
    ASSUME NEW p \in Nat
    PROVE  /\ S \in Nat /\ S > 0 /\ Block(p) \in Nat /\ Base(p) \in Nat
           /\ Base(p) <= p /\ p < Base(p) + S /\ p % S = p - Base(p) /\ p % S \in Nat
<1>1. S \in Nat /\ S > 0
  BY FilesAssumption
<1>2. Block(p) \in Nat /\ p % S \in 0 .. S - 1 /\ p = S * Block(p) + (p % S)
  BY DivMod
<1>3. Base(p) = S * Block(p) /\ S * Block(p) \in Nat
  BY <1>1, <1>2 DEF Base
<1> QED
  BY <1>1, <1>2, <1>3

LEMMA BlockMates ==
    ASSUME NEW a \in Nat, NEW p \in Nat
    PROVE  /\ Block(a) = Block(p) <=> InBlock(a, p)
           /\ Block(a) = Block(p) <=> Base(a) = Base(p)
           /\ InBlock(a, p) => a % S = a - Base(p)
           /\ a >= p /\ Block(a) # Block(p) => Base(a) >= Base(p) + S
<1>1. /\ S \in Nat /\ S > 0 /\ Block(p) \in Nat /\ Base(p) \in Nat
      /\ Base(p) <= p /\ p < Base(p) + S
  BY Blocks
<1>2. /\ Block(a) \in Nat /\ Base(a) \in Nat /\ Base(a) <= a /\ a < Base(a) + S
      /\ a % S = a - Base(a)
  BY Blocks
<1>3. Block(a) = Block(p) => Base(a) = Base(p)
  BY DEF Base
<1>4. ASSUME InBlock(a, p) PROVE Block(a) = Block(p)
  <2>1. PICK r \in 0 .. S - 1 : a = S * Block(p) + r
    <3>1. a - Base(p) \in 0 .. S - 1 /\ Base(p) = S * Block(p)
      BY <1>1, <1>4 DEF InBlock, Base
    <3>2. a = Base(p) + (a - Base(p))
      BY <1>1
    <3> QED
      BY <3>1, <3>2
  <2> QED
    BY <2>1, <1>1, SameBlock
<1>5. Base(a) = Base(p) => InBlock(a, p)
  BY <1>2 DEF InBlock
<1>6. ASSUME a >= p, Block(a) # Block(p) PROVE Base(a) >= Base(p) + S
  <2>1. a >= Base(p) + S
    BY <1>4, <1>6, <1>1 DEF InBlock
  <2> DEFINE b == Block(a)
             q == Block(p)
  <2>2. b >= q + 1
    <3>1. CASE b <= q - 1
      <4>1. S * (q - 1 - b) >= 0 /\ S * (q - 1 - b) = q * S - S - b * S
        BY <3>1, <1>1, <1>2
      <4>2. Base(p) >= Base(a) + S
        BY <4>1, <1>1, <1>2 DEF Base
      <4> QED
        BY <4>2, <2>1, <1>1, <1>2
    <3>2. b # q /\ b \in Nat /\ q \in Nat
      BY <1>6, <1>1, <1>2
    <3> HIDE DEF b, q
    <3> QED
      BY <3>1, <3>2
  <2>3. S * (b - q - 1) >= 0 /\ S * (b - q - 1) = b * S - q * S - S
    BY <2>2, <1>1, <1>2
  <2> QED
    BY <2>3, <1>1, <1>2 DEF Base
<1>7. InBlock(a, p) => Base(a) = Base(p)
  BY <1>3, <1>4
<1> QED
  BY <1>1, <1>2, <1>3, <1>4, <1>5, <1>6, <1>7

\* The medium is a whole number of blocks.
LEMMA WholeBlocks ==
    ASSUME NEW p \in Nat, p < Size
    PROVE  Base(p) + S <= Size
<1>1. Size \in Nat /\ Size % S = 0
  BY FilesAssumption
<1>2. Size % S = Size - Base(Size) /\ Base(Size) \in Nat
  BY <1>1, Blocks
<1>3. Base(Size) = Size
  BY <1>1, <1>2
<1>4. Block(Size) # Block(p)
  <2>1. Base(p) <= p /\ Base(p) \in Nat
    BY Blocks
  <2>2. Block(Size) = Block(p) <=> Base(Size) = Base(p)
    BY <1>1, BlockMates
  <2> QED
    BY <2>1, <2>2, <1>1, <1>3
<1>5. Size >= p /\ Block(Size) # Block(p) => Base(Size) >= Base(p) + S
  BY <1>1, BlockMates
<1> QED
  BY <1>1, <1>3, <1>4, <1>5

-----------------------------------------------------------------------------
\* What the operators on blocks and on the medium return.
LEMMA Sectors ==
    ASSUME NEW d, NEW p
    PROVE  /\ DOMAIN Sector(d, Block(p)) = 0 .. S - 1
           /\ \A i \in 0 .. S - 1 : Sector(d, Block(p))[i] = d[Base(p) + i]
  BY DEF Sector, Base

LEMMA Putting ==
    ASSUME NEW d, NEW s, NEW p \in Nat, NEW n \in Int
    PROVE  /\ DOMAIN PutSector(d, Block(p), s, n) = At
           /\ \A a \in At : PutSector(d, Block(p), s, n)[a] =
                IF InBlock(a, p) /\ a - Base(p) < n THEN s[a - Base(p)] ELSE d[a]
<1>1. DOMAIN PutSector(d, Block(p), s, n) = At
  BY DEF PutSector
<1>2. ASSUME NEW a \in At
      PROVE  PutSector(d, Block(p), s, n)[a] =
                IF InBlock(a, p) /\ a - Base(p) < n THEN s[a - Base(p)] ELSE d[a]
  <2>1. a \in Nat
    BY FilesAssumption DEF At
  <2>2. /\ Block(a) = Block(p) <=> InBlock(a, p)
        /\ InBlock(a, p) => a % S = a - Base(p)
    BY <2>1, BlockMates
  <2>3. PutSector(d, Block(p), s, n)[a] = IF Block(a) = Block(p) /\ a % S < n THEN s[a % S] ELSE d[a]
    BY DEF PutSector
  <2> QED
    BY <2>2, <2>3
<1> QED
  BY <1>1, <1>2

LEMMA Filling ==
    ASSUME NEW d, NEW from, NEW n, NEW v
    PROVE  /\ DOMAIN Fill(d, from, n, v) = DOMAIN d
           /\ \A a \in DOMAIN d : Fill(d, from, n, v)[a] =
                IF a \in from .. from + n - 1 THEN v ELSE d[a]
  BY DEF Fill

-----------------------------------------------------------------------------
\* The contents are those of the medium with the buffer laid over them: for a
\* block device the whole buffer if it is current, for ext2 the part before the
\* position; behind the position the buffer of ext2 agrees with the medium.
BlockOverlay ==
    kind = "block" => \A a \in At :
        ref[a] = IF cur /\ InBlock(a, pos) THEN buf[a - Base(pos)] ELSE dev[a]
ExtOverlay ==
    kind = "ext2" =>
        /\ \A a \in At : a < sz => (~InBlock(a, pos) \/ a >= pos => dev[a] = ref[a])
        /\ pos > Base(pos) => \A i \in 0 .. S - 1 : Base(pos) + i < sz => buf[i] = ref[Base(pos) + i]
MemoryOverlay == kind = "memory" => dev = ref
Shapes ==
    /\ DOMAIN dev = At /\ DOMAIN ref = At /\ DOMAIN buf = 0 .. S - 1
    /\ cur \in BOOLEAN
    /\ kind \in {"block", "ext2", "memory"}
    /\ pos \in Nat /\ sz \in Nat /\ pos <= sz /\ sz <= Size /\ rpos = pos
    /\ kind = "block" => sz = Size
Delivered == got = want
Written == last # "write" => \A a \in At : a < sz => dev[a] = ref[a]
FilesInv ==
    Shapes /\ BlockOverlay /\ ExtOverlay /\ MemoryOverlay /\ Delivered /\ Written

LEMMA FilesInit == Init => FilesInv
<1> SUFFICES ASSUME Init PROVE FilesInv
  OBVIOUS
<1>1. Size \in Nat /\ S \in Nat /\ kind \in {"block", "ext2", "memory"}
  BY FilesAssumption DEF Init
<1>2. Shapes
  <2>1. DOMAIN dev = At /\ DOMAIN buf = 0 .. S - 1 /\ ref = dev
    BY DEF Init
  <2>2. pos = 0 /\ rpos = 0 /\ sz = IF kind = "ext2" THEN 0 ELSE Size
    BY DEF Init
  <2>3. cur \in BOOLEAN
    BY Zenon DEF Init
  <2>4. pos \in Nat /\ sz \in Nat /\ pos <= sz /\ sz <= Size /\ rpos = pos /\ (kind = "block" => sz = Size)
    BY <1>1, <2>2
  <2> QED
    BY ONLY <1>1, <2>1, <2>3, <2>4, Zenon DEF Shapes
<1>3. Base(0) = 0
  <2>1. Base(0) \in Nat /\ Base(0) <= 0
    BY Blocks
  <2> QED
    BY <2>1
<1>4. ref = dev /\ cur = FALSE /\ pos = 0 /\ got = want /\ last # "flush" /\ (kind = "ext2" => sz = 0)
  BY DEF Init
<1>5. BlockOverlay
  BY <1>4 DEF BlockOverlay
<1>6. ExtOverlay
  BY <1>3, <1>4 DEF ExtOverlay
<1>7. MemoryOverlay /\ Delivered /\ Written
  BY <1>4 DEF MemoryOverlay, Delivered, Written
<1> QED
  BY <1>2, <1>5, <1>6, <1>7 DEF FilesInv

\* The contents of the buffer's sector, cached or read from the device.
LEMMA Loaded ==
    ASSUME FilesInv, kind = "block"
    PROVE  /\ DOMAIN BlockLoaded = 0 .. S - 1
           /\ pos < Size => \A i \in 0 .. S - 1 : BlockLoaded[i] = ref[Base(pos) + i]
<1>1. DOMAIN BlockLoaded = 0 .. S - 1
  BY Sectors DEF BlockLoaded, FilesInv, Shapes
<1>2. ASSUME pos < Size, NEW i \in 0 .. S - 1
      PROVE  BlockLoaded[i] = ref[Base(pos) + i]
  <2>1. pos \in Nat /\ Size \in Nat
    BY FilesAssumption DEF FilesInv, Shapes
  <2>2. Base(pos) + S <= Size /\ Base(pos) \in Nat /\ S \in Nat
    BY <1>2, <2>1, WholeBlocks, Blocks
  <2>3. Base(pos) + i \in At /\ InBlock(Base(pos) + i, pos) /\ Base(pos) + i - Base(pos) = i
    BY <2>2, <2>1 DEF At, InBlock
  <2>4. ref[Base(pos) + i] = IF cur THEN buf[i] ELSE dev[Base(pos) + i]
    <3>1. \A a \in At : ref[a] = IF cur /\ InBlock(a, pos) THEN buf[a - Base(pos)] ELSE dev[a]
      BY DEF FilesInv, BlockOverlay
    <3>a. PICK a \in At : a = Base(pos) + i
      BY <2>3
    <3>b. a - Base(pos) = i
      BY <2>2, <3>a
    <3>c. InBlock(a, pos)
      BY ONLY <2>3, <3>a, Zenon
    <3>2. a = Base(pos) + i /\ InBlock(a, pos) /\ a - Base(pos) = i
      BY <3>a, <3>b, <3>c
    <3>3. ref[a] = IF cur THEN buf[i] ELSE dev[a]
      BY ONLY <3>1, <3>2, Zenon
    <3> QED
      BY ONLY <3>2, <3>3, Zenon
  <2>5. Sector(dev, Block(pos))[i] = dev[Base(pos) + i]
    BY Sectors
  <2> QED
    BY ONLY <2>4, <2>5, Zenon DEF BlockLoaded
<1> QED
  BY <1>1, <1>2

\* BlockFile: sectors that become full go to the device, the rest stays.
LEMMA BlockWriteSound ==
    ASSUME FilesInv, NEW n \in Lens, NEW v, BlockWrite(n, v)
    PROVE  FilesInv'
<1>1. /\ kind = "block" /\ kind' = kind /\ sz' = sz /\ sz = Size /\ got' = got /\ want' = want
      /\ last' = "write" /\ pos + n <= Size /\ pos' = pos + n /\ rpos' = rpos + n /\ rpos = pos
      /\ ref' = Fill(ref, pos, n, v)
  BY DEF BlockWrite, Wrote, FilesInv, Shapes
<1>2. n \in Nat /\ n > 0 /\ pos \in Nat /\ Size \in Nat /\ pos < Size /\ S \in Nat /\ S > 0
  BY <1>1, FilesAssumption DEF FilesInv, Shapes
<1> DEFINE end == pos + n
           bp == pos % S
           first == IF bp # 0 \/ n < S THEN BlockLoaded ELSE buf
           merged == PutSector(dev, Block(pos), first, bp)
           flushed == Fill(merged, pos, Block(end) * S - pos, v)
<1>3. /\ Base(pos) \in Nat /\ Base(pos) <= pos /\ pos < Base(pos) + S /\ bp = pos - Base(pos)
      /\ bp \in Nat /\ Base(pos) + S <= Size
  BY <1>2, Blocks, WholeBlocks
<1>4. /\ end \in Nat /\ Base(end) \in Nat /\ Base(end) <= end /\ end < Base(end) + S
      /\ end % S = end - Base(end) /\ Base(end) = Block(end) * S
  <2>1. end \in Nat
    BY <1>2
  <2> HIDE DEF end
  <2> QED
    BY <2>1, Blocks DEF Base
<1>5. IF Block(end) = Block(pos)
      THEN buf' = Fill(first, bp, n, v) /\ cur' = TRUE /\ dev' = dev
      ELSE /\ dev' = flushed
           /\ cur' = (end % S # 0)
           /\ buf' = IF end % S = 0 THEN first
                     ELSE Fill(Sector(flushed, Block(end)), 0, end % S, v)
  BY DEF BlockWrite
<1>6. Block(end) = Block(pos) => Base(end) = Base(pos) /\ n < S
  <2>1. Block(end) = Block(pos) => Base(end) = Base(pos)
    BY <1>2, <1>4, BlockMates
  <2> QED
    BY <2>1, <1>2, <1>3, <1>4
<1>7. Block(end) # Block(pos) => Base(end) >= Base(pos) + S
  BY <1>2, <1>4, BlockMates
<1>8. DOMAIN first = 0 .. S - 1 /\ (bp # 0 \/ n < S => \A i \in 0 .. S - 1 : first[i] = ref[Base(pos) + i])
  BY <1>1, <1>2, Loaded DEF FilesInv, Shapes
<1>9. /\ DOMAIN ref = At /\ DOMAIN dev = At /\ DOMAIN buf = 0 .. S - 1
      /\ \A a \in At : ref[a] = IF cur /\ InBlock(a, pos) THEN buf[a - Base(pos)] ELSE dev[a]
  BY <1>1 DEF FilesInv, Shapes, BlockOverlay
<1>10. \A a \in At : ref'[a] = IF a \in pos .. pos + n - 1 THEN v ELSE ref[a]
  BY <1>1, <1>9, Filling
<1>11. \A a \in At : a \in Nat /\ a < Size
  BY <1>2 DEF At
<1> HIDE DEF first, bp
<1>12. DOMAIN merged = At /\ DOMAIN flushed = At
  <2>1. DOMAIN merged = At
    <3>1. pos \in Nat /\ bp \in Int
      BY <1>2, <1>3
    <3> QED
      BY ONLY <3>1, Putting
  <2> HIDE DEF merged
  <2> QED
    BY ONLY <2>1, Filling
<1>13. \A a \in At : merged[a] = IF InBlock(a, pos) /\ a - Base(pos) < bp THEN first[a - Base(pos)] ELSE dev[a]
  <2>1. pos \in Nat /\ bp \in Int
    BY <1>2, <1>3
  <2> QED
    BY ONLY <2>1, Putting
<1>14. \A a \in At : flushed[a] = IF a \in pos .. Base(end) - 1 THEN v ELSE merged[a]
  <2>1. pos + (Base(end) - pos) - 1 = Base(end) - 1
    BY <1>2, <1>4
  <2> QED
    BY <2>1, <1>4, <1>12, Filling
<1> HIDE DEF first, merged, flushed, bp, end
<1>15. Shapes'
  <2>1. DOMAIN buf' = 0 .. S - 1 /\ DOMAIN dev' = At
    BY <1>5, <1>8, <1>9, <1>12, Filling, Sectors
  <2>2. DOMAIN ref' = At
    BY <1>1, <1>9, Filling
  <2>3. cur' \in BOOLEAN
    BY <1>5
  <2> QED
    BY <1>1, <1>2, <2>1, <2>2, <2>3 DEF Shapes, FilesInv
<1>16. BlockOverlay'
  <2> SUFFICES ASSUME NEW a \in At
               PROVE  ref'[a] = IF cur' /\ InBlock(a, end) THEN buf'[a - Base(end)] ELSE dev'[a]
    BY <1>1 DEF BlockOverlay, end
  <2>1. a \in Nat /\ a < Size /\ ref'[a] = IF a \in pos .. pos + n - 1 THEN v ELSE ref[a]
    BY <1>10, <1>11
  <2>2. CASE Block(end) = Block(pos)
    <3>1. Base(end) = Base(pos) /\ n < S /\ buf' = Fill(first, bp, n, v) /\ cur' = TRUE /\ dev' = dev
      BY <2>2, <1>5, <1>6
    <3>2. CASE InBlock(a, pos)
      <4>1. a - Base(pos) \in 0 .. S - 1 /\ InBlock(a, end)
        BY <3>1, <3>2, <2>1, <1>2, <1>3 DEF InBlock
      <4>2. buf'[a - Base(pos)] = IF a - Base(pos) \in bp .. bp + n - 1 THEN v ELSE first[a - Base(pos)]
        <5>1. buf' = Fill(first, bp, n, v) /\ a - Base(pos) \in DOMAIN first
          BY <3>1, <4>1, <1>8
        <5> QED
          BY ONLY <5>1, Filling
      <4>3. first[a - Base(pos)] = ref[a]
        <5>1. first[a - Base(pos)] = ref[Base(pos) + (a - Base(pos))]
          BY <3>1, <4>1, <1>8
        <5>2. Base(pos) + (a - Base(pos)) = a
          BY <1>3, <2>1
        <5> QED
          BY <5>1, <5>2
      <4>4. a - Base(pos) \in bp .. bp + n - 1 <=> a \in pos .. pos + n - 1
        BY <1>2, <1>3, <2>1
      <4> QED
        BY <2>1, <3>1, <4>1, <4>2, <4>3, <4>4
    <3>3. CASE ~InBlock(a, pos)
      <4>1. a \notin pos .. pos + n - 1 /\ ~InBlock(a, end)
        BY <3>1, <3>3, <2>1, <1>2, <1>3, <1>4 DEF InBlock, end
      <4> QED
        BY <2>1, <3>1, <3>3, <4>1, <1>9
    <3> QED
      BY <3>2, <3>3
  <2>3. CASE Block(end) # Block(pos)
    <3>1. /\ Base(end) >= Base(pos) + S /\ dev' = flushed /\ cur' = (end % S # 0)
          /\ buf' = IF end % S = 0 THEN first ELSE Fill(Sector(flushed, Block(end)), 0, end % S, v)
      BY <2>3, <1>5, <1>7
    <3>2. flushed[a] = IF a \in pos .. Base(end) - 1 THEN v ELSE merged[a]
      BY <1>14
    <3>3. CASE a < pos
      <4>1. ~InBlock(a, end) /\ a \notin pos .. Base(end) - 1 /\ a \notin pos .. pos + n - 1
        BY <3>1, <3>3, <2>1, <1>2, <1>3, <1>4 DEF InBlock
      <4>2. merged[a] = ref[a]
        <5>1. CASE InBlock(a, pos)
          <6>1. bp # 0 /\ a - Base(pos) < bp /\ a - Base(pos) \in 0 .. S - 1
            BY <5>1, <3>3, <2>1, <1>2, <1>3 DEF InBlock
          <6>2. merged[a] = first[a - Base(pos)] /\ first[a - Base(pos)] = ref[Base(pos) + (a - Base(pos))]
            BY <6>1, <5>1, <1>8, <1>13
          <6>3. Base(pos) + (a - Base(pos)) = a
            BY <1>3, <2>1
          <6> QED
            BY <6>2, <6>3
        <5>2. CASE ~InBlock(a, pos)
          BY <5>2, <1>9, <1>13
        <5> QED
          BY <5>1, <5>2
      <4> QED
        BY <2>1, <3>1, <3>2, <4>1, <4>2
    <3>4. CASE a >= pos /\ a < Base(end)
      <4>1. ~InBlock(a, end) /\ a \in pos .. Base(end) - 1 /\ a \in pos .. pos + n - 1
        BY <3>4, <2>1, <1>2, <1>4 DEF InBlock, end
      <4> QED
        BY <2>1, <3>1, <3>2, <4>1
    <3>5. CASE a >= Base(end)
      <4>1. a \notin pos .. Base(end) - 1 /\ ~InBlock(a, pos)
        BY <3>5, <3>1, <2>1, <1>2, <1>3, <1>4 DEF InBlock
      <4>2. flushed[a] = ref[a]
        BY <3>2, <4>1, <1>9, <1>13
      <4>3. CASE end % S # 0 /\ InBlock(a, end)
        <5>1. a - Base(end) \in 0 .. S - 1 /\ Base(end) + (a - Base(end)) = a
          BY <4>3, <2>1, <1>2, <1>4 DEF InBlock
        <5>2. Sector(flushed, Block(end))[a - Base(end)] = flushed[a]
          BY <5>1, Sectors
        <5>3. buf'[a - Base(end)] = IF a - Base(end) \in 0 .. 0 + (end % S) - 1 THEN v ELSE flushed[a]
          <6>1. buf' = Fill(Sector(flushed, Block(end)), 0, end % S, v)
            BY <4>3, <3>1
          <6>2. a - Base(end) \in DOMAIN Sector(flushed, Block(end))
            BY <5>1, Sectors
          <6> QED
            BY ONLY <6>1, <6>2, <5>2, Filling
        <5>4. a - Base(end) \in 0 .. 0 + (end % S) - 1 <=> a \in pos .. pos + n - 1
          <6>1. end = pos + n
            BY DEF end
          <6>2. /\ end % S = end - Base(end) /\ Base(end) \in Nat /\ a \in Nat /\ Base(end) <= a
                /\ pos <= Base(end) /\ pos \in Nat /\ n \in Nat
            BY <3>5, <3>1, <2>1, <1>2, <1>3, <1>4
          <6> QED
            BY ONLY <6>1, <6>2
        <5> QED
          BY <5>3, <5>4, <4>2, <4>3, <3>1, <2>1
      <4>4. CASE ~(end % S # 0 /\ InBlock(a, end))
        <5>1. a \notin pos .. pos + n - 1
          BY <4>4, <3>5, <2>1, <1>2, <1>4 DEF InBlock, end
        <5> QED
          BY <5>1, <4>2, <4>4, <3>1, <2>1
      <4> QED
        BY <4>3, <4>4
    <3> QED
      BY <3>3, <3>4, <3>5, <2>1, <1>2, <1>4
  <2> QED
    BY <2>2, <2>3
<1>17. ExtOverlay' /\ MemoryOverlay' /\ Delivered' /\ Written'
  BY <1>1 DEF ExtOverlay, MemoryOverlay, Delivered, Written, FilesInv
<1> QED
  BY <1>15, <1>16, <1>17 DEF FilesInv

\* Seen through the buffer, or flushed, the device holds the contents.
LEMMA BlockView ==
    ASSUME FilesInv, kind = "block", pos < Size
    PROVE  \A a \in At : PutSector(dev, Block(pos), BlockLoaded, S)[a] = ref[a]
<1> SUFFICES ASSUME NEW a \in At
             PROVE  PutSector(dev, Block(pos), BlockLoaded, S)[a] = ref[a]
  OBVIOUS
<1>1. a \in Nat /\ pos \in Nat /\ S \in Nat /\ S \in Int
  BY FilesAssumption DEF At, FilesInv, Shapes
<1>2. PutSector(dev, Block(pos), BlockLoaded, S)[a] =
        IF InBlock(a, pos) /\ a - Base(pos) < S THEN BlockLoaded[a - Base(pos)] ELSE dev[a]
  <2>1. \A x \in At : PutSector(dev, Block(pos), BlockLoaded, S)[x] =
          IF InBlock(x, pos) /\ x - Base(pos) < S THEN BlockLoaded[x - Base(pos)] ELSE dev[x]
    <3>1. PICK d, s, p, n : d = dev /\ s = BlockLoaded /\ p = pos /\ n = S
      OBVIOUS
    <3>2. p \in Nat /\ n \in Int
      BY <1>1, <3>1
    <3>3. \A x \in At : PutSector(d, Block(p), s, n)[x] =
            IF InBlock(x, p) /\ x - Base(p) < n THEN s[x - Base(p)] ELSE d[x]
      BY ONLY <3>2, Putting
    <3> QED BY ONLY <3>1, <3>3, Zenon
  <2> QED BY ONLY <2>1, a \in At, Zenon
<1>3. Base(pos) \in Nat
  BY <1>1, Blocks
<1>4. CASE InBlock(a, pos)
  <2>1. a - Base(pos) \in 0 .. S - 1 /\ a - Base(pos) < S /\ Base(pos) + (a - Base(pos)) = a
    BY <1>1, <1>3, <1>4 DEF InBlock
  <2>2. BlockLoaded[a - Base(pos)] = ref[Base(pos) + (a - Base(pos))]
    BY <2>1, Loaded
  <2> QED
    BY <1>2, <1>4, <2>1, <2>2
<1>5. CASE ~InBlock(a, pos)
  <2>1. dev[a] = ref[a]
    BY <1>5, Zenon DEF FilesInv, BlockOverlay
  <2> QED
    BY <1>2, <1>5, <2>1
<1> QED
  BY <1>4, <1>5

LEMMA BlockFlushedAll ==
    ASSUME FilesInv, kind = "block"
    PROVE  DOMAIN BlockFlushed = At /\ \A a \in At : BlockFlushed[a] = ref[a]
<1>1. pos \in Nat /\ S \in Nat /\ S \in Int
  BY FilesAssumption DEF FilesInv, Shapes
<1>2. \A a \in At : ref[a] = IF cur /\ InBlock(a, pos) THEN buf[a - Base(pos)] ELSE dev[a]
  BY DEF FilesInv, BlockOverlay
<1>3. CASE cur
  <2>1. BlockFlushed = PutSector(dev, Block(pos), buf, S)
    BY <1>3, Zenon DEF BlockFlushed
  <2>2. DOMAIN PutSector(dev, Block(pos), buf, S) = At
    BY ONLY <1>1, Putting
  <2>3. ASSUME NEW a \in At PROVE PutSector(dev, Block(pos), buf, S)[a] = ref[a]
    <3>1. PutSector(dev, Block(pos), buf, S)[a] =
            IF InBlock(a, pos) /\ a - Base(pos) < S THEN buf[a - Base(pos)] ELSE dev[a]
      BY ONLY <1>1, Putting
    <3>2. ref[a] = IF InBlock(a, pos) THEN buf[a - Base(pos)] ELSE dev[a]
      BY ONLY <1>2, <1>3, Zenon
    <3>3. InBlock(a, pos) => a - Base(pos) < S
      <4>1. a \in Nat /\ Base(pos) \in Nat
        BY FilesAssumption, <1>1, Blocks DEF At
      <4> QED
        BY <4>1, <1>1 DEF InBlock
    <3> QED
      BY ONLY <3>1, <3>2, <3>3
  <2> QED
    BY ONLY <2>1, <2>2, <2>3, Zenon
<1>4. CASE ~cur
  <2>1. BlockFlushed = dev
    BY <1>4, Zenon DEF BlockFlushed
  <2>2. DOMAIN dev = At
    BY DEF FilesInv, Shapes
  <2>3. \A a \in At : ref[a] = dev[a]
    BY ONLY <1>2, <1>4, Zenon
  <2> QED
    BY ONLY <2>1, <2>2, <2>3, Zenon
<1> QED
  BY <1>3, <1>4

LEMMA BlockFlushSound ==
    ASSUME FilesInv, BlockFlush
    PROVE  FilesInv'
<1>1. /\ kind = "block" /\ kind' = kind /\ dev' = BlockFlushed /\ pos' = pos /\ rpos' = rpos
      /\ last' = "flush" /\ ref' = ref /\ sz' = sz /\ got' = got /\ want' = want /\ buf' = buf /\ cur' = cur
  BY DEF BlockFlush, Moved
<1>2. DOMAIN dev' = At /\ \A a \in At : dev'[a] = ref[a]
  BY <1>1, BlockFlushedAll
<1>3. Shapes'
  BY <1>1, <1>2 DEF Shapes, FilesInv
<1>4. BlockOverlay'
  <2> SUFFICES ASSUME NEW a \in At
               PROVE  ref[a] = IF cur /\ InBlock(a, pos) THEN buf[a - Base(pos)] ELSE dev'[a]
    BY <1>1, Zenon DEF BlockOverlay
  <2>1. ref[a] = IF cur /\ InBlock(a, pos) THEN buf[a - Base(pos)] ELSE dev[a]
    BY <1>1 DEF FilesInv, BlockOverlay
  <2> QED
    BY ONLY <1>2, <2>1, Zenon
<1>5. ExtOverlay' /\ MemoryOverlay' /\ Delivered' /\ Written'
  BY <1>1, <1>2 DEF ExtOverlay, MemoryOverlay, Delivered, Written, FilesInv
<1> QED
  BY <1>3, <1>4, <1>5 DEF FilesInv

LEMMA BlockSeekSound ==
    ASSUME FilesInv, NEW p \in 0 .. sz, BlockSeek(p, p)
    PROVE  FilesInv'
<1>1. /\ kind = "block" /\ kind' = kind /\ dev' = BlockFlushed /\ pos' = p /\ rpos' = p
      /\ last' = "flush" /\ ref' = ref /\ sz' = sz /\ got' = got /\ want' = want /\ buf' = buf
      /\ cur' = (cur /\ Block(p) = Block(pos))
  BY DEF BlockSeek, Moved
<1>2. DOMAIN dev' = At /\ \A a \in At : dev'[a] = ref[a]
  BY <1>1, BlockFlushedAll
<1>3. p \in Nat /\ p <= sz /\ pos \in Nat /\ sz \in Nat
  BY DEF FilesInv, Shapes
<1>4. Shapes'
  <2>1. cur' \in BOOLEAN
    BY ONLY <1>1, Zenon
  <2> QED
    BY <1>1, <1>2, <1>3, <2>1 DEF Shapes, FilesInv
<1>5. BlockOverlay'
  <2> SUFFICES ASSUME NEW a \in At
               PROVE  ref[a] = IF (cur /\ Block(p) = Block(pos)) /\ InBlock(a, p) THEN buf[a - Base(p)] ELSE dev'[a]
    BY <1>1, Zenon DEF BlockOverlay
  <2>1. ref[a] = IF cur /\ InBlock(a, pos) THEN buf[a - Base(pos)] ELSE dev[a]
    BY <1>1 DEF FilesInv, BlockOverlay
  <2>2. Block(p) = Block(pos) => Base(p) = Base(pos)
    BY DEF Base
  <2>3. ASSUME cur, Block(p) = Block(pos), InBlock(a, p)
        PROVE  ref[a] = buf[a - Base(p)]
    <3>1. InBlock(a, pos)
      BY <2>2, <2>3 DEF InBlock
    <3> QED
      BY ONLY <2>1, <2>2, <2>3, <3>1, Zenon
  <2> QED
    BY ONLY <1>2, <2>3, Zenon
<1>6. ExtOverlay' /\ MemoryOverlay' /\ Delivered' /\ Written'
  BY <1>1, <1>2 DEF ExtOverlay, MemoryOverlay, Delivered, Written, FilesInv
<1> QED
  BY <1>4, <1>5, <1>6 DEF FilesInv

\* A slice of two arrays that agree.
LEMMA Slices ==
    ASSUME NEW d, NEW e, NEW from \in Nat, NEW n \in Nat, from + n <= Size,
           \A a \in At : d[a] = e[a]
    PROVE  Slice(d, from, n) = Slice(e, from, n)
<1>1. \A i \in 0 .. n - 1 : from + i \in At
  BY FilesAssumption DEF At
<1> QED
  BY <1>1 DEF Slice

LEMMA BlockReadSound ==
    ASSUME FilesInv, Careful = TRUE, NEW n \in Lens, BlockRead(n)
    PROVE  FilesInv'
<1> DEFINE end == pos + n
           view == PutSector(dev, Block(pos), BlockLoaded, S)
<1>1. /\ kind = "block" /\ kind' = kind /\ last # "write" /\ end <= Size /\ pos' = end /\ rpos' = rpos + n
      /\ got' = Slice(view, pos, n) /\ want' = Slice(ref, rpos, n) /\ last' = "read"
      /\ ref' = ref /\ sz' = sz /\ dev' = dev /\ cur' = (end % S # 0)
      /\ buf' = IF end % S = 0 THEN Sector(view, Block(end - 1)) ELSE Sector(view, Block(end))
  BY DEF BlockRead, Seen, CarefulRead
<1>2. /\ n \in Nat /\ n > 0 /\ pos \in Nat /\ Size \in Nat /\ pos < Size /\ S \in Nat /\ end \in Nat
      /\ rpos = pos /\ sz = Size
  BY <1>1, FilesAssumption DEF FilesInv, Shapes
<1>3. \A a \in At : view[a] = ref[a]
  BY <1>1, <1>2, BlockView
<1>4. \A a \in At : dev[a] = ref[a]
  BY <1>1, <1>2 DEF FilesInv, Written, At
<1> HIDE DEF end, view
<1>5. Base(end) \in Nat /\ end % S = end - Base(end)
  BY <1>2, Blocks
<1>6. Shapes'
  <2>1. DOMAIN buf' = 0 .. S - 1
    BY <1>1, Sectors
  <2>2. cur' \in BOOLEAN
    BY ONLY <1>1, Zenon
  <2>3. pos' = end /\ rpos' = end /\ end <= sz'
    BY <1>1, <1>2 DEF end
  <2> QED
    BY <1>1, <1>2, <2>1, <2>2, <2>3 DEF Shapes, FilesInv
<1>7. BlockOverlay'
  <2> SUFFICES ASSUME NEW a \in At
               PROVE  ref[a] = IF end % S # 0 /\ InBlock(a, end) THEN buf'[a - Base(end)] ELSE dev[a]
    BY <1>1, Zenon DEF BlockOverlay
  <2>1. CASE end % S # 0 /\ InBlock(a, end)
    <3>1. a - Base(end) \in 0 .. S - 1 /\ Base(end) + (a - Base(end)) = a
      BY <2>1, <1>2, <1>5 DEF InBlock, At
    <3>2. buf' = Sector(view, Block(end))
      BY <1>1, <2>1
    <3>3. buf'[a - Base(end)] = view[Base(end) + (a - Base(end))]
      BY ONLY <3>1, <3>2, Sectors
    <3> QED
      BY <2>1, <3>1, <3>3, <1>3
  <2>2. CASE ~(end % S # 0 /\ InBlock(a, end))
    BY <2>2, <1>4
  <2> QED
    BY <2>1, <2>2
<1>8. Delivered'
  <2>1. Slice(view, pos, n) = Slice(ref, pos, n)
    BY <1>1, <1>2, <1>3, Slices DEF end
  <2> QED
    BY <2>1, <1>1, <1>2 DEF Delivered
<1>9. ExtOverlay' /\ MemoryOverlay' /\ Written'
  BY <1>1, <1>4 DEF ExtOverlay, MemoryOverlay, Written, FilesInv
<1> QED
  BY <1>6, <1>7, <1>8, <1>9 DEF FilesInv

LEMMA MinOfTwo ==
    ASSUME NEW a \in Int, NEW b \in Int
    PROVE  Min({a, b}) = IF a <= b THEN a ELSE b
  BY DEF Min
LEMMA MinOfThree ==
    ASSUME NEW a \in Int, NEW b \in Int, NEW c \in Int, b <= c
    PROVE  Min({a, b, c}) = IF a <= b THEN a ELSE b
  BY DEF Min
LEMMA MaxOfTwo ==
    ASSUME NEW a \in Int, NEW b \in Int, a <= b
    PROVE  Max({a, b}) = b
  BY DEF Max

\* Ext2File: after a flush the medium holds the contents.
LEMMA ExtFlushedAll ==
    ASSUME FilesInv, kind = "ext2"
    PROVE  DOMAIN ExtFlushed = At /\ \A a \in At : a < sz => ExtFlushed[a] = ref[a]
<1>1. /\ pos \in Nat /\ S \in Nat /\ Base(pos) \in Nat /\ Base(pos) <= pos /\ pos < Base(pos) + S
      /\ pos % S = pos - Base(pos) /\ pos % S \in Int
  <2>1. pos \in Nat
    BY DEF FilesInv, Shapes
  <2> QED
    BY <2>1, Blocks
<1>a. PICK m \in Int : m = pos % S
  BY <1>1
<1>b. ExtFlushed = PutSector(dev, Block(pos), buf, m)
  BY <1>a DEF ExtFlushed
<1>2. DOMAIN ExtFlushed = At
  BY ONLY <1>1, <1>b, Putting
<1>3. ASSUME NEW a \in At, a < sz PROVE ExtFlushed[a] = ref[a]
  <2>1. ExtFlushed[a] = IF InBlock(a, pos) /\ a - Base(pos) < pos % S THEN buf[a - Base(pos)] ELSE dev[a]
    <3>1. PutSector(dev, Block(pos), buf, m)[a] = IF InBlock(a, pos) /\ a - Base(pos) < m THEN buf[a - Base(pos)] ELSE dev[a]
      <4>1. pos \in Nat /\ m \in Int /\ a \in At
        BY <1>1
      <4> QED
        BY ONLY <4>1, Putting
    <3> QED
      BY ONLY <3>1, <1>a, <1>b, Zenon
  <2>2. a \in Nat
    BY FilesAssumption DEF At
  <2>3. CASE InBlock(a, pos) /\ a - Base(pos) < pos % S
    <3>1. pos > Base(pos) /\ a - Base(pos) \in 0 .. S - 1 /\ Base(pos) + (a - Base(pos)) = a
      BY <2>2, <2>3, <1>1 DEF InBlock
    <3>2. \A i \in 0 .. S - 1 : Base(pos) + i < sz => buf[i] = ref[Base(pos) + i]
      BY <3>1 DEF FilesInv, ExtOverlay
    <3>3. buf[a - Base(pos)] = ref[Base(pos) + (a - Base(pos))]
      BY <3>1, <3>2, <1>3
    <3> QED
      BY <2>1, <2>3, <3>1, <3>3
  <2>4. CASE ~(InBlock(a, pos) /\ a - Base(pos) < pos % S)
    <3>1. ~InBlock(a, pos) \/ a >= pos
      BY <2>2, <2>4, <1>1
    <3>2. dev[a] = ref[a]
      BY <3>1, <1>3 DEF FilesInv, ExtOverlay
    <3> QED
      BY <2>1, <2>4, <3>2
  <2> QED
    BY <2>3, <2>4
<1> QED
  BY <1>2, <1>3

LEMMA ExtFlushSound ==
    ASSUME FilesInv, ExtFlush
    PROVE  FilesInv'
<1>1. /\ kind = "ext2" /\ kind' = kind /\ dev' = ExtFlushed /\ pos' = pos /\ rpos' = rpos
      /\ last' = "flush" /\ ref' = ref /\ sz' = sz /\ got' = got /\ want' = want /\ buf' = buf /\ cur' = cur
  BY DEF ExtFlush, ExtFlushed, Moved
<1>2. DOMAIN dev' = At /\ \A a \in At : a < sz => dev'[a] = ref[a]
  BY <1>1, ExtFlushedAll
<1>3. Shapes'
  BY <1>1, <1>2 DEF Shapes, FilesInv
<1>4. ExtOverlay'
  BY <1>1, <1>2 DEF ExtOverlay, FilesInv
<1>5. BlockOverlay' /\ MemoryOverlay' /\ Delivered' /\ Written'
  BY <1>1, <1>2 DEF BlockOverlay, MemoryOverlay, Delivered, Written, FilesInv
<1> QED
  BY <1>3, <1>4, <1>5 DEF FilesInv

LEMMA ExtSeekSound ==
    ASSUME FilesInv, NEW p \in 0 .. sz, ExtSeek(p, p)
    PROVE  FilesInv'
<1>1. /\ kind = "ext2" /\ kind' = kind /\ dev' = ExtFlushed /\ pos' = p /\ rpos' = p
      /\ last' = "flush" /\ ref' = ref /\ sz' = sz /\ got' = got /\ want' = want /\ cur' = cur
      /\ buf' = IF (pos % S = 0 \/ Block(p) # Block(pos)) /\ p % S # 0
                THEN Sector(ExtFlushed, Block(p)) ELSE buf
  BY DEF ExtSeek, ExtFlushed, Moved
<1>2. DOMAIN dev' = At /\ \A a \in At : a < sz => dev'[a] = ref[a]
  BY <1>1, ExtFlushedAll
<1>3. p \in Nat /\ p <= sz /\ pos \in Nat /\ sz \in Nat /\ sz <= Size /\ Size \in Nat /\ S \in Nat
  BY FilesAssumption DEF FilesInv, Shapes
<1>4. /\ p % S = p - Base(p) /\ Base(p) \in Nat
      /\ pos % S = pos - Base(pos) /\ Base(pos) \in Nat
  BY <1>3, Blocks
<1>5. Shapes'
  <2>1. DOMAIN buf' = 0 .. S - 1
    BY <1>1, Sectors DEF FilesInv, Shapes
  <2> QED
    BY <1>1, <1>2, <1>3, <2>1 DEF Shapes, FilesInv
<1>6. ASSUME p > Base(p), NEW i \in 0 .. S - 1, Base(p) + i < sz
      PROVE  buf'[i] = ref[Base(p) + i]
  <2>1. CASE pos % S = 0 \/ Block(p) # Block(pos)
    <3>1. p % S # 0
      BY <1>3, <1>4, <1>6
    <3>2. buf' = Sector(dev', Block(p))
      BY <1>1, <2>1, <3>1
    <3>3. buf'[i] = dev'[Base(p) + i]
      BY ONLY <3>2, <1>6, Sectors
    <3>4. Base(p) + i \in At
      BY <1>3, <1>4, <1>6 DEF At
    <3> QED
      BY <3>3, <3>4, <1>2, <1>6
  <2>2. CASE ~(pos % S = 0 \/ Block(p) # Block(pos))
    <3>1. Base(p) = Base(pos) /\ pos > Base(pos) /\ buf' = buf
      <4>1. Base(p) = Base(pos)
        BY <2>2 DEF Base
      <4>2. pos > Base(pos)
        <5>1. Base(pos) <= pos
          BY <1>3, Blocks
        <5> QED
          BY <5>1, <2>2, <1>3, <1>4
      <4> QED
        BY <4>1, <4>2, <2>2, <1>1
    <3>2. \A j \in 0 .. S - 1 : Base(pos) + j < sz => buf[j] = ref[Base(pos) + j]
      BY <3>1, <1>1 DEF FilesInv, ExtOverlay
    <3> QED
      BY <3>1, <3>2, <1>6
  <2> QED
    BY <2>1, <2>2
<1>7. ExtOverlay'
  BY <1>1, <1>2, <1>6 DEF ExtOverlay
<1>8. BlockOverlay' /\ MemoryOverlay' /\ Delivered' /\ Written'
  BY <1>1, <1>2 DEF BlockOverlay, MemoryOverlay, Delivered, Written, FilesInv
<1> QED
  BY <1>5, <1>7, <1>8 DEF FilesInv

\* What a careful write to an ext2 file of n bytes at its end comes to.
LEMMA ExtWriteCases ==
    ASSUME FilesInv, Careful = TRUE, NEW n \in Lens, NEW v, ExtWrite(n, v),
           NEW end \in Nat, end = pos + n
    PROVE  /\ pos = sz /\ sz' = end
           /\ \/ /\ pos = Base(pos) /\ Base(end) >= pos /\ Base(end) < end
                 /\ dev' = Fill(dev, pos, Base(end) - pos, v)
                 /\ buf' = Fill(buf, 0, end - Base(end), v)
              \/ /\ pos > Base(pos) /\ end < Base(pos) + S
                 /\ dev' = Fill(dev, end, 0, v)
                 /\ buf' = Fill(Fill(buf, pos - Base(pos), n, v), 0, 0, v)
<1> DEFINE bp == pos % S
           w == IF bp = 0 THEN 0 ELSE Min({S - bp, n})
           b1 == IF w = 0 THEN buf ELSE Fill(buf, bp, w, v)
           p1 == pos + w
           d1 == IF w # 0 /\ p1 % S = 0 THEN PutSector(dev, Block(p1), b1, S) ELSE dev
           whole == IF n = w THEN 0 ELSE (n - w - 1) \div S
           d2 == Fill(d1, p1, whole * S, v)
           rest == n - w - whole * S
<1>1. /\ kind = "ext2" /\ rpos = sz /\ IF bp = 0 THEN n % S # 0 ELSE bp + n < S
      /\ dev' = d2 /\ buf' = Fill(b1, 0, rest, v) /\ sz' = Max({sz, pos + n})
  BY DEF ExtWrite, CarefulWrite
<1>2. /\ n \in Nat /\ n > 0 /\ pos \in Nat /\ S \in Nat /\ S > 0 /\ pos = sz
      /\ Base(pos) \in Nat /\ Base(pos) <= pos /\ pos < Base(pos) + S /\ bp = pos - Base(pos) /\ bp \in Nat
  <2>1. n \in Nat /\ n > 0 /\ pos \in Nat /\ pos = sz
    BY <1>1, FilesAssumption DEF FilesInv, Shapes
  <2> QED
    BY <2>1, Blocks
<1>3. sz' = end
  BY <1>1, <1>2, MaxOfTwo
<1>4. CASE bp = 0
  <2>1. w = 0 /\ b1 = buf /\ p1 = pos /\ d1 = dev /\ whole = (n - 1) \div S
    BY <1>2, <1>4
  <2>2. PICK q \in Nat, r \in 0 .. S - 1 : n = S * q + r /\ r > 0
    <3>1. Block(n) \in Nat /\ n % S \in 0 .. S - 1 /\ n = S * Block(n) + (n % S)
      BY <1>2, DivMod
    <3>2. n % S > 0
      BY <3>1, <1>1, <1>2, <1>4
    <3> QED
      BY <3>1, <3>2
  <2>3. whole = q
    <3>1. n - 1 = S * q + (r - 1) /\ r - 1 \in 0 .. S - 1
      BY <2>2, <1>2
    <3>2. Block(S * q + (r - 1)) = q
      BY <3>1, SameBlock
    <3> QED
      BY <2>1, <3>1, <3>2 DEF Block
  <2>4. Base(end) = pos + q * S
    <3>1. Block(pos) \in Nat /\ pos = S * Block(pos)
      <4>1. Block(pos) \in Nat /\ pos = S * Block(pos) + (pos % S)
        BY <1>2, DivMod
      <4> QED
        BY <4>1, <1>2, <1>4
    <3>2. end = S * (Block(pos) + q) + r
      <4>1. S * (Block(pos) + q) = S * Block(pos) + S * q
        BY <3>1, <2>2, <1>2
      <4>2. S * q \in Nat /\ S * Block(pos) \in Nat
        BY <3>1, <2>2, <1>2
      <4> QED
        BY <4>1, <4>2, <3>1, <2>2
    <3>3. Block(S * (Block(pos) + q) + r) = Block(pos) + q
      BY <3>1, <2>2, SameBlock
    <3>4. Base(end) = (Block(pos) + q) * S
      BY <3>2, <3>3 DEF Base
    <3>5. (Block(pos) + q) * S = S * Block(pos) + q * S
      BY <3>1, <2>2, <1>2
    <3> QED
      BY <3>1, <3>4, <3>5
  <2>5. rest = n - q * S /\ d2 = Fill(dev, pos, q * S, v)
    BY <2>1, <2>3, <1>2
  <2>6. q * S \in Nat /\ n = q * S + r
    BY <2>2, <1>2
  <2>7. /\ Base(end) - pos = q * S /\ end - Base(end) = n - q * S
        /\ Base(end) >= pos /\ Base(end) < end /\ pos = Base(pos)
    BY <2>4, <2>6, <2>2, <1>2, <1>4
  <2>8. /\ dev' = Fill(dev, pos, Base(end) - pos, v)
        /\ buf' = Fill(buf, 0, end - Base(end), v)
    BY <2>1, <2>5, <2>7, <1>1
  <2> QED
    BY <2>7, <2>8, <1>2, <1>3
<1>5. CASE bp # 0
  <2>1. bp + n < S
    BY <1>1, <1>5
  <2>2. w = n
    BY <2>1, <1>2, <1>5, MinOfTwo
  <2>3. p1 = end /\ b1 = Fill(buf, bp, n, v) /\ whole = 0
    BY <2>2, <1>2
  <2>4. InBlock(end, pos)
    BY <2>1, <1>2 DEF InBlock
  <2>5. (end) % S # 0
    <3>1. InBlock(end, pos) /\ pos \in Nat /\ end \in Nat
      BY <2>4, <1>2
    <3>2. end % S = end - Base(pos)
      BY ONLY <3>1, BlockMates
    <3>3. end - Base(pos) > 0
      BY <1>2, <1>5
    <3> QED
      BY ONLY <3>2, <3>3
  <2>6. d1 = dev
    BY <2>3, <2>5
  <2>7. rest = 0 /\ d2 = Fill(dev, end, 0, v)
    <3>1. whole * S = 0
      BY <2>3, <1>2
    <3> QED
      BY <3>1, <2>2, <2>3, <2>6, <1>2
  <2>8. dev' = Fill(dev, end, 0, v) /\ buf' = Fill(Fill(buf, pos - Base(pos), n, v), 0, 0, v)
    BY <2>3, <2>7, <1>1, <1>2
  <2> QED
    BY <2>1, <2>8, <1>2, <1>3, <1>5
<1> QED
  BY <1>4, <1>5

LEMMA ExtWriteSound ==
    ASSUME FilesInv, Careful = TRUE, NEW n \in Lens, NEW v, ExtWrite(n, v)
    PROVE  FilesInv'
<1>1. /\ kind = "ext2" /\ kind' = kind /\ got' = got /\ want' = want /\ last' = "write" /\ cur' = cur
      /\ pos' = pos + n /\ rpos' = rpos + n /\ ref' = Fill(ref, rpos, n, v) /\ rpos + n <= Size
  BY DEF ExtWrite, Wrote
<1>2. /\ n \in Nat /\ n > 0 /\ pos \in Nat /\ sz \in Nat /\ Size \in Nat /\ S \in Nat /\ S > 0 /\ rpos = pos
      /\ DOMAIN dev = At /\ DOMAIN ref = At /\ DOMAIN buf = 0 .. S - 1
  BY FilesAssumption DEF FilesInv, Shapes
<1>3. pos = sz /\ sz' = pos + n
  <2>1. pos + n \in Nat
    BY <1>2
  <2> QED
    BY <2>1, ExtWriteCases
<1>4. /\ Base(pos) \in Nat /\ Base(pos) <= pos /\ pos < Base(pos) + S
  BY <1>2, Blocks
<1> DEFINE end == pos + n
<1>5. end \in Nat /\ end = pos + n
  BY <1>2
<1> HIDE DEF end
<1>6. end \in Nat /\ Base(end) \in Nat /\ Base(end) <= end /\ end < Base(end) + S
  BY <1>5, Blocks
<1>7. \A a \in At : ref'[a] = IF a \in pos .. pos + n - 1 THEN v ELSE ref[a]
  BY <1>1, <1>2, Filling
<1>8. \A a \in At : a \in Nat /\ a < Size
  BY <1>2 DEF At
<1>9. DOMAIN ref' = At
  BY <1>1, <1>2, Filling
<1>10. \A a \in At : a < sz => (~InBlock(a, pos) \/ a >= pos => dev[a] = ref[a])
  BY <1>1 DEF FilesInv, ExtOverlay
<1>11. DOMAIN dev' = At /\ DOMAIN buf' = 0 .. S - 1 /\ ExtOverlay'
  <2>1. CASE /\ pos = Base(pos) /\ Base(end) >= pos /\ Base(end) < end
             /\ dev' = Fill(dev, pos, Base(end) - pos, v)
             /\ buf' = Fill(buf, 0, end - Base(end), v)
    <3>1. DOMAIN dev' = At /\ DOMAIN buf' = 0 .. S - 1
      BY <2>1, <1>2, Filling
    <3>2. ASSUME NEW a \in At, a < end, ~InBlock(a, end) \/ a >= end
          PROVE  dev'[a] = ref'[a]
      <4>1. a < Base(end)
        BY <3>2, <1>2, <1>6, <1>8 DEF InBlock
      <4>2. dev'[a] = IF a \in pos .. pos + (Base(end) - pos) - 1 THEN v ELSE dev[a]
        BY <2>1, <1>2, Filling
      <4>3. CASE a >= pos
        BY <4>1, <4>2, <4>3, <1>2, <1>5, <1>6, <1>7, <1>8
      <4>4. CASE a < pos
        <5>1. dev[a] = ref[a]
          BY <4>4, <2>1, <1>3, <1>10, <1>2, <1>8 DEF InBlock
        <5> QED
          BY <5>1, <4>2, <4>4, <1>2, <1>7, <1>8
      <4> QED
        BY <4>3, <4>4, <1>2, <1>8
    <3>3. ASSUME NEW i \in 0 .. S - 1, Base(end) + i < end
          PROVE  buf'[i] = ref'[Base(end) + i]
      <4>1. buf'[i] = IF i \in 0 .. 0 + (end - Base(end)) - 1 THEN v ELSE buf[i]
        BY <2>1, <1>2, Filling
      <4>2. i \in 0 .. 0 + (end - Base(end)) - 1
        BY <3>3, <1>2, <1>6
      <4>3. Base(end) + i \in At /\ Base(end) + i \in pos .. pos + n - 1
        <5>1. i \in Nat /\ end <= Size /\ pos <= Base(end)
          BY <2>1, <1>1, <1>2, <1>5
        <5>2. Base(end) + i \in pos .. pos + n - 1
          BY ONLY <5>1, <3>3, <1>2, <1>5, <1>6
        <5>3. Base(end) + i \in 0 .. Size - 1
          BY ONLY <5>1, <3>3, <1>2, <1>6
        <5> QED
          BY <5>2, <5>3 DEF At
      <4> QED
        BY <4>1, <4>2, <4>3, <1>7
    <3>4. sz' = end /\ pos' = end
      BY <1>1, <1>3, <1>5
    <3> QED
      BY <3>1, <3>2, <3>3, <3>4, <1>1 DEF ExtOverlay
  <2>2. CASE /\ pos > Base(pos) /\ end < Base(pos) + S
             /\ dev' = Fill(dev, end, 0, v)
             /\ buf' = Fill(Fill(buf, pos - Base(pos), n, v), 0, 0, v)
    <3>1. DOMAIN dev' = At /\ DOMAIN buf' = 0 .. S - 1 /\ DOMAIN Fill(buf, pos - Base(pos), n, v) = 0 .. S - 1
      BY <2>2, <1>2, Filling
    <3>2. Base(end) = Base(pos)
      <4>1. InBlock(end, pos)
        BY <2>2, <1>2, <1>4, <1>5 DEF InBlock
      <4> QED
        BY ONLY <4>1, <1>2, <1>6, BlockMates
    <3>3. ASSUME NEW a \in At, a < end, ~InBlock(a, end) \/ a >= end
          PROVE  dev'[a] = ref'[a]
      <4>1. a < Base(pos) /\ ~InBlock(a, pos)
        BY <3>2, <3>3, <1>2, <1>4, <1>6, <1>8 DEF InBlock
      <4>2. dev'[a] = IF a \in end .. end + 0 - 1 THEN v ELSE dev[a]
        BY <2>2, <1>2, Filling
      <4>3. dev[a] = ref[a]
        BY <4>1, <1>2, <1>3, <1>4, <1>8, <1>10
      <4>4. a \notin end .. end + 0 - 1 /\ a \notin pos .. pos + n - 1
        BY <4>1, <1>2, <1>4, <1>5, <1>8
      <4> QED
        BY <4>2, <4>3, <4>4, <1>7
    <3>4. ASSUME NEW i \in 0 .. S - 1, Base(end) + i < end
          PROVE  buf'[i] = ref'[Base(end) + i]
      <4>1. Fill(buf, pos - Base(pos), n, v)[i] =
              IF i \in pos - Base(pos) .. (pos - Base(pos)) + n - 1 THEN v ELSE buf[i]
        BY <1>2, Filling
      <4>2. buf'[i] = Fill(buf, pos - Base(pos), n, v)[i]
        <5>1. i \notin 0 .. 0 + 0 - 1
          BY <3>4
        <5>2. buf'[i] = IF i \in 0 .. 0 + 0 - 1 THEN v ELSE Fill(buf, pos - Base(pos), n, v)[i]
          <6>1. i \in DOMAIN Fill(buf, pos - Base(pos), n, v)
            BY <3>1
          <6> QED
            BY ONLY <2>2, <6>1, Filling
        <5> QED
          BY <5>1, <5>2
      <4>3. Base(end) + i \in At /\ Base(end) + i \in Nat
        BY <3>4, <1>1, <1>2, <1>5, <1>6 DEF At
      <4>4. CASE Base(end) + i >= pos
        <5>1. i \in pos - Base(pos) .. (pos - Base(pos)) + n - 1 /\ Base(end) + i \in pos .. pos + n - 1
          BY <4>4, <3>2, <3>4, <1>2, <1>4, <1>5, <4>3
        <5> QED
          BY <5>1, <4>1, <4>2, <4>3, <1>7
      <4>5. CASE Base(end) + i < pos
        <5>1. i \notin pos - Base(pos) .. (pos - Base(pos)) + n - 1 /\ Base(end) + i \notin pos .. pos + n - 1
          BY <4>5, <3>2, <3>4, <1>2, <1>4, <1>5, <4>3
        <5>2. buf[i] = ref[Base(pos) + i]
          <6>1. \A j \in 0 .. S - 1 : Base(pos) + j < sz => buf[j] = ref[Base(pos) + j]
            BY <2>2, <1>1 DEF FilesInv, ExtOverlay
          <6>2. Base(pos) + i < sz
            BY <4>5, <3>2, <1>3
          <6> QED
            BY <6>1, <6>2
        <5> QED
          BY <5>1, <5>2, <4>1, <4>2, <4>3, <3>2, <1>7
      <4> QED
        BY <4>3, <4>4, <4>5, <1>2
    <3>5. sz' = end /\ pos' = end
      BY <1>1, <1>3, <1>5
    <3> QED
      BY <3>1, <3>3, <3>4, <3>5, <1>1 DEF ExtOverlay
  <2> QED
    <3>1. \/ /\ pos = Base(pos) /\ Base(end) >= pos /\ Base(end) < end
             /\ dev' = Fill(dev, pos, Base(end) - pos, v)
             /\ buf' = Fill(buf, 0, end - Base(end), v)
          \/ /\ pos > Base(pos) /\ end < Base(pos) + S
             /\ dev' = Fill(dev, end, 0, v)
             /\ buf' = Fill(Fill(buf, pos - Base(pos), n, v), 0, 0, v)
      BY <1>5, ExtWriteCases
    <3> QED
      BY <2>1, <2>2, <3>1
<1>12. Shapes'
  <2>1. pos' \in Nat /\ sz' \in Nat /\ pos' <= sz' /\ sz' <= Size /\ rpos' = pos' /\ kind' # "block"
    BY <1>1, <1>2, <1>3
  <2>2. cur' \in BOOLEAN /\ kind' \in {"block", "ext2", "memory"}
    BY <1>1, Zenon DEF FilesInv, Shapes
  <2> QED
    BY <2>1, <2>2, <1>9, <1>11 DEF Shapes
<1>13. BlockOverlay' /\ MemoryOverlay' /\ Delivered' /\ Written'
  BY <1>1 DEF BlockOverlay, MemoryOverlay, Delivered, Written, FilesInv
<1> QED
  BY <1>11, <1>12, <1>13 DEF FilesInv

LEMMA ExtReadSound ==
    ASSUME FilesInv, Careful = TRUE, NEW n \in Lens, ExtRead(n)
    PROVE  FilesInv'
<1> DEFINE bp == pos % S
           r == IF bp = 0 THEN 0 ELSE Min({S - bp, n, sz})
           p1 == pos + r
           tail == Min({n - r, sz - p1})
           end == p1 + tail
           lastBlock == Block(end - 1)
<1>1. /\ kind = "ext2" /\ kind' = kind /\ last # "write" /\ rpos + n <= sz
      /\ dev' = ExtFlushed /\ pos' = end /\ rpos' = rpos + n /\ last' = "read"
      /\ ref' = ref /\ sz' = sz /\ cur' = cur /\ want' = Slice(ref, rpos, n)
      /\ got' = [i \in 0 .. n - 1 |-> IF i < r THEN buf[bp + i] ELSE ExtFlushed[pos + i]]
      /\ buf' = IF tail > 0 THEN [i \in 0 .. S - 1 |->
                                    IF lastBlock * S + i < sz THEN ExtFlushed[lastBlock * S + i]
                                    ELSE buf[i]]
                ELSE buf
  BY DEF ExtRead, Seen, CarefulRead, ExtFlushed
<1>2. /\ n \in Nat /\ n > 0 /\ pos \in Nat /\ sz \in Nat /\ Size \in Nat /\ sz <= Size /\ S \in Nat /\ S > 0
      /\ rpos = pos /\ DOMAIN buf = 0 .. S - 1
  BY FilesAssumption DEF FilesInv, Shapes
<1>3. /\ Base(pos) \in Nat /\ Base(pos) <= pos /\ pos < Base(pos) + S
      /\ bp = pos - Base(pos) /\ bp \in Nat
  BY <1>2, Blocks
<1>4. r = IF bp = 0 THEN 0 ELSE IF S - bp <= n THEN S - bp ELSE n
  <2>1. n <= sz /\ S - bp \in Int /\ n \in Int /\ sz \in Int
    BY <1>1, <1>2, <1>3
  <2> HIDE DEF bp
  <2> QED
    BY <2>1, MinOfThree
<1>5. r \in Nat /\ r <= n /\ (r > 0 => bp > 0 /\ r <= S - bp) /\ (bp > 0 /\ r < n => r = S - bp)
  <2> HIDE DEF bp, r
  <2> QED
    BY <1>2, <1>3, <1>4
<1> HIDE DEF bp, r
<1>6. tail = n - r /\ end = pos + n
  <2>1. n - r \in Int /\ sz - p1 \in Int /\ n - r <= sz - p1
    BY <1>1, <1>2, <1>5
  <2>2. tail = n - r
    BY <2>1, MinOfTwo
  <2> HIDE DEF tail
  <2> QED
    BY <2>2, <1>2, <1>5
<1>7. end \in Nat /\ end <= sz /\ end > 0
  <2> HIDE DEF end
  <2> QED
    BY <1>1, <1>2, <1>6
<1> HIDE DEF tail, end
<1>8. DOMAIN dev' = At /\ \A a \in At : a < sz => dev'[a] = ref[a]
  BY <1>1, ExtFlushedAll
<1>9. bp > 0 => \A i \in 0 .. S - 1 : Base(pos) + i < sz => buf[i] = ref[Base(pos) + i]
  <2>1. bp > 0 => pos > Base(pos)
    BY <1>2, <1>3
  <2> QED
    BY <2>1, <1>1 DEF FilesInv, ExtOverlay
<1>10. Delivered'
  <2>1. ASSUME NEW i \in 0 .. n - 1
        PROVE  (IF i < r THEN buf[bp + i] ELSE ExtFlushed[pos + i]) = ref[pos + i]
    <3>1. pos + i \in At /\ pos + i < sz
      BY <1>1, <1>2 DEF At
    <3>2. CASE i < r
      <4>1. bp > 0 /\ bp + i \in 0 .. S - 1 /\ Base(pos) + (bp + i) = pos + i
        BY <3>2, <1>2, <1>3, <1>5
      <4> QED
        BY <4>1, <3>1, <3>2, <1>9
    <3>3. CASE ~(i < r)
      BY <3>1, <3>3, <1>1, <1>8
    <3> QED
      BY <3>2, <3>3
  <2>2. want' = [i \in 0 .. n - 1 |-> ref[pos + i]]
    BY <1>1, <1>2 DEF Slice
  <2> QED
    BY <2>1, <2>2, <1>1 DEF Delivered
<1>11. /\ Base(end) \in Nat /\ Base(end) <= end /\ end < Base(end) + S
  BY <1>2, <1>7, Blocks
<1>12. ASSUME end > Base(end), NEW i \in 0 .. S - 1, Base(end) + i < sz
       PROVE  buf'[i] = ref[Base(end) + i]
  <2>1. Base(end) + i \in At
    BY <1>2, <1>11, <1>12 DEF At
  <2>2. CASE tail > 0
    <3>1. PICK e \in Nat : e = end - 1
      BY <1>7
    <3>2. InBlock(e, end)
      BY <3>1, <1>2, <1>7, <1>11, <1>12 DEF InBlock
    <3>3. Block(e) = Block(end)
      BY ONLY <3>2, <1>7, BlockMates
    <3>4. lastBlock * S = Base(end)
      BY <3>1, <3>3 DEF Base
    <3>5. buf'[i] = IF lastBlock * S + i < sz THEN ExtFlushed[lastBlock * S + i] ELSE buf[i]
      BY <2>2, <1>1
    <3>6. buf'[i] = ExtFlushed[Base(end) + i]
      BY <3>4, <3>5, <1>12
    <3> QED
      BY <3>6, <2>1, <1>1, <1>8, <1>12
  <2>3. CASE ~(tail > 0)
    <3>1. r = n /\ bp > 0 /\ n <= S - bp /\ buf' = buf
      BY <2>3, <1>1, <1>2, <1>5, <1>6
    <3>2. end >= pos /\ end <= Base(pos) + S
      BY <3>1, <1>2, <1>3, <1>6
    <3>3. Base(end) = Base(pos)
      <4>1. CASE InBlock(end, pos)
        BY ONLY <4>1, <1>2, <1>7, BlockMates
      <4>2. CASE ~InBlock(end, pos)
        <5>1. Base(end) >= Base(pos) + S
          BY ONLY <4>2, <3>2, <1>2, <1>7, BlockMates
        <5> QED
          BY <5>1, <3>2, <1>2, <1>3, <1>7, <1>11, <1>12
      <4> QED
        BY <4>1, <4>2
    <3> QED
      BY <3>1, <3>3, <1>9, <1>12
  <2> QED
    BY <2>2, <2>3
<1>13. ExtOverlay'
  BY <1>1, <1>8, <1>12 DEF ExtOverlay
<1>14. Shapes'
  <2>1. DOMAIN buf' = 0 .. S - 1
    BY <1>1, <1>2
  <2>2. pos' \in Nat /\ sz' \in Nat /\ pos' <= sz' /\ sz' <= Size /\ rpos' = pos' /\ kind' # "block"
    BY <1>1, <1>2, <1>6, <1>7
  <2>3. cur' \in BOOLEAN /\ kind' \in {"block", "ext2", "memory"} /\ DOMAIN ref' = At
    BY <1>1, Zenon DEF FilesInv, Shapes
  <2> QED
    BY <2>1, <2>2, <2>3, <1>8 DEF Shapes
<1>15. BlockOverlay' /\ MemoryOverlay' /\ Written'
  BY <1>1, <1>8 DEF BlockOverlay, MemoryOverlay, Written, FilesInv
<1> QED
  BY <1>10, <1>13, <1>14, <1>15 DEF FilesInv

\* MemoryFile keeps the contents where they are.
LEMMA MemorySound ==
    ASSUME FilesInv, Careful = TRUE,
           \/ \E n \in Lens, v \in Bytes : MemWrite(n, v)
           \/ \E n \in Lens : MemRead(n)
           \/ \E p \in 0 .. sz : MemSeek(p, p)
    PROVE  FilesInv'
<1>1. CASE \E n \in Lens, v \in Bytes : MemWrite(n, v)
  <2>1. PICK n \in Lens, v \in Bytes : MemWrite(n, v)
    BY <1>1
  <2>2. /\ kind = "memory" /\ kind' = kind /\ pos + n < sz /\ dev' = IF pos + n >= sz THEN dev ELSE Fill(dev, pos, n, v)
        /\ pos' = pos + n /\ rpos' = rpos + n /\ ref' = Fill(ref, rpos, n, v) /\ last' = "write"
        /\ buf' = buf /\ cur' = cur /\ sz' = sz /\ got' = got /\ want' = want
    BY <2>1 DEF MemWrite, Wrote
  <2>3. /\ n \in Nat /\ pos \in Nat /\ sz \in Nat /\ rpos = pos /\ dev = ref /\ DOMAIN ref = At
    BY <2>2, FilesAssumption DEF FilesInv, Shapes, MemoryOverlay
  <2>4. dev' = ref' /\ DOMAIN ref' = At
    BY <2>2, <2>3, Filling
  <2>5. Shapes'
    BY <2>2, <2>3, <2>4 DEF FilesInv, Shapes
  <2> QED
    BY <2>2, <2>4, <2>5 DEF FilesInv, BlockOverlay, ExtOverlay, MemoryOverlay, Delivered, Written
<1>2. CASE \E n \in Lens : MemRead(n)
  <2>1. PICK n \in Lens : MemRead(n)
    BY <1>2
  <2>2. /\ kind = "memory" /\ kind' = kind /\ rpos + n <= sz /\ pos' = pos + n /\ rpos' = rpos + n
        /\ got' = Slice(dev, pos, n) /\ want' = Slice(ref, rpos, n) /\ last' = "read"
        /\ ref' = ref /\ sz' = sz /\ dev' = dev /\ buf' = buf /\ cur' = cur
    BY <2>1 DEF MemRead, Seen
  <2>3. n \in Nat /\ pos \in Nat /\ sz \in Nat /\ rpos = pos /\ dev = ref
    BY <2>2, FilesAssumption DEF FilesInv, Shapes, MemoryOverlay
  <2>4. Shapes'
    BY <2>2, <2>3 DEF FilesInv, Shapes
  <2> QED
    BY <2>2, <2>3, <2>4 DEF FilesInv, BlockOverlay, ExtOverlay, MemoryOverlay, Delivered, Written
<1>3. CASE \E p \in 0 .. sz : MemSeek(p, p)
  <2>1. PICK p \in 0 .. sz : MemSeek(p, p)
    BY <1>3
  <2>2. /\ kind = "memory" /\ kind' = kind /\ pos' = p /\ rpos' = p /\ last' = "flush" /\ got' = got /\ want' = want
        /\ ref' = ref /\ sz' = sz /\ dev' = dev /\ buf' = buf /\ cur' = cur
    BY <2>1 DEF MemSeek, Moved
  <2>3. sz \in Nat /\ p \in Nat /\ p <= sz /\ dev = ref
    BY <2>2 DEF FilesInv, Shapes, MemoryOverlay
  <2>4. Shapes'
    BY <2>2, <2>3 DEF FilesInv, Shapes
  <2> QED
    BY <2>2, <2>3, <2>4 DEF FilesInv, BlockOverlay, ExtOverlay, MemoryOverlay, Delivered, Written
<1> QED
  BY <1>1, <1>2, <1>3

LEMMA FilesStep ==
    ASSUME Careful = TRUE, EndOffsets \subseteq {0}
    PROVE  FilesInv /\ [Next]_vars => FilesInv'
<1> SUFFICES ASSUME FilesInv, [Next]_vars PROVE FilesInv'
  OBVIOUS
<1>1. CASE UNCHANGED vars
  BY <1>1 DEF vars, FilesInv, Shapes, BlockOverlay, ExtOverlay, MemoryOverlay, Delivered, Written
<1>2. CASE Write
  <2>1. PICK n \in Lens, v \in Bytes : BlockWrite(n, v) \/ ExtWrite(n, v) \/ MemWrite(n, v)
    BY <1>2 DEF Write
  <2> QED
    BY <2>1, BlockWriteSound, ExtWriteSound, MemorySound
<1>3. CASE Read
  <2>1. PICK n \in Lens : BlockRead(n) \/ ExtRead(n) \/ MemRead(n)
    BY <1>3 DEF Read
  <2> QED
    BY <2>1, BlockReadSound, ExtReadSound, MemorySound
<1>4. ASSUME NEW p \in 0 .. sz, Seek(p, p) PROVE FilesInv'
  BY <1>4, BlockSeekSound, ExtSeekSound, MemorySound DEF Seek
<1>5. CASE SeekSet
  BY <1>4, <1>5 DEF SeekSet
<1>6. CASE SeekEnd
  <2>1. PICK o \in EndOffsets : Seek(EndPosition(o), sz + o)
    BY <1>6 DEF SeekEnd
  <2>2. o = 0 /\ sz \in Nat
    BY DEF FilesInv, Shapes
  <2>3. EndPosition(o) = sz /\ sz + o = sz /\ sz \in 0 .. sz
    BY <2>2 DEF EndPosition
  <2>4. Seek(sz, sz)
    BY <2>1, <2>3
  <2> QED
    BY <2>3, <2>4, <1>4
<1> QED
  BY <1>1, <1>2, <1>3, <1>5, <1>6, BlockFlushSound, ExtFlushSound DEF Next

LEMMA FilesInductive ==
    ASSUME Careful = TRUE, EndOffsets \subseteq {0}
    PROVE  Spec => []FilesInv
<1>1. Init => FilesInv
  BY FilesInit
<1>2. FilesInv /\ [Next]_vars => FilesInv'
  BY FilesStep
<1> QED
  BY <1>1, <1>2, PTL DEF Spec

\* Through any mixture of calls a read delivers the bytes last written at its
\* place (BlockFile, Ext2File and MemoryFile; any block size).
THEOREM ReadsDeliver ==
    ASSUME Careful = TRUE, EndOffsets \subseteq {0}
    PROVE  Spec => []ReadsMatch
<1>1. FilesInv => ReadsMatch
  BY DEF FilesInv, Delivered, ReadsMatch
<1> QED
  BY <1>1, FilesInductive, PTL

\* After a flush or a seek the medium holds all that was written.
THEOREM FlushWrites ==
    ASSUME Careful = TRUE, EndOffsets \subseteq {0}
    PROVE  Spec => []FlushedMatch
<1>1. FilesInv => FlushedMatch
  BY DEF FilesInv, Shapes, Written, FlushedMatch
<1> QED
  BY <1>1, FilesInductive, PTL

-----------------------------------------------------------------------------
(* Mounted file systems and tmpfs                                          *)

HandleShape(f) == f = [path |-> f.path, fs |-> f.fs, name |-> f.name, addr |-> f.addr]
Inodes == [addr : Nat, links : Nat]
\* The file system mounted nearest above a path.
NearestAbove(path, fs) ==
    \E m \in DOMAIN vMounts :
       /\ Below(m, path) /\ vMounts[m] = fs
       /\ \A o \in DOMAIN vMounts : Below(o, path) => Len(o) <= Len(m)
IsTmp(h) == vHandle[h] # Closed /\ vHandle[h].fs = "tmp"
NamesOK ==
    /\ DOMAIN vMounts \subseteq {VDev, VTmp, Slash}
    /\ DOMAIN vHandle = VHandles /\ \A h \in VHandles : HandleShape(vHandle[h])
    /\ \A h \in VHandles : vHandle[h] # Closed => NearestAbove(vHandle[h].path, vHandle[h].fs)
\* Two names never share an address, which for empty files takes the rule
\* NoOtherEmpty; a name whose inode is not freed has its memory.
FilesOK ==
    /\ vInode \in Seq(Inodes) /\ vCount \in Nat /\ vFreed \subseteq DOMAIN vInode
    /\ \A i \in DOMAIN vInode : vInode[i].addr <= vCount
    /\ \A n \in DOMAIN vFiles : vFiles[n] \in DOMAIN vInode
    /\ \A n, m \in DOMAIN vFiles : AddrOf(n) = AddrOf(m) => n = m
    /\ \A n \in DOMAIN vFiles : vFiles[n] \notin vFreed /\ AddrOf(n) # Null => AddrOf(n) \in vLive
\* An open file is there under its name, with the address of its handle.
HandleOK(h) ==
    IsTmp(h) => /\ vHandle[h].name \in DOMAIN vFiles /\ AddrOf(vHandle[h].name) = vHandle[h].addr
                /\ vFiles[vHandle[h].name] \notin vFreed
VfsInv ==
    /\ NamesOK /\ FilesOK
    /\ \A h \in VHandles : HandleOK(h)
    /\ \A h, g \in VHandles : IsTmp(h) /\ IsTmp(g) /\ h # g => vHandle[h].name # vHandle[g].name

LEMMA VfsSound == ASSUME VfsInv PROVE HandlesSound
<1> SUFFICES ASSUME NEW h \in VHandles, IsOpenHandle(h)
             PROVE  LET f == vHandle[h]
                        above == {m \in DOMAIN vMounts : Below(m, f.path)}
                    IN /\ f.fs = "tmp" => /\ f.name \in DOMAIN vFiles
                                          /\ AddrOf(f.name) = f.addr
                                          /\ f.addr # Null => f.addr \in vLive /\ WithAddr(f.addr) = {f.name}
                       /\ \E m \in above : vMounts[m] = f.fs /\ \A o \in above : Len(o) <= Len(m)
  BY DEF HandlesSound
<1> DEFINE f == vHandle[h]
<1>1. f # Closed
  BY DEF IsOpenHandle
<1>2. NearestAbove(f.path, f.fs)
  BY <1>1 DEF VfsInv, NamesOK
<1>3. ASSUME f.fs = "tmp"
      PROVE  /\ f.name \in DOMAIN vFiles /\ AddrOf(f.name) = f.addr
             /\ f.addr # Null => f.addr \in vLive /\ WithAddr(f.addr) = {f.name}
  <2>1. f.name \in DOMAIN vFiles /\ AddrOf(f.name) = f.addr /\ vFiles[f.name] \notin vFreed
    BY <1>1, <1>3 DEF VfsInv, HandleOK, IsTmp
  <2>2. WithAddr(f.addr) = {f.name}
    BY <2>1 DEF VfsInv, FilesOK, WithAddr
  <2> QED BY <2>1, <2>2 DEF VfsInv, FilesOK
<1> HIDE DEF f
<1>4. \E m \in {n \in DOMAIN vMounts : Below(n, f.path)} :
        vMounts[m] = f.fs /\ \A o \in {n \in DOMAIN vMounts : Below(n, f.path)} : Len(o) <= Len(m)
  BY <1>2 DEF NearestAbove
<1> QED
  BY <1>3, <1>4 DEF f

LEMMA VfsStarts == VfsInit => VfsInv
<1> SUFFICES ASSUME VfsInit PROVE VfsInv
  OBVIOUS
<1>1. NamesOK
  <2>1. \A h \in VHandles : vHandle[h] = Closed
    BY DEF VfsInit
  <2>2. DOMAIN vHandle = VHandles /\ DOMAIN vMounts = {VDev, VTmp}
    BY DEF VfsInit
  <2>3. HandleShape(Closed)
    BY DEF HandleShape, Closed
  <2> QED BY <2>1, <2>2, <2>3 DEF NamesOK
<1>2. FilesOK
  <2>1. vInode = <<>> /\ vFiles = <<>> /\ vCount = 0 /\ vFreed = {}
    BY DEF VfsInit
  <2>2. vInode \in Seq(Inodes) /\ DOMAIN vInode = {} /\ DOMAIN vFiles = {}
    BY <2>1
  <2> QED BY <2>1, <2>2 DEF FilesOK
<1>3. \A h \in VHandles : ~IsTmp(h)
  BY DEF VfsInit, IsTmp
<1> QED
  BY <1>1, <1>2, <1>3 DEF VfsInv, HandleOK

\* What look-up finds is the file system mounted nearest above.
LEMMA LookedUp ==
    ASSUME VCareful = TRUE, NamesOK, NEW q, VfsRules(q)
    PROVE  NearestAbove(q, LookupFs(q))
<1> DEFINE longest(m) == Starts(q, m) /\ \A o \in DOMAIN vMounts : Starts(q, o) => Len(o) <= Len(m)
<1>1. LookupFs(q) # "none" /\ \A m \in DOMAIN vMounts : Starts(q, m) => Below(m, q)
  BY DEF VfsRules
<1>2. HasMatch(q) /\ LookupFs(q) = vMounts[BestMatch(q)]
  BY <1>1 DEF LookupFs
<1>3. Len(VDev) = 2 /\ Len(VTmp) = 2 /\ Len(Slash) = 1
  BY DEF VDev, VTmp, Slash
<1>4. \E m \in DOMAIN vMounts : longest(m)
  <2>1. PICK m \in DOMAIN vMounts : Starts(q, m)
    BY <1>2 DEF HasMatch
  <2>2. \A o \in DOMAIN vMounts : Len(o) = 2 \/ Len(o) = 1
    BY <1>3 DEF NamesOK
  <2>3. CASE \E o \in DOMAIN vMounts : Starts(q, o) /\ Len(o) = 2
    BY <2>2, <2>3
  <2>4. CASE ~\E o \in DOMAIN vMounts : Starts(q, o) /\ Len(o) = 2
    BY <2>1, <2>2, <2>4
  <2> QED BY <2>3, <2>4
<1>5. BestMatch(q) = CHOOSE m \in DOMAIN vMounts : longest(m)
  BY DEF BestMatch
<1> HIDE DEF longest
<1>6. BestMatch(q) \in DOMAIN vMounts /\ longest(BestMatch(q))
  BY <1>4, <1>5
<1>7. Starts(q, BestMatch(q)) /\ \A o \in DOMAIN vMounts : Starts(q, o) => Len(o) <= Len(BestMatch(q))
  BY <1>6 DEF longest
<1> QED
  BY <1>1, <1>2, <1>6, <1>7 DEF NearestAbove, Below

LEMMA OpenedNames ==
    ASSUME VCareful = TRUE, NamesOK, NEW h \in VHandles, NEW q, NEW a, VfsRules(q), Opened(h, q, a), UNCHANGED vMounts
    PROVE  /\ NamesOK'
           /\ vHandle'[h] = [path |-> q, fs |-> LookupFs(q), name |-> LookupName(q), addr |-> a]
           /\ \A g \in VHandles \ {h} : vHandle'[g] = vHandle[g]
<1>1. /\ vHandle'[h] = [path |-> q, fs |-> LookupFs(q), name |-> LookupName(q), addr |-> a]
      /\ \A g \in VHandles \ {h} : vHandle'[g] = vHandle[g]
      /\ DOMAIN vHandle' = VHandles
  BY DEF Opened, NamesOK
<1>2. NearestAbove(q, LookupFs(q))
  BY LookedUp
<1>3. \A g \in VHandles : HandleShape(vHandle'[g])
  BY <1>1 DEF NamesOK, HandleShape
<1>4. ASSUME NEW g \in VHandles, vHandle'[g] # Closed
      PROVE  NearestAbove(vHandle[g].path, vHandle[g].fs)'
  <2>1. CASE g = h
    BY <2>1, <1>1, <1>2 DEF NearestAbove
  <2>2. CASE g # h
    <3>1. vHandle'[g] = vHandle[g]
      BY <2>2, <1>1
    <3>2. NearestAbove(vHandle[g].path, vHandle[g].fs)
      BY <3>1, <1>4 DEF NamesOK
    <3> QED BY <3>1, <3>2 DEF NearestAbove
  <2> QED BY <2>1, <2>2
<1> QED
  BY <1>1, <1>3, <1>4 DEF NamesOK

\* Opening: the files are well, the other handles keep theirs, and the new one,
\* if it is of tmpfs, has its own file.
LEMMA OpenedOne ==
    ASSUME VfsInv, NEW h \in VHandles, NamesOK', FilesOK',
           \A g \in VHandles \ {h} : vHandle'[g] = vHandle[g],
           \A g \in VHandles \ {h} : HandleOK(g)', HandleOK(h)',
           IsTmp(h)' => \A g \in VHandles \ {h} : IsTmp(g) => vHandle[g].name # vHandle'[h].name
    PROVE  VfsInv'
<1>1. \A g \in VHandles \ {h} : IsTmp(g)' = IsTmp(g)
  BY DEF IsTmp
<1>2. \A g, k \in VHandles : (IsTmp(g) /\ IsTmp(k))' /\ g # k => vHandle'[g].name # vHandle'[k].name
  BY <1>1 DEF VfsInv
<1> QED
  BY <1>2 DEF VfsInv

\* A handle whose file nothing has touched.
LEMMA Untouched ==
    ASSUME NEW g, HandleOK(g), vHandle'[g] = vHandle[g],
           IsTmp(g) => /\ vHandle[g].name \in DOMAIN vFiles'
                       /\ vFiles'[vHandle[g].name] = vFiles[vHandle[g].name]
                       /\ vInode'[vFiles[vHandle[g].name]].addr = vInode[vFiles[vHandle[g].name]].addr
                       /\ vFiles[vHandle[g].name] \notin vFreed'
    PROVE  HandleOK(g)'
  BY DEF HandleOK, IsTmp, AddrOf

LEMMA Outside ==
    ASSUME VCareful = TRUE, VfsInv, NEW h \in VHandles, NEW q, VfsRules(q), UNCHANGED vMounts, 
           FopenDev(h, q) \/ FopenRoot(h, q)
    PROVE  VfsInv'
<1>1. /\ LookupFs(q) # "tmp" /\ Opened(h, q, Null)
      /\ UNCHANGED <<vFiles, vInode, vFreed, vLive, vCount>>
  BY DEF FopenDev, FopenRoot
<1>2. /\ NamesOK'
      /\ vHandle'[h] = [path |-> q, fs |-> LookupFs(q), name |-> LookupName(q), addr |-> Null]
      /\ \A g \in VHandles \ {h} : vHandle'[g] = vHandle[g]
  BY <1>1, OpenedNames DEF VfsInv
<1>3. ~IsTmp(h)'
  BY <1>1, <1>2 DEF IsTmp
<1>4. FilesOK'
  BY <1>1 DEF VfsInv, FilesOK, AddrOf
<1>5. \A g \in VHandles \ {h} : HandleOK(g)'
  BY <1>1, <1>2 DEF VfsInv, HandleOK, IsTmp, AddrOf
<1> QED
  BY <1>2, <1>3, <1>4, <1>5, OpenedOne DEF HandleOK

\* One file moves to an address that is new or, if no other is empty, null.
LEMMA Reallocated ==
    ASSUME VfsInv, NEW name \in DOMAIN vFiles, NEW new,
           vInode' = [vInode EXCEPT ![vFiles[name]].addr = new],
           vLive' = (vLive \ {AddrOf(name)}) \cup ({new} \ {Null}),
           vCount' \in Nat,
           \/ new = vCount + 1 /\ vCount' = vCount + 1
           \/ new = Null /\ vCount' = vCount /\ WithAddr(Null) \subseteq {name},
           UNCHANGED <<vFiles, vFreed>>
    PROVE  /\ FilesOK' /\ AddrOf(name)' = new
           /\ \A n \in DOMAIN vFiles \ {name} : vInode'[vFiles[n]] = vInode[vFiles[n]]
<1> DEFINE i == vFiles[name]
<1>1. /\ i \in DOMAIN vInode /\ vInode \in Seq(Inodes) /\ vCount \in Nat
      /\ \A n \in DOMAIN vFiles : vFiles[n] \in DOMAIN vInode
      /\ \A n, m \in DOMAIN vFiles : vInode[vFiles[n]].addr = vInode[vFiles[m]].addr => n = m
      /\ \A j \in DOMAIN vInode : vInode[j].addr <= vCount
      /\ vFreed \subseteq DOMAIN vInode
      /\ \A n \in DOMAIN vFiles : vFiles[n] \notin vFreed /\ AddrOf(n) # Null => AddrOf(n) \in vLive
  BY DEF VfsInv, FilesOK, AddrOf
<1>2. new \in Nat /\ new <= vCount' /\ vCount <= vCount'
  BY <1>1 DEF Null
<1>3. /\ DOMAIN vInode' = DOMAIN vInode /\ vInode'[i].addr = new /\ vInode'[i] \in Inodes
      /\ \A j \in DOMAIN vInode \ {i} : vInode'[j] = vInode[j]
      /\ \A j \in DOMAIN vInode : vInode[j] \in Inodes
  <2>1. \A j \in DOMAIN vInode : vInode[j] \in Inodes
    BY <1>1
  <2>2. PICK x \in Nat, y \in Nat : vInode[i] = [addr |-> x, links |-> y]
    BY <1>1, <2>1 DEF Inodes
  <2>3. vInode'[i] = [addr |-> new, links |-> y]
    BY <2>2, <1>1
  <2>4. /\ DOMAIN vInode' = DOMAIN vInode
        /\ \A j \in DOMAIN vInode \ {i} : vInode'[j] = vInode[j]
    OBVIOUS
  <2>5. [addr |-> new, links |-> y] \in Inodes
    BY <1>2 DEF Inodes
  <2>6. vInode'[i].addr = new
    BY <2>3
  <2> QED BY <2>1, <2>3, <2>4, <2>5, <2>6
<1>4. vInode' \in Seq(Inodes)
  BY <1>1, <1>3
<1>5. \A n \in DOMAIN vFiles \ {name} : vFiles[n] # i
  BY <1>1
<1>6. AddrOf(name)' = new /\ \A n \in DOMAIN vFiles \ {name} : AddrOf(n)' = AddrOf(n)
  BY <1>1, <1>3, <1>5 DEF AddrOf
<1>7. \A n \in DOMAIN vFiles \ {name} : AddrOf(n) # new
  <2> SUFFICES ASSUME NEW n \in DOMAIN vFiles \ {name}, AddrOf(n) = new PROVE FALSE
    OBVIOUS
  <2>1. AddrOf(n) <= vCount /\ AddrOf(n) \in Nat
    BY <1>1, <1>3 DEF AddrOf, Inodes
  <2>2. new # vCount + 1
    BY <2>1, <1>1
  <2>3. n \in WithAddr(Null)
    BY <2>2 DEF WithAddr
  <2> QED BY <2>2, <2>3
<1>8. \A j \in DOMAIN vInode : vInode[j].addr \in Nat
  BY <1>3 DEF Inodes
<1>9. \A j \in DOMAIN vInode' : vInode'[j].addr <= vCount'
  <2> TAKE j \in DOMAIN vInode'
  <2>1. CASE j = i
    BY <2>1, <1>3, <1>2
  <2>2. CASE j # i
    BY <2>2, <1>3, <1>1, <1>2, <1>8
  <2> QED BY <2>1, <2>2
<1>10. \A n, m \in DOMAIN vFiles : AddrOf(n)' = AddrOf(m)' => n = m
  BY <1>6, <1>7, <1>1 DEF AddrOf
<1>11. \A n \in DOMAIN vFiles : vFiles[n] \notin vFreed /\ AddrOf(n)' # Null => AddrOf(n)' \in vLive'
  <2> TAKE n \in DOMAIN vFiles
  <2>1. CASE n = name
    BY <2>1, <1>6
  <2>2. CASE n # name
    <3>1. AddrOf(n)' = AddrOf(n) /\ AddrOf(n) # AddrOf(name)
      BY <2>2, <1>6, <1>1 DEF AddrOf
    <3> QED BY <3>1, <1>1
  <2> QED BY <2>1, <2>2
<1>12. FilesOK'
  BY <1>1, <1>3, <1>4, <1>9, <1>10, <1>11 DEF FilesOK
<1> QED
  BY <1>12, <1>6, <1>3, <1>5, <1>1

\* A file is made: with new memory or, if no other is empty, with none.
LEMMA Made ==
    ASSUME FilesOK, NEW name, name \notin DOMAIN vFiles, NEW a, NewInode(name, a), UNCHANGED vFreed,
           vCount' = vCount + 1, vLive' = vLive \cup ({a} \ {Null}),
           a = vCount + 1 \/ (a = Null /\ WithAddr(Null) \subseteq {name})
    PROVE  /\ FilesOK' /\ AddrOf(name)' = a /\ name \in DOMAIN vFiles' /\ vFiles'[name] \notin vFreed
           /\ \A n \in DOMAIN vFiles : n \in DOMAIN vFiles' /\ vFiles'[n] = vFiles[n] /\ vInode'[vFiles[n]] = vInode[vFiles[n]]
<1> DEFINE k == Len(vInode) + 1
<1>1. /\ vInode \in Seq(Inodes) /\ vCount \in Nat /\ vFreed \subseteq DOMAIN vInode
      /\ \A i \in DOMAIN vInode : vInode[i].addr <= vCount
      /\ \A n \in DOMAIN vFiles : vFiles[n] \in DOMAIN vInode
      /\ \A n, m \in DOMAIN vFiles : vInode[vFiles[n]].addr = vInode[vFiles[m]].addr => n = m
      /\ \A n \in DOMAIN vFiles : vFiles[n] \notin vFreed /\ AddrOf(n) # Null => AddrOf(n) \in vLive
  BY DEF FilesOK, AddrOf
<1>2. a \in Nat /\ a <= vCount + 1
  BY <1>1 DEF Null
<1>3. /\ vInode' = Append(vInode, [addr |-> a, links |-> 1]) /\ [addr |-> a, links |-> 1] \in Inodes
      /\ vFiles' = [z \in DOMAIN vFiles \cup {name} |-> IF z = name THEN k ELSE vFiles[z]]
  BY <1>2 DEF NewInode, With, Inodes
<1>4. /\ DOMAIN vInode = 1 .. Len(vInode) /\ Len(vInode) \in Nat /\ k \notin DOMAIN vInode
      /\ vInode' \in Seq(Inodes) /\ DOMAIN vInode' = DOMAIN vInode \cup {k}
      /\ vInode'[k] = [addr |-> a, links |-> 1] /\ \A i \in DOMAIN vInode : vInode'[i] = vInode[i]
  <2>1. DOMAIN vInode = 1 .. Len(vInode) /\ Len(vInode) \in Nat
    BY <1>1
  <2>2. /\ vInode' \in Seq(Inodes) /\ Len(vInode') = k /\ vInode'[k] = [addr |-> a, links |-> 1]
        /\ \A i \in 1 .. Len(vInode) : vInode'[i] = vInode[i]
    BY <1>1, <1>3
  <2>3. DOMAIN vInode' = 1 .. k
    BY <2>2
  <2>4. 1 .. k = (1 .. Len(vInode)) \cup {k} /\ k \notin 1 .. Len(vInode)
    BY <2>1
  <2> QED BY <2>1, <2>2, <2>3, <2>4
<1>5. \A i \in DOMAIN vInode : vInode[i].addr \in Nat
  <2>1. \A i \in DOMAIN vInode : vInode[i] \in Inodes
    BY <1>1
  <2> QED BY <2>1 DEF Inodes
<1> HIDE DEF k
<1>6. /\ DOMAIN vFiles' = DOMAIN vFiles \cup {name} /\ vFiles'[name] = k
      /\ \A n \in DOMAIN vFiles : vFiles'[n] = vFiles[n]
  BY <1>3
<1>7. AddrOf(name)' = a /\ \A n \in DOMAIN vFiles : AddrOf(n)' = AddrOf(n)
  BY <1>1, <1>4, <1>6 DEF AddrOf
<1>8. \A n \in DOMAIN vFiles : AddrOf(n) # a
  <2> SUFFICES ASSUME NEW n \in DOMAIN vFiles, AddrOf(n) = a PROVE FALSE
    OBVIOUS
  <2>1. AddrOf(n) <= vCount /\ AddrOf(n) \in Nat
    BY <1>1, <1>5 DEF AddrOf
  <2>2. a # vCount + 1
    BY <2>1, <1>1
  <2>3. n \in WithAddr(Null)
    BY <2>2 DEF WithAddr
  <2> QED BY <2>2, <2>3
<1>9. \A i \in DOMAIN vInode' : vInode'[i].addr <= vCount'
  <2> TAKE i \in DOMAIN vInode'
  <2>1. CASE i = k
    BY <2>1, <1>4, <1>2
  <2>2. CASE i # k
    <3>1. vInode'[i].addr = vInode[i].addr /\ vInode[i].addr \in Nat /\ vInode[i].addr <= vCount
      BY <2>2, <1>1, <1>4, <1>5
    <3> QED BY <3>1, <1>1
  <2> QED BY <2>1, <2>2
<1>10. \A n, m \in DOMAIN vFiles' : AddrOf(n)' = AddrOf(m)' => n = m
  BY <1>6, <1>7, <1>8, <1>1 DEF AddrOf
<1>11. \A n \in DOMAIN vFiles' : vFiles'[n] \notin vFreed /\ AddrOf(n)' # Null => AddrOf(n)' \in vLive'
  BY <1>1, <1>6, <1>7
<1>12. \A n \in DOMAIN vFiles' : vFiles'[n] \in DOMAIN vInode'
  BY <1>1, <1>6, <1>4
<1>13. FilesOK'
  BY <1>1, <1>4, <1>9, <1>10, <1>11, <1>12 DEF FilesOK
<1> QED
  BY <1>13, <1>7, <1>6, <1>4, <1>1

LEMMA Creating ==
    ASSUME VCareful = TRUE, VfsInv, NEW h \in VHandles, NEW q, NEW mode, VfsRules(q), UNCHANGED vMounts,
           FopenTmpCreate(h, q, mode)
    PROVE  VfsInv'
<1>n. PICK name : name = LookupName(q)
  OBVIOUS
<1>s. PICK size : size = IF mode = "w" THEN Null ELSE Fresh
  OBVIOUS
<1>1. /\ LookupFs(q) = "tmp" /\ name \notin DOMAIN vFiles /\ (mode = "w" => WithAddr(Null) \subseteq {name})
      /\ NewInode(name, size) /\ vLive' = vLive \cup ({size} \ {Null}) /\ vCount' = vCount + 1
      /\ Opened(h, q, size) /\ UNCHANGED vFreed
  BY <1>n, <1>s DEF FopenTmpCreate, NoOtherEmpty, Fresh
<1>2. size = vCount + 1 \/ (size = Null /\ WithAddr(Null) \subseteq {name})
  BY <1>1, <1>s DEF Fresh
<1>3. /\ FilesOK' /\ AddrOf(name)' = size /\ name \in DOMAIN vFiles' /\ vFiles'[name] \notin vFreed
      /\ \A n \in DOMAIN vFiles : n \in DOMAIN vFiles' /\ vFiles'[n] = vFiles[n] /\ vInode'[vFiles[n]] = vInode[vFiles[n]]
  BY <1>1, <1>2, Made DEF VfsInv
<1>4. /\ NamesOK'
      /\ vHandle'[h] = [path |-> q, fs |-> LookupFs(q), name |-> name, addr |-> size]
      /\ \A g \in VHandles \ {h} : vHandle'[g] = vHandle[g]
  BY <1>1, <1>n, OpenedNames DEF VfsInv
<1>5. \A g \in VHandles \ {h} : HandleOK(g)'
  <2> TAKE g \in VHandles \ {h}
  <2>1. HandleOK(g) /\ vHandle'[g] = vHandle[g]
    BY <1>4 DEF VfsInv
  <2>2. IsTmp(g) => vHandle[g].name \in DOMAIN vFiles /\ vFiles[vHandle[g].name] \notin vFreed'
    BY <2>1, <1>1 DEF HandleOK
  <2> QED BY <2>1, <2>2, <1>3, Untouched
<1>6. HandleOK(h)'
  BY <1>1, <1>3, <1>4 DEF HandleOK
<1>7. \A g \in VHandles \ {h} : IsTmp(g) => vHandle[g].name # vHandle'[h].name
  BY <1>1, <1>4 DEF VfsInv, HandleOK
<1> QED
  BY <1>3, <1>4, <1>5, <1>6, <1>7, OpenedOne

LEMMA Reopening ==
    ASSUME VCareful = TRUE, VfsInv, NEW h \in VHandles, NEW q, NEW mode, VfsRules(q), UNCHANGED vMounts,
           FopenTmpExisting(h, q, mode)
    PROVE  VfsInv'
<1>n. PICK name : name = LookupName(q)
  OBVIOUS
<1>1. /\ LookupFs(q) = "tmp" /\ name \in DOMAIN vFiles /\ \A g \in VHandles : vHandle[g].name # name
      /\ vFiles[name] \notin vFreed /\ UNCHANGED <<vFiles, vFreed>>
  BY <1>n DEF FopenTmpExisting, OnlyUser, Intact
<1> DEFINE truncates == mode = "w" /\ AddrOf(name) # Null
<1>2. /\ truncates => WithAddr(Null) \subseteq {name} /\ TmpReallocate(AddrOf(name), name, "none") /\ Opened(h, q, Null)
      /\ ~truncates => Opened(h, q, AddrOf(name)) /\ UNCHANGED <<vInode, vLive, vCount>>
  BY <1>n DEF FopenTmpExisting, NoOtherEmpty
<1> HIDE DEF truncates
<1>3. \E a : /\ Opened(h, q, a) /\ FilesOK' /\ AddrOf(name)' = a
              /\ \A n \in DOMAIN vFiles \ {name} : vInode'[vFiles[n]] = vInode[vFiles[n]]
  <2>1. CASE truncates
    <3>1. /\ vLive' = (vLive \ {AddrOf(name)}) \cup ({Null} \ {Null}) /\ vCount' = vCount
          /\ vInode' = [vInode EXCEPT ![vFiles[name]].addr = Null]
      BY <2>1, <1>2 DEF TmpReallocate
    <3>2. vCount' \in Nat
      BY <3>1 DEF VfsInv, FilesOK
    <3>3. /\ FilesOK' /\ AddrOf(name)' = Null
          /\ \A n \in DOMAIN vFiles \ {name} : vInode'[vFiles[n]] = vInode[vFiles[n]]
      BY <3>1, <3>2, <2>1, <1>1, <1>2, Reallocated
    <3> QED BY <3>3, <2>1, <1>2
  <2>2. CASE ~truncates
    <3>1. FilesOK'
      BY <2>2, <1>1, <1>2 DEF VfsInv, FilesOK, AddrOf
    <3>2. AddrOf(name)' = AddrOf(name) /\ \A n \in DOMAIN vFiles \ {name} : vInode'[vFiles[n]] = vInode[vFiles[n]]
      BY <2>2, <1>1, <1>2 DEF AddrOf
    <3> QED BY <3>1, <3>2, <2>2, <1>2
  <2> QED BY <2>1, <2>2
<1>a. PICK a : /\ Opened(h, q, a) /\ FilesOK' /\ AddrOf(name)' = a
               /\ \A n \in DOMAIN vFiles \ {name} : vInode'[vFiles[n]] = vInode[vFiles[n]]
  BY <1>3
<1>4. /\ NamesOK'
      /\ vHandle'[h] = [path |-> q, fs |-> LookupFs(q), name |-> name, addr |-> a]
      /\ \A g \in VHandles \ {h} : vHandle'[g] = vHandle[g]
  BY <1>a, <1>n, OpenedNames DEF VfsInv
<1>5. \A g \in VHandles \ {h} : HandleOK(g)'
  <2> TAKE g \in VHandles \ {h}
  <2>1. HandleOK(g) /\ vHandle'[g] = vHandle[g]
    BY <1>4 DEF VfsInv
  <2>2. IsTmp(g) => vHandle[g].name \in DOMAIN vFiles \ {name} /\ vFiles[vHandle[g].name] \notin vFreed'
    BY <2>1, <1>1 DEF HandleOK
  <2> QED BY <2>1, <2>2, <1>1, <1>a, Untouched
<1>6. HandleOK(h)'
  BY <1>1, <1>a, <1>4 DEF HandleOK
<1>7. \A g \in VHandles \ {h} : IsTmp(g) => vHandle[g].name # vHandle'[h].name
  BY <1>1, <1>4
<1> QED
  BY <1>a, <1>4, <1>5, <1>6, <1>7, OpenedOne

LEMMA Writing == ASSUME VCareful = TRUE, VfsInv, NEW h \in VHandles, VfsWrite(h) PROVE VfsInv'
<1>1. /\ IsTmp(h) /\ UNCHANGED <<vMounts, vFiles, vFreed>> /\ vCount \in Nat
      /\ \E name \in WithAddr(vHandle[h].addr) :
            /\ TmpReallocate(vHandle[h].addr, name, "some")
            /\ vHandle' = [vHandle EXCEPT ![h].addr = Fresh]
  BY DEF VfsWrite, IsTmp, IsOpenHandle, VfsInv, FilesOK
<1>n. PICK name : name = vHandle[h].name
  OBVIOUS
<1>2. name \in DOMAIN vFiles /\ AddrOf(name) = vHandle[h].addr /\ vFiles[name] \notin vFreed
  BY <1>1, <1>n DEF VfsInv, HandleOK
<1>3. \A n \in WithAddr(vHandle[h].addr) : n = name
  BY <1>2 DEF VfsInv, FilesOK, WithAddr
<1>4. TmpReallocate(AddrOf(name), name, "some") /\ vHandle' = [vHandle EXCEPT ![h].addr = Fresh]
  BY <1>1, <1>2, <1>3
<1>5. /\ vLive' = (vLive \ {AddrOf(name)}) \cup ({vCount + 1} \ {Null}) /\ vCount' = vCount + 1
      /\ vInode' = [vInode EXCEPT ![vFiles[name]].addr = vCount + 1]
  BY <1>4 DEF TmpReallocate, Fresh
<1>6. DOMAIN vHandle = VHandles /\ HandleShape(vHandle[h])
  BY DEF VfsInv, NamesOK
<1>7. /\ vHandle'[h] = [path |-> vHandle[h].path, fs |-> vHandle[h].fs, name |-> vHandle[h].name, addr |-> vCount + 1]
      /\ \A g \in VHandles \ {h} : vHandle'[g] = vHandle[g]
      /\ DOMAIN vHandle' = VHandles
  BY <1>4, <1>6 DEF HandleShape, Fresh
<1>8. /\ FilesOK' /\ AddrOf(name)' = vCount + 1
      /\ \A n \in DOMAIN vFiles \ {name} : vInode'[vFiles[n]] = vInode[vFiles[n]]
  <2>1. PICK new : new = vCount + 1
    OBVIOUS
  <2>2. vCount' \in Nat
    BY <1>1, <1>5
  <2> QED BY <2>1, <2>2, <1>1, <1>2, <1>5, Reallocated
<1>9. NamesOK'
  <2>1. \A g \in VHandles : HandleShape(vHandle'[g])
    BY <1>7 DEF VfsInv, NamesOK, HandleShape
  <2>2. ASSUME NEW g \in VHandles, vHandle'[g] # Closed
        PROVE  NearestAbove(vHandle[g].path, vHandle[g].fs)'
    <3>1. vHandle[g] # Closed /\ vHandle'[g].path = vHandle[g].path /\ vHandle'[g].fs = vHandle[g].fs
      <4>1. CASE g = h
        BY <4>1, <1>7, <1>1 DEF IsTmp
      <4>2. CASE g # h
        BY <4>2, <2>2, <1>7
      <4> QED BY <4>1, <4>2
    <3>2. NearestAbove(vHandle[g].path, vHandle[g].fs)
      BY <3>1 DEF VfsInv, NamesOK
    <3> QED BY <3>1, <3>2, <1>1 DEF NearestAbove
  <2> QED BY <2>1, <2>2, <1>1, <1>7 DEF VfsInv, NamesOK
<1>10. \A g \in VHandles \ {h} : HandleOK(g)'
  <2> TAKE g \in VHandles \ {h}
  <2>1. HandleOK(g) /\ vHandle'[g] = vHandle[g]
    BY <1>7 DEF VfsInv
  <2>2. IsTmp(g) => vHandle[g].name \in DOMAIN vFiles \ {name} /\ vFiles[vHandle[g].name] \notin vFreed'
    BY <2>1, <1>1, <1>n DEF VfsInv, HandleOK
  <2> QED BY <2>1, <2>2, <1>1, <1>8, Untouched
<1>11. HandleOK(h)'
  BY <1>1, <1>n, <1>2, <1>7, <1>8 DEF HandleOK
<1>12. \A g \in VHandles \ {h} : IsTmp(g) => vHandle[g].name # vHandle'[h].name
  <2>1. vHandle'[h].name = vHandle[h].name
    BY <1>7
  <2>2. \A g \in VHandles \ {h} : IsTmp(g) => vHandle[g].name # vHandle[h].name
    BY <1>1 DEF VfsInv
  <2> QED BY <2>1, <2>2
<1> QED
  BY <1>7, <1>8, <1>9, <1>10, <1>11, <1>12, OpenedOne

\* Files are lost with their memory; the others stay as they are.
LEMMA Lost ==
    ASSUME FilesOK, NEW gone \in SUBSET DOMAIN vFiles, NEW a, vFiles' = Without(vFiles, gone),
           \A n \in gone : AddrOf(n) = a,
           vLive' = vLive \/ (vLive' = vLive \ {a} /\ gone # {}),
           NEW lost \in SUBSET DOMAIN vInode, vFreed' = vFreed \cup lost, vCount' = vCount,
           \A n \in DOMAIN vFiles \ gone : vFiles[n] \notin lost,
           vInode' \in Seq(Inodes), DOMAIN vInode' = DOMAIN vInode,
           \A i \in DOMAIN vInode : vInode'[i].addr = vInode[i].addr
    PROVE  /\ FilesOK'
           /\ \A n \in DOMAIN vFiles \ gone : n \in DOMAIN vFiles' /\ vFiles'[n] = vFiles[n] /\ AddrOf(n)' = AddrOf(n)
           /\ DOMAIN vFiles' = DOMAIN vFiles \ gone
<1>1. /\ vCount \in Nat /\ vFreed \subseteq DOMAIN vInode
      /\ \A i \in DOMAIN vInode : vInode[i].addr <= vCount
      /\ \A n \in DOMAIN vFiles : vFiles[n] \in DOMAIN vInode
      /\ \A n, m \in DOMAIN vFiles : AddrOf(n) = AddrOf(m) => n = m
      /\ \A n \in DOMAIN vFiles : vFiles[n] \notin vFreed /\ AddrOf(n) # Null => AddrOf(n) \in vLive
  BY DEF FilesOK
<1>2. DOMAIN vFiles' = DOMAIN vFiles \ gone /\ \A n \in DOMAIN vFiles \ gone : vFiles'[n] = vFiles[n]
  BY DEF Without
<1>3. \A n \in DOMAIN vFiles \ gone : AddrOf(n)' = AddrOf(n)
  BY <1>1, <1>2 DEF AddrOf
<1>4. \A n \in DOMAIN vFiles \ gone : gone # {} => AddrOf(n) # a
  BY <1>1
<1>5. \A n \in DOMAIN vFiles' : vFiles'[n] \notin vFreed' /\ AddrOf(n)' # Null => AddrOf(n)' \in vLive'
  <2> SUFFICES ASSUME NEW n \in DOMAIN vFiles', vFiles'[n] \notin vFreed', AddrOf(n)' # Null PROVE AddrOf(n)' \in vLive'
    OBVIOUS
  <2>1. AddrOf(n)' = AddrOf(n) /\ AddrOf(n) \in vLive /\ (gone # {} => AddrOf(n) # a)
    BY <1>1, <1>2, <1>3, <1>4
  <2> QED BY <2>1
<1>6. \A n, m \in DOMAIN vFiles' : AddrOf(n)' = AddrOf(m)' => n = m
  BY <1>1, <1>2, <1>3
<1>7. \A i \in DOMAIN vInode' : vInode'[i].addr <= vCount'
  BY <1>1
<1>8. \A n \in DOMAIN vFiles' : vFiles'[n] \in DOMAIN vInode'
  BY <1>1, <1>2
<1>9. vCount' \in Nat /\ vFreed' \subseteq DOMAIN vInode'
  BY <1>1
<1>10. FilesOK'
  BY <1>5, <1>6, <1>7, <1>8, <1>9 DEF FilesOK
<1> QED BY <1>2, <1>3, <1>10

\* The handles stay, and their files with them.
LEMMA SameHandles ==
    ASSUME VfsInv, NamesOK', FilesOK', UNCHANGED vHandle,
           \A h \in VHandles : HandleOK(h) => HandleOK(h)'
    PROVE  VfsInv'
  BY DEF VfsInv, IsTmp

LEMMA SameNames == ASSUME NamesOK, UNCHANGED <<vMounts, vHandle>> PROVE NamesOK'
  BY DEF NamesOK, NearestAbove

\* Changing the links of an inode.
LEMMA Relinked ==
    ASSUME vInode \in Seq(Inodes), NEW i \in DOMAIN vInode, NEW l \in Nat,
           vInode' = [vInode EXCEPT ![i].links = l]
    PROVE  /\ vInode' \in Seq(Inodes) /\ DOMAIN vInode' = DOMAIN vInode
           /\ \A j \in DOMAIN vInode : vInode'[j].addr = vInode[j].addr
<1>1. \A j \in DOMAIN vInode : vInode[j] \in Inodes
  OBVIOUS
<1>2. PICK x \in Nat, y \in Nat : vInode[i] = [addr |-> x, links |-> y]
  BY <1>1 DEF Inodes
<1>3. vInode'[i] = [addr |-> x, links |-> l]
  BY <1>2
<1>4. /\ DOMAIN vInode' = DOMAIN vInode
      /\ \A j \in DOMAIN vInode \ {i} : vInode'[j] = vInode[j]
  OBVIOUS
<1>5. [addr |-> x, links |-> l] \in Inodes
  BY DEF Inodes
<1>6. vInode' \in Seq(Inodes)
  BY <1>1, <1>3, <1>4, <1>5
<1>7. vInode'[i].addr = vInode[i].addr
  BY <1>2, <1>3
<1> QED BY <1>4, <1>6, <1>7

LEMMA Closing == ASSUME VfsInv, NEW h \in VHandles, VfsClose(h) PROVE VfsInv'
<1>g. PICK gone : gone = {n \in WithAddr(vHandle[h].addr) : vHandle[h].fs = "tmp" /\ vInode[vFiles[n]].links = 0}
  OBVIOUS
<1>a. PICK a : a = vHandle[h].addr
  OBVIOUS
<1>l. PICK lost : lost = {vFiles[n] : n \in gone}
  OBVIOUS
<1>1. /\ vHandle' = [vHandle EXCEPT ![h] = Closed]
      /\ vFiles' = Without(vFiles, gone) /\ vFreed' = vFreed \cup lost
      /\ vLive' = IF gone = {} THEN vLive ELSE vLive \ {a}
      /\ UNCHANGED <<vMounts, vInode, vCount>> /\ vHandle[h] # Closed
  BY <1>g, <1>a, <1>l DEF VfsClose, IsOpenHandle
<1>2. /\ vInode \in Seq(Inodes) /\ \A n \in DOMAIN vFiles : vFiles[n] \in DOMAIN vInode
      /\ \A n, m \in DOMAIN vFiles : AddrOf(n) = AddrOf(m) => n = m
  BY DEF VfsInv, FilesOK
<1>3. gone \subseteq DOMAIN vFiles /\ \A n \in gone : AddrOf(n) = a
  BY <1>g, <1>a DEF WithAddr
<1>4. \A n, m \in DOMAIN vFiles : vFiles[n] = vFiles[m] => n = m
  BY <1>2 DEF AddrOf
<1>5. lost \subseteq DOMAIN vInode /\ \A n \in DOMAIN vFiles \ gone : vFiles[n] \notin lost
  BY <1>2, <1>3, <1>4, <1>l
<1>6. vLive' = vLive \/ (vLive' = vLive \ {a} /\ gone # {})
  BY <1>1
<1>7. /\ FilesOK'
      /\ \A n \in DOMAIN vFiles \ gone : n \in DOMAIN vFiles' /\ vFiles'[n] = vFiles[n] /\ AddrOf(n)' = AddrOf(n)
  <2>1. vInode' \in Seq(Inodes) /\ DOMAIN vInode' = DOMAIN vInode /\ \A i \in DOMAIN vInode : vInode'[i].addr = vInode[i].addr
    BY <1>1, <1>2
  <2> QED BY <2>1, <1>1, <1>3, <1>5, <1>6, Lost DEF VfsInv
<1>8. /\ vHandle'[h] = Closed /\ \A g \in VHandles \ {h} : vHandle'[g] = vHandle[g]
      /\ DOMAIN vHandle' = VHandles
  BY <1>1 DEF VfsInv, NamesOK
<1>9. NamesOK'
  <2>1. HandleShape(Closed)
    BY DEF HandleShape, Closed
  <2>2. \A g \in VHandles : HandleShape(vHandle'[g])
    BY <2>1, <1>8 DEF VfsInv, NamesOK
  <2>3. \A g \in VHandles : vHandle'[g] # Closed => NearestAbove(vHandle[g].path, vHandle[g].fs)'
    BY <1>1, <1>8 DEF VfsInv, NamesOK, NearestAbove
  <2> QED BY <2>2, <2>3, <1>1, <1>8 DEF VfsInv, NamesOK
<1>10. ASSUME NEW g \in VHandles \ {h} PROVE HandleOK(g)'
  <2> SUFFICES ASSUME IsTmp(g)
               PROVE  /\ vHandle[g].name \in DOMAIN vFiles' /\ AddrOf(vHandle[g].name)' = vHandle[g].addr
                      /\ vFiles'[vHandle[g].name] \notin vFreed'
    BY <1>8 DEF HandleOK, IsTmp
  <2>1. PICK n : n = vHandle[g].name
    OBVIOUS
  <2>2. n \in DOMAIN vFiles /\ AddrOf(n) = vHandle[g].addr /\ vFiles[n] \notin vFreed
    BY <2>1 DEF VfsInv, HandleOK
  <2>3. n \notin gone
    <3> SUFFICES ASSUME n \in gone PROVE FALSE
      OBVIOUS
    <3>1. AddrOf(n) = vHandle[h].addr /\ IsTmp(h)
      BY <1>g, <1>1 DEF IsTmp, WithAddr
    <3>2. vHandle[h].name \in DOMAIN vFiles /\ AddrOf(vHandle[h].name) = vHandle[h].addr
      BY <3>1 DEF VfsInv, HandleOK
    <3>3. vHandle[h].name = n
      BY <3>1, <3>2, <2>2, <1>2
    <3> QED BY <3>1, <3>3, <2>1 DEF VfsInv
  <2>4. AddrOf(n)' = vHandle[g].addr /\ n \in DOMAIN vFiles' /\ vFiles'[n] \notin vFreed'
    BY <2>2, <2>3, <1>1, <1>5, <1>7
  <2> QED BY <2>1, <2>4, <1>8
<1>11. ~IsTmp(h)'
  BY <1>8 DEF IsTmp
<1> QED
  BY <1>7, <1>8, <1>9, <1>10, <1>11, OpenedOne DEF HandleOK

LEMMA Unlinking == ASSUME VCareful = TRUE, VfsInv, NEW p, VfsUnlink(p) PROVE VfsInv'
<1>n. PICK name : name = LookupName(SanitiseName(p))
  OBVIOUS
<1>i. PICK i : i = vFiles[name]
  OBVIOUS
<1>l. PICK links : links = IF vInode[i].links = 0 THEN 0 ELSE vInode[i].links - 1
  OBVIOUS
<1>1. /\ name \in DOMAIN vFiles /\ \A g \in VHandles : vHandle[g].name # name
      /\ vInode' = [vInode EXCEPT ![i].links = links]
      /\ \/ vLive' = vLive \ {vInode[i].addr} /\ vFreed' = vFreed \cup {i} /\ vFiles' = Without(vFiles, {name})
         \/ UNCHANGED <<vLive, vFreed, vFiles>>
      /\ UNCHANGED <<vMounts, vHandle, vCount>>
  BY <1>n, <1>i, <1>l DEF VfsUnlink, TmpDelete, OnlyUser
<1>2. /\ vInode \in Seq(Inodes) /\ \A n \in DOMAIN vFiles : vFiles[n] \in DOMAIN vInode
      /\ \A n, m \in DOMAIN vFiles : AddrOf(n) = AddrOf(m) => n = m
  BY DEF VfsInv, FilesOK
<1>3. i \in DOMAIN vInode /\ AddrOf(name) = vInode[i].addr
  BY <1>1, <1>2, <1>i DEF AddrOf
<1>4. links \in Nat
  <2>1. vInode[i] \in Inodes
    BY <1>2, <1>3
  <2>2. vInode[i].links \in Nat
    BY <2>1 DEF Inodes
  <2> QED BY <2>2, <1>l
<1>5. /\ vInode' \in Seq(Inodes) /\ DOMAIN vInode' = DOMAIN vInode
      /\ \A j \in DOMAIN vInode : vInode'[j].addr = vInode[j].addr
  BY <1>1, <1>2, <1>3, <1>4, Relinked
<1>6. \A n \in DOMAIN vFiles \ {name} : vFiles[n] # i
  BY <1>1, <1>2, <1>i DEF AddrOf
<1>7. /\ FilesOK'
      /\ \A n \in DOMAIN vFiles \ {name} : /\ n \in DOMAIN vFiles' /\ vFiles'[n] = vFiles[n] /\ AddrOf(n)' = AddrOf(n)
                                           /\ vFiles[n] \notin vFreed => vFiles[n] \notin vFreed'
  <2>1. CASE vLive' = vLive \ {vInode[i].addr} /\ vFreed' = vFreed \cup {i} /\ vFiles' = Without(vFiles, {name})
    <3>1. PICK a : a = vInode[i].addr
      OBVIOUS
    <3>2. PICK gone, lost : gone = {name} /\ lost = {i}
      OBVIOUS
    <3>3. /\ gone \in SUBSET DOMAIN vFiles /\ lost \in SUBSET DOMAIN vInode /\ gone # {}
          /\ \A n \in gone : AddrOf(n) = a
          /\ \A n \in DOMAIN vFiles \ gone : vFiles[n] \notin lost
      BY <3>1, <3>2, <1>1, <1>3, <1>6
    <3>4. /\ FilesOK'
          /\ \A n \in DOMAIN vFiles \ gone : n \in DOMAIN vFiles' /\ vFiles'[n] = vFiles[n] /\ AddrOf(n)' = AddrOf(n)
      <4>1. vLive' = vLive \ {a} /\ vFreed' = vFreed \cup lost /\ vFiles' = Without(vFiles, gone) /\ vCount' = vCount
        BY <3>1, <3>2, <2>1, <1>1
      <4> QED BY <4>1, <3>3, <1>5, Lost DEF VfsInv
    <3> QED BY <3>2, <3>4, <2>1, <1>6
  <2>2. CASE UNCHANGED <<vLive, vFreed, vFiles>>
    <3>1. \A n \in DOMAIN vFiles : AddrOf(n)' = AddrOf(n)
      BY <2>2, <1>2, <1>5 DEF AddrOf
    <3>2. FilesOK'
      BY <2>2, <3>1, <1>1, <1>5 DEF VfsInv, FilesOK
    <3> QED BY <2>2, <3>1, <3>2
  <2> QED BY <2>1, <2>2, <1>1
<1>8. ASSUME NEW g \in VHandles, HandleOK(g) PROVE HandleOK(g)'
  <2>1. IsTmp(g) => vHandle[g].name \in DOMAIN vFiles \ {name}
    BY <1>8, <1>1 DEF HandleOK
  <2>2. PICK n : n = vHandle[g].name
    OBVIOUS
  <2>3. n \in DOMAIN vFiles \ {name} => n \in DOMAIN vFiles' /\ vFiles'[n] = vFiles[n] /\ AddrOf(n)' = AddrOf(n)
    BY <1>7
  <2> QED BY <2>1, <2>2, <2>3, <1>8, <1>7, <1>1 DEF HandleOK, IsTmp
<1> QED BY <1>1, <1>7, <1>8, SameNames, SameHandles DEF VfsInv

LEMMA MakingDirectory == ASSUME VCareful = TRUE, VfsInv, NEW p, VfsMkdir(p) PROVE VfsInv'
<1>1. PICK tmp : /\ WithAddr(Null) \subseteq {tmp} /\ vCount' = vCount + 1
                 /\ IF tmp \in DOMAIN vFiles THEN UNCHANGED <<vInode, vFiles>> ELSE NewInode(tmp, Null)
                 /\ UNCHANGED <<vMounts, vFreed, vLive, vHandle>>
  BY DEF VfsMkdir, NoOtherEmpty, Fresh
<1>2. PICK a : a = Null
  OBVIOUS
<1>3. /\ FilesOK'
      /\ \A n \in DOMAIN vFiles : n \in DOMAIN vFiles' /\ vFiles'[n] = vFiles[n] /\ AddrOf(n)' = AddrOf(n)
  <2>1. CASE tmp \in DOMAIN vFiles
    <3>1. \A i \in DOMAIN vInode : vInode[i] \in Inodes
      BY DEF VfsInv, FilesOK
    <3>2. \A i \in DOMAIN vInode : vInode[i].addr \in Nat /\ vInode[i].addr <= vCount /\ vCount \in Nat
      BY <3>1 DEF Inodes, VfsInv, FilesOK
    <3>3. \A i \in DOMAIN vInode : vInode[i].addr <= vCount' /\ vCount' \in Nat
      BY <3>2, <1>1 DEF VfsInv, FilesOK
    <3>4. vCount' \in Nat
      BY <1>1 DEF VfsInv, FilesOK
    <3> QED BY <2>1, <1>1, <3>3, <3>4 DEF VfsInv, FilesOK, AddrOf
  <2>2. CASE tmp \notin DOMAIN vFiles
    <3>1. /\ FilesOK'
          /\ \A n \in DOMAIN vFiles : n \in DOMAIN vFiles' /\ vFiles'[n] = vFiles[n] /\ vInode'[vFiles[n]] = vInode[vFiles[n]]
      <4>1. NewInode(tmp, a) /\ a = Null /\ vLive' = vLive \cup ({a} \ {Null})
        BY <2>2, <1>1, <1>2
      <4> QED BY <4>1, <2>2, <1>1, Made DEF VfsInv
    <3> QED BY <3>1 DEF AddrOf
  <2> QED BY <2>1, <2>2
<1>4. ASSUME NEW g \in VHandles, HandleOK(g) PROVE HandleOK(g)'
  <2>1. PICK n : n = vHandle[g].name
    OBVIOUS
  <2> QED BY <2>1, <1>1, <1>3, <1>4 DEF HandleOK, IsTmp
<1> QED BY <1>1, <1>3, <1>4, SameNames, SameHandles DEF VfsInv

LEMMA Renaming == ASSUME VCareful = TRUE, VfsInv, NEW p, NEW q, VfsRename(p, q) PROVE VfsInv'
<1>f. PICK f : f = LookupName(SanitiseName(p))
  OBVIOUS
<1>i. PICK i : i = vFiles[f]
  OBVIOUS
<1> DEFINE left == Without(vFiles, {f})
<1>1. /\ f \in DOMAIN vFiles /\ \A g \in VHandles : vHandle[g].name # f
      /\ vFreed' = vFreed \cup {i} /\ vInode' = [vInode EXCEPT ![i].links = 0]
      /\ vFiles' = IF q \in DOMAIN left THEN left ELSE With(left, q, i)
      /\ UNCHANGED <<vMounts, vLive, vHandle, vCount>>
  BY <1>f, <1>i, Zenon DEF VfsRename, OnlyUser, SinglyNamed
<1>2. /\ vInode \in Seq(Inodes) /\ \A n \in DOMAIN vFiles : vFiles[n] \in DOMAIN vInode
      /\ \A n, m \in DOMAIN vFiles : AddrOf(n) = AddrOf(m) => n = m
      /\ \A n \in DOMAIN vFiles : vFiles[n] \notin vFreed /\ AddrOf(n) # Null => AddrOf(n) \in vLive
  BY DEF VfsInv, FilesOK
<1>3. i \in DOMAIN vInode
  BY <1>1, <1>2, <1>i
<1>4. /\ vInode' \in Seq(Inodes) /\ DOMAIN vInode' = DOMAIN vInode
      /\ \A j \in DOMAIN vInode : vInode'[j].addr = vInode[j].addr
  <2>1. PICK l \in Nat : l = 0
    OBVIOUS
  <2> QED BY <2>1, <1>1, <1>2, <1>3, Relinked
<1>5. /\ DOMAIN left = DOMAIN vFiles \ {f} /\ \A n \in DOMAIN vFiles \ {f} : left[n] = vFiles[n] /\ vFiles[n] # i
  BY <1>1, <1>2, <1>i DEF Without, AddrOf
<1> HIDE DEF left
<1>6. /\ \A n \in DOMAIN vFiles \ {f} : n \in DOMAIN vFiles' /\ vFiles'[n] = vFiles[n] /\ AddrOf(n)' = AddrOf(n)
      /\ \A n \in DOMAIN vFiles' : n \in DOMAIN vFiles \ {f} \/ (n = q /\ vFiles'[n] = i)
  BY <1>1, <1>2, <1>4, <1>5 DEF With, AddrOf
<1>7. FilesOK'
  <2>1. \A n \in DOMAIN vFiles' : vFiles'[n] \in DOMAIN vInode'
    BY <1>2, <1>3, <1>4, <1>6
  <2>2. \A n, m \in DOMAIN vFiles' : AddrOf(n)' = AddrOf(m)' => n = m
    <3>1. \A n \in DOMAIN vFiles' : ~(n \in DOMAIN vFiles \ {f}) => AddrOf(n)' = AddrOf(f)
      BY <1>1, <1>2, <1>i, <1>4, <1>6 DEF AddrOf
    <3> QED BY <3>1, <1>1, <1>2, <1>6
  <2>3. \A n \in DOMAIN vFiles' : vFiles'[n] \notin vFreed' /\ AddrOf(n)' # Null => AddrOf(n)' \in vLive'
    BY <1>1, <1>2, <1>6
  <2>4. \A j \in DOMAIN vInode' : vInode'[j].addr <= vCount'
    BY <1>1, <1>4 DEF VfsInv, FilesOK
  <2>5. vFreed' \subseteq DOMAIN vInode' /\ vCount' \in Nat
    BY <1>1, <1>3, <1>4 DEF VfsInv, FilesOK
  <2> QED BY <2>1, <2>2, <2>3, <2>4, <2>5, <1>4 DEF FilesOK
<1>8. ASSUME NEW g \in VHandles, HandleOK(g) PROVE HandleOK(g)'
  <2>1. PICK n : n = vHandle[g].name
    OBVIOUS
  <2>2. IsTmp(g) => n \in DOMAIN vFiles \ {f}
    BY <2>1, <1>8, <1>1 DEF HandleOK
  <2>3. IsTmp(g) => vFiles'[n] \notin vFreed' /\ n \in DOMAIN vFiles' /\ AddrOf(n)' = vHandle[g].addr
    BY <2>1, <2>2, <1>8, <1>1, <1>5, <1>6 DEF HandleOK
  <2> QED BY <2>1, <2>3, <1>1 DEF HandleOK, IsTmp
<1> QED BY <1>1, <1>7, <1>8, SameNames, SameHandles DEF VfsInv

\* A single slash is its own clean name.
LEMMA CleanSlash == SanitiseName(Slash) = Slash
<1> DEFINE kept == {i \in DOMAIN Slash : i = 1 \/ Slash[i] # "/" \/ Slash[i - 1] # "/"}
           upto(i) == {j \in kept : j <= i}
           nth(k) == CHOOSE i \in kept : Cardinality(upto(i)) = k
<1>1. DOMAIN Slash = {1} /\ Slash[1] = "/" 
  BY DEF Slash
<1>2. kept = {1}
  BY <1>1
<1>3. upto(1) = {1}
  BY <1>2
<1>4. Cardinality({1}) = 1
  BY FS_Singleton
<1>5. \E i \in kept : Cardinality(upto(i)) = 1
  BY <1>2, <1>3, <1>4
<1>6. nth(1) = 1
  BY <1>2, <1>5
<1>7. SanitiseName(Slash) = [k \in 1 .. Cardinality(kept) |-> Slash[nth(k)]]
  BY Zenon DEF SanitiseName
<1> HIDE DEF kept, nth
<1>8. SanitiseName(Slash) = [k \in {1} |-> Slash[nth(k)]]
  <2>1. 1 .. Cardinality(kept) = {1}
    BY <1>2, <1>4
  <2> QED BY <1>7, <2>1
<1>9. [k \in {1} |-> Slash[nth(k)]] = [k \in {1} |-> Slash[k]]
  BY <1>6
<1>10. Slash = [k \in {1} |-> Slash[k]]
  <2>1. <<"/">> \in Seq({"/"})
    OBVIOUS
  <2>2. Slash \in [{1} -> {"/"}]
    BY <1>1, <2>1 DEF Slash
  <2> QED BY <2>2
<1> QED BY <1>8, <1>9, <1>10

LEMMA Mounting == ASSUME VCareful = TRUE, VfsInv, NEW d, VfsMount(Slash, d) PROVE VfsInv'
<1>1. /\ Slash \notin DOMAIN vMounts /\ vMounts' = With(vMounts, Slash, "root")
      /\ UNCHANGED <<vFiles, vInode, vFreed, vLive, vHandle, vCount>>
  BY CleanSlash DEF VfsMount
<1>2. DOMAIN vMounts' = DOMAIN vMounts \cup {Slash} /\ \A m \in DOMAIN vMounts : vMounts'[m] = vMounts[m]
  BY <1>1 DEF With
<1>3. Len(VDev) = 2 /\ Len(VTmp) = 2 /\ Len(Slash) = 1
  BY DEF VDev, VTmp, Slash
<1>4. \A m \in DOMAIN vMounts : Len(m) = 2 \/ Len(m) = 1
  BY <1>3 DEF VfsInv, NamesOK
<1>5. ASSUME NEW g \in VHandles, vHandle'[g] # Closed
      PROVE  NearestAbove(vHandle[g].path, vHandle[g].fs)'
  <2>1. NearestAbove(vHandle[g].path, vHandle[g].fs)
    BY <1>1, <1>5 DEF VfsInv, NamesOK
  <2>2. PICK m \in DOMAIN vMounts : /\ Below(m, vHandle[g].path) /\ vMounts[m] = vHandle[g].fs
                                    /\ \A o \in DOMAIN vMounts : Below(o, vHandle[g].path) => Len(o) <= Len(m)
    BY <2>1 DEF NearestAbove
  <2>3. \A o \in DOMAIN vMounts' : Below(o, vHandle[g].path) => Len(o) <= Len(m)
    <3> TAKE o \in DOMAIN vMounts'
    <3>1. CASE o \in DOMAIN vMounts
      BY <3>1, <2>2
    <3>2. CASE o = Slash
      BY <3>2, <1>3, <1>4
    <3> QED BY <3>1, <3>2, <1>2
  <2> QED BY <2>2, <2>3, <1>1, <1>2 DEF NearestAbove
<1>6. NamesOK'
  BY <1>1, <1>2, <1>5 DEF VfsInv, NamesOK
<1>7. FilesOK' /\ \A h \in VHandles : HandleOK(h) => HandleOK(h)'
  BY <1>1 DEF VfsInv, FilesOK, HandleOK, IsTmp, AddrOf
<1> QED BY <1>1, <1>6, <1>7, SameHandles

LEMMA Unmounting == ASSUME VCareful = TRUE, VfsInv, NEW point, VfsUmount(point) PROVE VfsInv'
<1>1. /\ point \in DOMAIN vMounts /\ \A h \in VHandles : vHandle[h].fs # vMounts[point]
      /\ vMounts' = Without(vMounts, {point}) /\ UNCHANGED <<vInode, vHandle, vCount>>
      /\ \/ vMounts[point] = "tmp" /\ vFiles' = <<>> /\ vFreed' = DOMAIN vInode
         \/ UNCHANGED <<vFiles, vFreed, vLive>>
  BY DEF VfsUmount
<1>2. DOMAIN vMounts' = DOMAIN vMounts \ {point} /\ \A m \in DOMAIN vMounts \ {point} : vMounts'[m] = vMounts[m]
  BY <1>1 DEF Without
<1>3. ASSUME NEW g \in VHandles, vHandle'[g] # Closed
      PROVE  NearestAbove(vHandle[g].path, vHandle[g].fs)'
  <2>1. NearestAbove(vHandle[g].path, vHandle[g].fs)
    BY <1>1, <1>3 DEF VfsInv, NamesOK
  <2>2. PICK m \in DOMAIN vMounts : /\ Below(m, vHandle[g].path) /\ vMounts[m] = vHandle[g].fs
                                    /\ \A o \in DOMAIN vMounts : Below(o, vHandle[g].path) => Len(o) <= Len(m)
    BY <2>1 DEF NearestAbove
  <2>3. m # point
    BY <2>2, <1>1
  <2> QED BY <2>2, <2>3, <1>1, <1>2 DEF NearestAbove
<1>4. NamesOK'
  BY <1>1, <1>2, <1>3 DEF VfsInv, NamesOK
<1>5. FilesOK' /\ \A h \in VHandles : HandleOK(h) => HandleOK(h)'
  <2>1. CASE vMounts[point] = "tmp" /\ vFiles' = <<>> /\ vFreed' = DOMAIN vInode
    <3>1. DOMAIN vFiles' = {}
      BY <2>1
    <3>2. FilesOK'
      BY <3>1, <2>1, <1>1 DEF VfsInv, FilesOK
    <3>3. \A h \in VHandles : ~IsTmp(h)'
      BY <2>1, <1>1 DEF IsTmp
    <3> QED BY <3>2, <3>3 DEF HandleOK
  <2>2. CASE UNCHANGED <<vFiles, vFreed, vLive>>
    BY <2>2, <1>1 DEF VfsInv, FilesOK, HandleOK, IsTmp, AddrOf
  <2> QED BY <2>1, <2>2, <1>1
<1> QED BY <1>1, <1>4, <1>5, SameHandles

LEMMA Opening == ASSUME VCareful = TRUE, VfsInv, NEW h \in VHandles, NEW p, NEW mode, VfsFopen(h, p, mode) PROVE VfsInv'
<1>1. PICK q : q = SanitiseName(p)
  OBVIOUS
<1>2. /\ VfsRules(q) /\ UNCHANGED vMounts
      /\ \/ FopenTmpExisting(h, q, mode) \/ FopenTmpCreate(h, q, mode) \/ FopenDev(h, q) \/ FopenRoot(h, q)
  BY <1>1 DEF VfsFopen
<1>3. CASE FopenTmpExisting(h, q, mode)
  BY <1>2, <1>3, Reopening
<1>4. CASE FopenTmpCreate(h, q, mode)
  BY <1>2, <1>4, Creating
<1>5. CASE FopenDev(h, q) \/ FopenRoot(h, q)
  BY <1>2, <1>5, Outside
<1> QED BY <1>2, <1>3, <1>4, <1>5

LEMMA VfsStep == ASSUME VCareful = TRUE, VfsInv, [VfsNext]_vfsVars PROVE VfsInv'
<1>1. CASE VfsNext
  <2>1. CASE \E h \in VHandles, p \in VPaths, mode \in {"r", "w", "a"} : VfsFopen(h, p, mode)
    BY <2>1, Opening
  <2>2. CASE \E h \in VHandles : VfsWrite(h)
    BY <2>2, Writing
  <2>3. CASE \E h \in VHandles : VfsClose(h)
    BY <2>3, Closing
  <2>4. CASE \E p \in VPaths : VfsUnlink(p)
    BY <2>4, Unlinking
  <2>5. CASE \E p \in VPaths : VfsMkdir(p)
    BY <2>5, MakingDirectory
  <2>6. CASE \E p, q \in VPaths : VfsRename(p, LookupName(q))
    <3>1. PICK p \in VPaths : \E q \in VPaths : VfsRename(p, LookupName(q))
      BY <2>6
    <3>2. PICK new : VfsRename(p, new)
      BY <3>1
    <3> QED BY <3>2, Renaming
  <2>7. CASE \E d \in Disks : VfsMount(Slash, d)
    BY <2>7, Mounting
  <2>8. CASE \E m \in {Slash, VTmp} : VfsUmount(m)
    BY <2>8, Unmounting
  <2>9. CASE AddTty \/ AddIde
    <3>1. UNCHANGED <<vMounts, vFiles, vInode, vFreed, vLive, vHandle, vCount>>
      BY <2>9 DEF AddTty, AddIde
    <3> QED BY <3>1 DEF VfsInv, NamesOK, FilesOK, HandleOK, IsTmp, AddrOf, NearestAbove
  <2> QED BY <1>1, <2>1, <2>2, <2>3, <2>4, <2>5, <2>6, <2>7, <2>8, <2>9 DEF VfsNext
<1>2. CASE UNCHANGED vfsVars
  BY <1>2 DEF vfsVars, VfsInv, NamesOK, FilesOK, HandleOK, IsTmp, AddrOf, NearestAbove
<1> QED BY <1>1, <1>2

\* Among callers that keep to the rules, a FILE of tmpfs stays with the memory of
\* the file it was opened on, which no other file shares.
THEOREM HandlesStaySound == ASSUME VCareful = TRUE PROVE VfsSpec => []HandlesSound
<1>1. VfsInit => VfsInv
  BY VfsStarts
<1>2. VfsInv /\ [VfsNext]_vfsVars => VfsInv'
  BY VfsStep
<1>3. VfsInv => HandlesSound
  BY VfsSound
<1> QED
  BY <1>1, <1>2, <1>3, PTL DEF VfsSpec

-----------------------------------------------------------------------------
(* Disks                                                                   *)

LEMMA Dividing ==
    ASSUME NEW n \in Nat, NEW m \in Nat, m # 0
    PROVE  n \div m \in Nat /\ n % m \in 0 .. m - 1 /\ n = m * (n \div m) + (n % m)
<1>1. m > 0
  OBVIOUS
<1>2. n % m \in 0 .. m - 1
  BY <1>1
<1>3. n = m * (n \div m) + (n % m)
  BY <1>1
<1>4. n \div m \in Nat
  BY <1>1
<1> QED
  BY <1>2, <1>3, <1>4
\* A quotient is below any bound that the number is below in whole divisors.
LEMMA QuotientBelow ==
    ASSUME NEW n \in Nat, NEW m \in Nat, m # 0, NEW k \in Nat, n < m * k
    PROVE  n \div m < k
<1> DEFINE q == n \div m
           r == n % m
<1>1. q \in Nat /\ r \in 0 .. m - 1 /\ n = m * q + r
  BY Dividing
<1> HIDE DEF q, r
<1>2. SUFFICES ASSUME q >= k PROVE FALSE
  BY <1>1 DEF q
<1>3. m * (q - k) >= 0 /\ m * (q - k) = m * q - m * k
  BY <1>1, <1>2
<1>4. m * q \in Int /\ m * k \in Int
  BY <1>1
<1> QED
  BY <1>1, <1>3, <1>4
\* The three lowest bytes of a number and what is left of it.
LEMMA LowBytes ==
    ASSUME NEW n \in Nat
    PROVE  LET q == n \div W r == q \div W t == r \div W
           IN /\ t \in Nat /\ r \in Nat /\ q \in Nat
              /\ n = ((n % W) + W * (q % W) + (W * W) * (r % W)) + (W * W * W) * t
              /\ (n % W) + W * (q % W) + (W * W) * (r % W) \in Nat
<1> DEFINE q == n \div W
           r == q \div W
           t == r \div W
           a == (n % W)
           b == q % W
           c == r % W
<1>1. W \in Nat /\ W # 0
  BY DiskAssumption
<1>2. q \in Nat /\ a \in Nat /\ n = W * q + a
  BY <1>1, Dividing
<1> HIDE DEF q, a
<1>3. r \in Nat /\ b \in Nat /\ q = W * r + b
  BY <1>1, <1>2, Dividing
<1> HIDE DEF r, b
<1>4. t \in Nat /\ c \in Nat /\ r = W * t + c
  BY <1>1, <1>3, Dividing
<1> HIDE DEF q, r, t, a, b, c
<1>5. n = W * (W * (W * t + c) + b) + a
  BY <1>2, <1>3, <1>4
<1>6. W * (W * (W * t + c) + b) = (W * W * W) * t + (W * W) * c + W * b
  <2>1. W * (W * t + c) = (W * W) * t + W * c
    BY ONLY <1>1, <1>4
  <2>2. W * (W * W) = W * W * W /\ W * W \in Int /\ W * W * W \in Int
    BY ONLY <1>1
  <2> DEFINE w2 == W * W
             w3 == W * W * W
             y == W * c
  <2>3. W * w2 = w3 /\ w2 \in Int /\ w3 \in Int /\ y \in Int
    BY <2>2, <1>1, <1>4
  <2>4. W * y = w2 * c
    BY ONLY <1>1, <1>4
  <2> HIDE DEF w2, w3, y
  <2>5. W * (w2 * t) = w3 * t
    BY ONLY <2>3, <1>1, <1>4
  <2>6. W * ((w2 * t + y) + b) = W * (w2 * t) + W * y + W * b
    BY ONLY <2>3, <1>1, <1>4, <1>3
  <2> QED BY <2>1, <2>4, <2>5, <2>6 DEF w2, w3, y
<1>7. W * b \in Nat /\ (W * W) * c \in Nat /\ (W * W * W) * t \in Nat
  BY <1>1, <1>3, <1>4
<1>8. n = (a + W * b + (W * W) * c) + (W * W * W) * t /\ a + W * b + (W * W) * c \in Nat
  BY ONLY <1>2, <1>5, <1>6, <1>7
<1> QED
  BY <1>2, <1>3, <1>4, <1>8 DEF q, r, t, a, b, c
LEMMA ThreeBytes ==
    ASSUME NEW n \in Nat, n < W * W * W
    PROVE  LET q == n \div W r == q \div W
           IN n = (n % W) + W * (q % W) + (W * W) * (r % W)
<1> DEFINE q == n \div W
           r == q \div W
           t == r \div W
           low == (n % W) + W * (q % W) + (W * W) * (r % W)
           big == W * W * W
<1>1. t \in Nat /\ n = low + big * t /\ low \in Nat
  BY LowBytes
<1>2. big \in Nat /\ n < big
  BY DiskAssumption
<1> HIDE DEF t, low, big
<1>3. t = 0
  <2>1. SUFFICES ASSUME t >= 1 PROVE FALSE
    BY <1>1
  <2>2. big * (t - 1) >= 0 /\ big * (t - 1) = big * t - big
    BY <1>1, <1>2, <2>1
  <2>3. big * t \in Int
    BY <1>1, <1>2
  <2> QED BY <1>1, <1>2, <2>2, <2>3
<1>4. big * t = 0
  BY <1>3, <1>2
<1>5. n = low
  BY <1>1, <1>4
<1> QED
  BY <1>5 DEF low

LEMMA DecodeLba48 ==
    ASSUME NEW s \in Slots, NEW n \in Nat, n < (W * W * W) * (W * W * W),
           dKind[s] = "lba", n >= (W * W * W) * HeadsLba
    PROVE  Decode(Registers(s, n)) = n
<1> DEFINE q == n \div W
           r == q \div W
           t == r \div W
           u == t \div W
           v == u \div W
           reg == Registers(s, n)
           lba == [i \in 0 .. 5 |-> Digit(n, i)]
           big == W * W * W
<1>1. /\ q \in Nat /\ r \in Nat /\ t \in Nat
      /\ n = ((n % W) + W * (q % W) + (W * W) * (r % W)) + big * t
      /\ (n % W) + W * (q % W) + (W * W) * (r % W) \in Nat
  BY LowBytes
<1>2. big \in Nat /\ big # 0
  BY DiskAssumption
<1>3. t < big
  <2>1. SUFFICES ASSUME t >= big PROVE FALSE
    BY <1>1, <1>2
  <2> HIDE DEF t, big
  <2>2. big * (t - big) >= 0 /\ big * (t - big) = big * t - big * big
    BY <1>1, <1>2, <2>1
  <2>3. n >= big * t /\ big * t \in Int /\ big * big \in Int
    BY <1>1, <1>2
  <2>4. n < big * big
    BY DEF big
  <2> QED BY <2>2, <2>3, <2>4
<1>4. t = (t % W) + W * (u % W) + (W * W) * (v % W)
  <2> HIDE DEF t
  <2> QED BY <1>1, <1>3, ThreeBytes DEF big, u, v
<1>5. reg = [mode |-> "lba48", head |-> 0, lba |-> lba]
  BY DEF Registers
<1>6. /\ lba[0] = (n % W) /\ lba[1] = q % W /\ lba[2] = r % W
      /\ lba[3] = (t % W) /\ lba[4] = u % W /\ lba[5] = v % W
  BY DEF Digit, Shifted
<1> HIDE DEF lba, reg
<1>7. Decode(reg) = Low(lba) + big * Low([i \in 0 .. 2 |-> lba[i + 3]])
  BY <1>5 DEF Decode
<1>8. Low(lba) = (n % W) + W * (q % W) + (W * W) * (r % W)
  BY <1>6 DEF Low
<1>9. Low([i \in 0 .. 2 |-> lba[i + 3]]) = t
  <2>1. Low([i \in 0 .. 2 |-> lba[i + 3]]) = (t % W) + W * (u % W) + (W * W) * (v % W)
    <3> HIDE DEF q, r, t, u, v
    <3> QED BY <1>6 DEF Low
  <2> QED BY <2>1, <1>4
<1> QED
  BY <1>1, <1>7, <1>8, <1>9 DEF reg
LEMMA DecodeLba28 ==
    ASSUME NEW s \in Slots, NEW n \in Nat, dKind[s] = "lba", ~(n >= (W * W * W) * HeadsLba)
    PROVE  Decode(Registers(s, n)) = n
<1> DEFINE q == n \div W
           r == q \div W
           t == r \div W
           reg == Registers(s, n)
           lba == [i \in 0 .. 5 |-> IF i < 3 THEN Digit(n, i) ELSE 0]
           big == W * W * W
<1>1. /\ q \in Nat /\ r \in Nat /\ t \in Nat
      /\ n = ((n % W) + W * (q % W) + (W * W) * (r % W)) + big * t
      /\ (n % W) + W * (q % W) + (W * W) * (r % W) \in Nat
  BY LowBytes
<1>2. big \in Nat /\ big # 0 /\ HeadsLba \in Nat /\ HeadsLba # 0
  BY DiskAssumption
<1>3. t < HeadsLba
  <2>1. SUFFICES ASSUME t >= HeadsLba PROVE FALSE
    BY <1>1, <1>2
  <2> HIDE DEF t, big
  <2>2. big * (t - HeadsLba) >= 0 /\ big * (t - HeadsLba) = big * t - big * HeadsLba
    BY <1>1, <1>2, <2>1
  <2>3. n >= big * t /\ big * t \in Int /\ big * HeadsLba \in Int
    BY <1>1, <1>2
  <2>4. n < big * HeadsLba
    BY <1>2 DEF big
  <2> QED BY <2>2, <2>3, <2>4
<1>4. (t % HeadsLba) = t
  <2> HIDE DEF t
  <2> QED BY <1>1, <1>2, <1>3
<1>5. reg = [mode |-> "lba28", head |-> (t % HeadsLba), lba |-> lba]
  BY DEF Registers, Shifted
<1>6. lba[0] = (n % W) /\ lba[1] = q % W /\ lba[2] = r % W
  BY DEF Digit, Shifted
<1> HIDE DEF lba, reg
<1>7. Decode(reg) = Low(lba) + big * (t % HeadsLba)
  BY <1>5 DEF Decode
<1>8. Low(lba) = (n % W) + W * (q % W) + (W * W) * (r % W)
  BY <1>6 DEF Low
<1> QED
  BY <1>1, <1>4, <1>7, <1>8 DEF reg
LEMMA DecodeChs ==
    ASSUME NEW s \in Slots, NEW n \in Nat, dKind[s] = "chs", n < ((W * W) * Hpc) * Spt
    PROVE  Decode(Registers(s, n)) = n
<1> DEFINE sec == (n % Spt) + 1
           track == (n + 1 - sec) \div Spt
           c == track \div Hpc
           reg == Registers(s, n)
           lba == [i \in 0 .. 5 |-> IF i = 0 THEN sec ELSE IF i < 3 THEN Digit(c, i - 1) ELSE 0]
<1>1. /\ W \in Nat /\ W # 0 /\ Hpc \in Nat /\ Hpc # 0 /\ Spt \in Nat /\ Spt # 0
  BY DiskAssumption
<1>2. n \div Spt \in Nat /\ (n % Spt) \in 0 .. Spt - 1 /\ n = Spt * (n \div Spt) + (n % Spt)
  BY <1>1, Dividing
<1>3. track = n \div Spt
  <2> DEFINE k == n \div Spt
  <2>1. n + 1 - sec = Spt * k
    <3>1. Spt * k \in Int
      BY <1>1, <1>2
    <3> HIDE DEF k
    <3> QED BY <1>2, <3>1 DEF k
  <2>2. k \in Nat
    BY <1>2
  <2> HIDE DEF k
  <2>3. Spt * k \in Nat
    BY <1>1, <2>2
  <2>4. (Spt * k) \div Spt \in Nat /\ (Spt * k) % Spt \in 0 .. Spt - 1
        /\ Spt * k = Spt * ((Spt * k) \div Spt) + ((Spt * k) % Spt)
    BY <1>1, <2>3, Dividing
  <2>5. (Spt * k) \div Spt = k
    BY <1>1, <2>2
  <2> QED BY <2>1, <2>5 DEF k
<1>4. track \in Nat /\ n = Spt * track + (n % Spt) /\ (n % Spt) \in Nat
  BY <1>2, <1>3
<1>5. track < (W * W) * Hpc
  <2>1. (W * W) * Hpc \in Nat /\ n < Spt * ((W * W) * Hpc)
    BY <1>1
  <2>2. n \div Spt < (W * W) * Hpc
    BY <1>1, <2>1, QuotientBelow
  <2> QED BY <2>2, <1>3
<1> HIDE DEF sec, track
<1>60. c \in Nat /\ (track % Hpc) \in 0 .. Hpc - 1 /\ track = Hpc * c + (track % Hpc)
  BY <1>1, <1>4, Dividing
<1>6. c \in Nat /\ (track % Hpc) \in Nat /\ track = Hpc * c + (track % Hpc)
  BY <1>60, <1>1
<1>7. c < W * W
  <2>1. W * W \in Nat /\ track < Hpc * (W * W)
    BY <1>1, <1>5
  <2> QED BY <1>1, <1>4, <2>1, QuotientBelow
<1> DEFINE d == c \div W
<1>71. c = (c % W) + W * (d % W)
  <2> HIDE DEF c
  <2>10. d \in Nat /\ (c % W) \in 0 .. W - 1 /\ c = W * d + (c % W)
    BY <1>1, <1>6, Dividing
  <2>1. d \in Nat /\ (c % W) \in Nat /\ c = W * d + (c % W)
    BY <2>10, <1>1
  <2>2. d < W
    BY <1>1, <1>6, <1>7, QuotientBelow
  <2> HIDE DEF d
  <2>3. d % W = d
    BY <1>1, <2>1, <2>2
  <2>4. W * d \in Int
    BY <1>1, <2>1
  <2> QED BY <2>1, <2>3, <2>4
<1>8. reg = [mode |-> "chs", head |-> (track % Hpc), lba |-> lba]
  BY DEF Registers, sec, track
<1>9. lba[0] = sec /\ lba[1] = (c % W) /\ lba[2] = d % W
  BY DEF Digit, Shifted
<1> HIDE DEF lba, reg, c, d
<1>10. Decode(reg) = ((lba[1] + W * lba[2]) * Hpc + (track % Hpc)) * Spt + lba[0] - 1
  BY <1>8 DEF Decode
<1>11. Decode(reg) = (c * Hpc + (track % Hpc)) * Spt + sec - 1
  BY <1>10, <1>9, <1>71
<1>12. c * Hpc + (track % Hpc) = track
  BY <1>6, <1>1
<1>13. Decode(reg) = track * Spt + sec - 1
  BY <1>11, <1>12
<1>14. track * Spt = Spt * track /\ Spt * track \in Int
  BY <1>1, <1>4
<1>15. sec = (n % Spt) + 1
  BY DEF sec
<1> QED
  BY <1>4, <1>13, <1>14, <1>15 DEF reg
LEMMA RegistersRight ==
    ASSUME NEW s \in Slots, NEW n \in Nat, n < DSize, dKind \in DHardware, IsAta(s)
    PROVE  Decode(Registers(s, n)) = n
<1>1. DSize \in Nat /\ DSize <= (W * W * W) * (W * W * W) /\ (W * W * W) * (W * W * W) \in Nat
  BY DiskAssumption
<1>2. CASE dKind[s] = "chs"
  <2>1. DSize <= ((W * W) * Hpc) * Spt /\ ((W * W) * Hpc) * Spt \in Nat
    BY DiskAssumption, <1>2
  <2>2. n < ((W * W) * Hpc) * Spt
    BY <1>1, <2>1
  <2> QED BY <1>2, <2>2, DecodeChs
<1>3. CASE dKind[s] = "lba"
  <2>1. n < (W * W * W) * (W * W * W)
    BY <1>1
  <2> QED BY <1>3, <2>1, DecodeLba28, DecodeLba48
<1> QED
  BY <1>2, <1>3 DEF IsAta

\* A driver in /dev leads to a disk that is there.
DriverOK(d) == d.slot \in Slots /\ IsAta(d.slot) /\ d.offset \in Nat
IoStates == {IoIdle} \cup [pc : {"prepare", "address", "command", "transfer"}, op : {"read", "write"},
                           drv : dDrivers, sect : Nat, val : Nat]
\* How far a transfer is: the wires, the registers and the command of its channel
\* are about the sector that the driver stands for.
IoOK(io) ==
    /\ io.pc \in {"address", "command", "transfer"} => Target(io) < DSize
    /\ io.pc = "command" => /\ dHwSel[Cha(io.drv.slot)] = io.drv.slot
                            /\ dReg[Cha(io.drv.slot)] = Registers(io.drv.slot, Target(io))
    /\ io.pc = "transfer" => dCmd[Cha(io.drv.slot)] = [op |-> io.op, slot |-> io.drv.slot, sect |-> Target(io)]
DiskTyped ==
    /\ dKind \in DHardware /\ dTable \in DTables
    /\ dHwSel \in [0 .. 1 -> Slots] /\ DOMAIN dReg = 0 .. 1 /\ DOMAIN dCmd = 0 .. 1
    /\ DOMAIN dSel = 0 .. 1 /\ DOMAIN dDevs = Slots
    /\ dBoot \in 0 .. 6 /\ dWrites \in Nat
    /\ dIo \in [DProcs -> IoStates]
\* The drive that answers IDENTIFY is the one of the slot: the first three find
\* their channel not yet selected, and the fourth does not seem to be.
Booting ==
    /\ dBoot = 0 => dSel[0] = "unknown"
    /\ dBoot \in 0 .. 2 => dSel[1] = "unknown"
    /\ dBoot \in 0 .. 3 => dHwSel[1] = 2
    /\ \A s \in Slots : s < dBoot => dDevs[s] = IdentifyAnswer(dKind[s])
    /\ dBoot < 6 => \A p \in DProcs : dIo[p] = IoIdle
DiskInv ==
    /\ DiskTyped /\ Booting
    /\ \A d \in dDrivers : DriverOK(d)
    /\ \A p \in DProcs : IoOK(dIo[p])
    /\ \A p, q \in DProcs : p # q => dIo[p].pc = "idle" \/ dIo[q].pc = "idle"
    /\ dMedia = dRef /\ dResult[1] = dResult[2]

LEMMA SlotArithmetic ==
    /\ Cha(0) = 0 /\ Cha(1) = 0 /\ Cha(2) = 1 /\ Cha(3) = 1
    /\ Ra(0) = "master" /\ Ra(1) = "slave" /\ Ra(2) = "master" /\ Ra(3) = "slave"
    /\ Slots = {0, 1, 2, 3}
<1>1. 0 \div 2 = 0 /\ 1 \div 2 = 0 /\ 2 \div 2 = 1 /\ 3 \div 2 = 1
  OBVIOUS
<1>2. 0 % 2 = 0 /\ 1 % 2 = 1 /\ 2 % 2 = 0 /\ 3 % 2 = 1
  OBVIOUS
<1> QED
  BY <1>1, <1>2 DEF Cha, Ra, Slots
LEMMA ChannelOf == ASSUME NEW s \in Slots PROVE Cha(s) \in 0 .. 1
  BY SlotArithmetic

LEMMA DiskStarts == ASSUME "slave" \notin Beyond PROVE DiskInit => DiskInv
<1> SUFFICES ASSUME DiskInit PROVE DiskInv
  OBVIOUS
<1>1. DiskTyped
  <2>1. dHwSel \in [0 .. 1 -> Slots]
    BY DEF DiskInit, Slots
  <2>2. dIo \in [DProcs -> IoStates]
    BY DEF DiskInit, IoStates
  <2> QED BY <2>1, <2>2 DEF DiskInit, DiskTyped
<1>2. Booting
  BY DEF DiskInit, Booting, Slots
<1>3. \A p \in DProcs : dIo[p].pc = "idle"
  BY DEF DiskInit, IoIdle
<1>4. dDrivers = {} /\ dMedia = dRef /\ dResult[1] = dResult[2]
  BY DEF DiskInit
<1>5. \A p \in DProcs : IoOK(dIo[p])
  BY <1>3 DEF IoOK
<1> QED
  BY <1>1, <1>2, <1>3, <1>4, <1>5 DEF DiskInv

LEMMA Unswitched ==
    ASSUME NEW s \in Slots, NEW seen, SwitchDevice(s, seen), dHwSel \in [0 .. 1 -> Slots]
    PROVE  /\ seen # Ra(s) => dHwSel' = [dHwSel EXCEPT ![Cha(s)] = s] /\ dHwSel'[Cha(s)] = s
           /\ seen = Ra(s) => dHwSel' = dHwSel
           /\ dHwSel' \in [0 .. 1 -> Slots]
           /\ DOMAIN dSel = 0 .. 1 => DOMAIN dSel' = 0 .. 1
           /\ \A c \in 0 .. 1 : c # Cha(s) /\ DOMAIN dSel = 0 .. 1 => dSel'[c] = dSel[c] /\ dHwSel'[c] = dHwSel[c]
  BY ChannelOf DEF SwitchDevice

LEMMA Configured ==
    ASSUME "slave" \notin Beyond, DiskInv, ConfigureDevice
    PROVE  DiskInv'
<1> DEFINE s == dBoot
<1>1. PICK seen \in SeenRanks(s) : SwitchDevice(s, seen)
  BY DEF ConfigureDevice
<1>2. /\ s \in Slots /\ dBoot' = s + 1
      /\ dDevs' = [dDevs EXCEPT ![s] = IdentifyAnswer(dKind[dHwSel'[Cha(s)]])]
      /\ UNCHANGED <<dKind, dTable, dDrivers, dReg, dCmd, dMedia, dIo, dRef, dResult, dWrites>>
  BY DEF ConfigureDevice
<1>3. DiskTyped /\ Booting
  BY DEF DiskInv
<1>4. dBoot < 6 /\ s \in 0 .. 3
  BY <1>2 DEF Slots
<1>5. \A p \in DProcs : dIo[p] = IoIdle
  BY <1>3, <1>4 DEF Booting
<1>6. /\ seen # Ra(s) => dHwSel'[Cha(s)] = s
      /\ seen = Ra(s) => dHwSel' = dHwSel
      /\ dHwSel' \in [0 .. 1 -> Slots] /\ DOMAIN dSel' = 0 .. 1
      /\ \A c \in 0 .. 1 : c # Cha(s) => dSel'[c] = dSel[c] /\ dHwSel'[c] = dHwSel[c]
  BY <1>1, <1>2, <1>3, Unswitched DEF DiskTyped
<1>7. dHwSel'[Cha(s)] = s /\ (s \in {0, 1, 2} => dHwSel'[1] = 2) /\ (s = 0 \/ s = 1 => dSel'[1] = "unknown")
  <2>1. CASE s = 0
    <3>1. seen = "unknown" /\ dSel[1] = "unknown" /\ dHwSel[1] = 2
      BY <2>1, <1>1, <1>3 DEF SeenRanks, Booting
    <3> QED BY <2>1, <3>1, <1>6, SlotArithmetic
  <2>2. CASE s = 1
    <3>1. seen = "unknown" /\ dSel[1] = "unknown" /\ dHwSel[1] = 2
      BY <2>2, <1>1, <1>3 DEF SeenRanks, Booting
    <3> QED BY <2>2, <3>1, <1>6, SlotArithmetic
  <2>3. CASE s = 2
    <3>1. dHwSel[1] = 2
      BY <2>3, <1>3 DEF Booting
    <3> QED BY <2>3, <3>1, <1>6, SlotArithmetic
  <2>4. CASE s = 3
    <3>1. seen # "slave"
      BY <2>4, <1>1 DEF SeenRanks
    <3> QED BY <2>4, <3>1, <1>6, SlotArithmetic
  <2> QED BY <1>4, <2>1, <2>2, <2>3, <2>4
<1>8. DiskTyped'
  <2>1. dBoot' \in 0 .. 6 /\ DOMAIN dDevs' = Slots
    BY <1>2, <1>3, <1>4 DEF DiskTyped
  <2>2. IoStates' = IoStates
    BY <1>2 DEF IoStates
  <2> QED BY <2>1, <2>2, <1>2, <1>3, <1>6 DEF DiskTyped
<1>9. Booting'
  <2>1. \A t \in Slots : t < dBoot' => dDevs'[t] = IdentifyAnswer(dKind'[t])
    <3> SUFFICES ASSUME NEW t \in Slots, t < s + 1 PROVE dDevs'[t] = IdentifyAnswer(dKind[t])
      BY <1>2
    <3>1. t = s \/ t < s
      BY <1>4 DEF Slots
    <3> QED BY <3>1, <1>2, <1>3, <1>7 DEF Booting, DiskTyped
  <2>2. (dBoot' \in 0 .. 2 => s = 0 \/ s = 1) /\ (dBoot' \in 0 .. 3 => s \in {0, 1, 2}) /\ dBoot' # 0
    BY <1>2, <1>4
  <2> QED BY <2>1, <2>2, <1>2, <1>5, <1>7 DEF Booting
<1>10. \A p \in DProcs : dIo'[p].pc = "idle"
  BY <1>2, <1>5 DEF IoIdle
<1>11. \A p \in DProcs : IoOK(dIo[p])'
  BY <1>10 DEF IoOK
<1>12. \A d \in dDrivers' : DriverOK(d)'
  BY <1>2 DEF DiskInv, DriverOK, IsAta
<1> QED
  BY <1>2, <1>8, <1>9, <1>10, <1>11, <1>12 DEF DiskInv

LEMMA NumberedLba ==
    ASSUME NEW e, NEW keep, NEW x \in Numbered(e, keep)
    PROVE  \E i \in keep : x.lba = e[i].lba
<1> DEFINE rank(i) == Cardinality({j \in keep : j <= i})
<1>1. PICK i \in keep : x = [part |-> rank(i), lba |-> e[i].lba, sects |-> e[i].sects]
  BY Zenon DEF Numbered
<1> HIDE DEF rank
<1> QED
  BY <1>1
\* Every entry of a partition table that is kept begins at a sector of the disk.
LEMMA PartitionsOK ==
    ASSUME dKind \in DHardware, dTable \in DTables, NEW s \in Slots, IsAta(s), NEW d \in PartitionDrivers(s)
    PROVE  DriverOK(d)
<1> DEFINE t == dTable[s]
           h == t.gpt[1]
           e == [i \in DOMAIN h.entries |-> GptEntryOf(h.entries[i])]
<1>1. /\ \A i \in DOMAIN t.mbr : t.mbr[i] \in MbrEntries
      /\ \A n \in DOMAIN t.gpt : \A i \in DOMAIN t.gpt[n].entries : t.gpt[n].entries[i] \in GptEntries
  BY DiskAssumption
<1>2. PICK x \in Entries(t) : d.slot = s /\ d.offset = x.lba
  BY DEF PartitionDrivers
<1> SUFFICES x.lba \in Nat
  BY <1>2 DEF DriverOK
<1>3. CASE ~IsGpt(t)
  <2>1. x \in Numbered(t.mbr, PartitionTable(t))
    BY <1>2, <1>3 DEF Entries
  <2>2. PICK i \in PartitionTable(t) : x.lba = t.mbr[i].lba
    BY <2>1, NumberedLba
  <2>3. i \in DOMAIN t.mbr
    BY <2>2 DEF PartitionTable
  <2> QED BY <2>2, <2>3, <1>1 DEF MbrEntries
<1>4. CASE IsGpt(t)
  <2>1. GptValid(t) /\ x \in ReadGpt(t, 1).table
    BY <1>2, <1>4 DEF Entries
  <2>2. 1 \in DOMAIN t.gpt
    BY <2>1 DEF GptValid, ReadGpt
  <2>3. x \in Numbered(e, {i \in DOMAIN e : GptEntryValid(e[i])})
    BY <2>1, <2>2 DEF ReadGpt
  <2>4. PICK i \in DOMAIN e : x.lba = e[i].lba
    BY <2>3, NumberedLba
  <2>5. x.lba = h.entries[i].first /\ h.entries[i] \in GptEntries
    BY <2>4, <2>2, <1>1 DEF GptEntryOf
  <2> QED BY <2>5 DEF GptEntries
<1> QED
  BY <1>3, <1>4

LEMMA DriversAdded ==
    ASSUME DiskInv, AddDrivers \/ ReadPartitionTables
    PROVE  DiskInv'
<1>1. /\ dBoot \in {4, 5} /\ dBoot' = dBoot + 1
      /\ UNCHANGED <<dKind, dTable, dHwSel, dSel, dDevs, dReg, dCmd, dMedia, dIo, dRef, dResult, dWrites>>
  BY DEF AddDrivers, ReadPartitionTables
<1>2. DiskTyped /\ Booting
  BY DEF DiskInv
<1>3. \A p \in DProcs : dIo[p] = IoIdle
  BY <1>1, <1>2 DEF Booting
<1>4. DiskTyped'
  <2>1. dIo' \in [DProcs -> IoStates']
    BY <1>1, <1>2, <1>3 DEF DiskTyped, IoStates
  <2> QED BY <2>1, <1>1, <1>2 DEF DiskTyped
<1>5. \A s \in Slots : dDevs[s] = IdentifyAnswer(dKind[s])
  <2>1. \A s \in Slots : s < dBoot
    BY <1>1 DEF Slots
  <2> QED BY <2>1, <1>2 DEF Booting
<1>6. Booting'
  BY <1>1, <1>3, <1>5 DEF Booting
<1>7. \A d \in dDrivers' : DriverOK(d)
  <2>1. CASE AddDrivers
    <3> SUFFICES ASSUME NEW s \in Slots, dDevs[s] = "ata" PROVE DriverOK(RawDriver(s))
      BY <2>1 DEF AddDrivers
    <3>1. dKind[s] \in {"none", "lba", "chs", "atapi"}
      BY <1>2, DiskAssumption DEF DiskTyped
    <3>2. IsAta(s)
      BY <3>1, <1>5 DEF IdentifyAnswer, IsAta
    <3> QED BY <3>2 DEF RawDriver, DriverOK
  <2>2. CASE ReadPartitionTables
    <3> SUFFICES ASSUME NEW x \in dDrivers, NEW d \in PartitionDrivers(x.slot) PROVE DriverOK(d)
      BY <2>2 DEF ReadPartitionTables, DiskInv
    <3>1. DriverOK(x)
      BY DEF DiskInv
    <3> QED BY <3>1, <1>2, PartitionsOK DEF DriverOK, DiskTyped
  <2> QED BY <2>1, <2>2
<1>8. \A d \in dDrivers' : DriverOK(d)'
  BY <1>1, <1>7 DEF DriverOK, IsAta
<1>9. \A p \in DProcs : dIo'[p].pc = "idle"
  BY <1>1, <1>3 DEF IoIdle
<1>10. \A p \in DProcs : IoOK(dIo[p])'
  BY <1>9 DEF IoOK
<1> QED
  BY <1>1, <1>4, <1>6, <1>8, <1>9, <1>10 DEF DiskInv

\* A step of one transfer: the others are idle, and the boot is over.
LEMMA TransferStep ==
    ASSUME DiskInv, ~DPreempt, NEW p \in DProcs, Turn(p), dBoot = 6,
           UNCHANGED <<diskStatic, diskBootVars>>,
           dHwSel' \in [0 .. 1 -> Slots], DOMAIN dSel' = 0 .. 1, DOMAIN dReg' = 0 .. 1, DOMAIN dCmd' = 0 .. 1,
           dWrites' \in Nat, NEW io \in IoStates, dIo' = [dIo EXCEPT ![p] = io], IoOK(io)',
           dMedia' = dRef', dResult'[1] = dResult'[2]
    PROVE  DiskInv'
<1>1. DiskTyped /\ Booting
  BY DEF DiskInv
<1>2. /\ dIo \in [DProcs -> IoStates] /\ dIo'[p] = io
      /\ \A q \in DProcs \ {p} : dIo'[q] = dIo[q] /\ dIo[q].pc = "idle"
  BY <1>1 DEF DiskTyped, Turn
<1>3. DiskTyped'
  <2>1. IoStates' = IoStates
    BY DEF IoStates, diskBootVars
  <2> QED BY <2>1, <1>1, <1>2 DEF DiskTyped, diskStatic, diskBootVars
<1>4. Booting'
  <2>1. \A s \in Slots : s < 6
    BY DEF Slots
  <2> QED BY <2>1, <1>1 DEF Booting, diskStatic, diskBootVars
<1>5. \A q \in DProcs : IoOK(dIo[q])'
  <2> TAKE q \in DProcs
  <2>1. CASE q = p
    BY <2>1, <1>2
  <2>2. CASE q # p
    BY <2>2, <1>2 DEF IoOK
  <2> QED BY <2>1, <2>2
<1>6. \A d \in dDrivers' : DriverOK(d)'
  BY DEF DiskInv, DriverOK, IsAta, diskStatic, diskBootVars
<1> QED
  BY <1>2, <1>3, <1>4, <1>5, <1>6 DEF DiskInv

LEMMA IoType ==
    ASSUME DiskInv, NEW p \in DProcs, dIo[p].pc # "idle"
    PROVE  /\ dBoot = 6
           /\ dIo[p] \in [pc : {"prepare", "address", "command", "transfer"}, op : {"read", "write"},
                          drv : dDrivers, sect : Nat, val : Nat]
           /\ DriverOK(dIo[p].drv) /\ Target(dIo[p]) \in Nat
<1>1. dIo[p] \in IoStates /\ dBoot \in 0 .. 6 /\ dIo[p] # IoIdle
  BY DEF DiskInv, DiskTyped, IoIdle
<1>2. dIo[p] \in [pc : {"prepare", "address", "command", "transfer"}, op : {"read", "write"},
                          drv : dDrivers, sect : Nat, val : Nat]
  BY <1>1 DEF IoStates
<1>3. DriverOK(dIo[p].drv) /\ dIo[p].sect \in Nat
  BY <1>2 DEF DiskInv
<1>4. dBoot = 6
  BY <1>1 DEF DiskInv, Booting
<1> QED
  BY <1>2, <1>3, <1>4 DEF DriverOK, Target

LEMMA Transfers ==
    ASSUME DiskInv, ~DPreempt, NEW p \in DProcs,
           \/ \E op \in {"read", "write"}, drv \in dDrivers, sect \in DSectors : StartIo(p, op, drv, sect)
           \/ PrepareIo(p) \/ WriteAddress(p) \/ SendCommand(p) \/ TransferData(p)
    PROVE  DiskInv'
<1> DEFINE io == dIo[p]
           s == io.drv.slot
<1>1. DiskTyped /\ dMedia = dRef /\ dResult[1] = dResult[2]
  BY DEF DiskInv
<1>2. IoIdle \in IoStates /\ IoOK(IoIdle)'
  BY DEF IoStates, IoIdle, IoOK
<1>3. ASSUME NEW op \in {"read", "write"}, NEW drv \in dDrivers, NEW sect \in DSectors, StartIo(p, op, drv, sect)
      PROVE  DiskInv'
  <2>1. /\ dBoot = 6 /\ Turn(p) /\ dWrites' \in Nat
        /\ dIo' = [dIo EXCEPT ![p] = [pc |-> "prepare", op |-> op, drv |-> drv, sect |-> sect, val |-> dWrites']]
        /\ UNCHANGED <<diskStatic, diskBootVars, dHwSel, dSel, dReg, dCmd, dMedia, dRef, dResult>>
    BY <1>1, <1>3 DEF StartIo, DiskTyped
  <2>2. PICK new \in IoStates :
            new = [pc |-> "prepare", op |-> op, drv |-> drv, sect |-> sect, val |-> dWrites']
    BY <2>1, DiskAssumption DEF IoStates
  <2>3. IoOK(new)'
    BY <2>2 DEF IoOK
  <2> QED
    BY <1>1, <2>1, <2>2, <2>3, TransferStep DEF DiskTyped
<1> DEFINE moved(pc) == [pc |-> pc, op |-> io.op, drv |-> io.drv, sect |-> io.sect, val |-> io.val]
<1>4. ASSUME io.pc # "idle", NEW pc \in {"address", "command", "transfer"}
      PROVE  /\ moved(pc) \in IoStates /\ [io EXCEPT !.pc = pc] = moved(pc)
             /\ s \in Slots /\ IsAta(s) /\ Target(io) \in Nat
             /\ Cha(s) \in 0 .. 1 /\ dBoot = 6
  <2>1. io \in [pc : {"prepare", "address", "command", "transfer"}, op : {"read", "write"},
                drv : dDrivers, sect : Nat, val : Nat] /\ DriverOK(io.drv) /\ Target(io) \in Nat /\ dBoot = 6
    BY <1>4, IoType
  <2>2. moved(pc) \in IoStates /\ [io EXCEPT !.pc = pc] = moved(pc)
    BY <2>1 DEF IoStates
  <2> QED BY <2>1, <2>2, ChannelOf DEF DriverOK
<1>5. CASE PrepareIo(p)
  <2>1. /\ io.pc = "prepare" /\ Turn(p)
        /\ UNCHANGED <<diskStatic, diskBootVars, dReg, dCmd, dMedia, dRef, dResult, dWrites>>
    BY <1>5 DEF PrepareIo
  <2>2. CASE Target(io) >= DSize
    <3>1. dIo' = [dIo EXCEPT ![p] = IoIdle] /\ UNCHANGED <<dHwSel, dSel>>
      BY <1>5, <2>2 DEF PrepareIo, IoDone
    <3> QED BY <1>1, <1>2, <1>4, <2>1, <3>1, TransferStep DEF DiskTyped
  <2>3. CASE ~(Target(io) >= DSize)
    <3>1. /\ dIo' = [dIo EXCEPT ![p].pc = "address"]
          /\ \E seen \in SeenRanks(s) : SwitchDevice(s, seen)
      BY <1>5, <2>3 DEF PrepareIo
    <3>0. PICK new \in IoStates : new = moved("address")
      BY <2>1, <1>4
    <3>2. dIo' = [dIo EXCEPT ![p] = new]
      BY <3>0, <3>1, <2>1, <1>1, <1>4 DEF DiskTyped
    <3>3. dHwSel' \in [0 .. 1 -> Slots] /\ DOMAIN dSel' = 0 .. 1
      BY <3>1, <2>1, <1>1, <1>4, Unswitched DEF DiskTyped
    <3>4. Target(io) < DSize
      BY <2>3, <2>1, <1>4, DiskAssumption
    <3>5. IoOK(new)'
      BY <3>0, <3>4 DEF IoOK, Target
    <3> HIDE DEF moved
    <3> QED BY <1>1, <1>4, <2>1, <3>2, <3>3, <3>5, TransferStep DEF DiskTyped
  <2> QED BY <2>2, <2>3
<1>6. CASE WriteAddress(p)
  <2>1. /\ io.pc = "address" /\ Turn(p)
        /\ dHwSel' = [dHwSel EXCEPT ![Cha(s)] = s]
        /\ dReg' = [dReg EXCEPT ![Cha(s)] = Registers(s, Target(io))]
        /\ dIo' = [dIo EXCEPT ![p].pc = "command"]
        /\ UNCHANGED <<diskStatic, diskBootVars, dSel, dCmd, dMedia, dRef, dResult, dWrites>>
    BY <1>6 DEF WriteAddress
  <2>0. PICK new \in IoStates : new = moved("command")
    BY <2>1, <1>4
  <2>2. dIo' = [dIo EXCEPT ![p] = new]
    BY <2>0, <2>1, <1>1, <1>4 DEF DiskTyped
  <2>3. dHwSel' \in [0 .. 1 -> Slots] /\ DOMAIN dReg' = 0 .. 1 /\ dHwSel'[Cha(s)] = s
        /\ dReg'[Cha(s)] = Registers(s, Target(io))
    BY <2>1, <1>1, <1>4 DEF DiskTyped
  <2>5. Target(io) < DSize
    BY <2>1 DEF DiskInv, IoOK
  <2>6. \A t, n : Registers(t, n)' = Registers(t, n)
    BY <2>1 DEF Registers, diskStatic
  <2>8. new.drv.slot = s /\ Target(new) = Target(io) /\ new.pc = "command"
    BY <2>0 DEF Target
  <2>7. IoOK(new)'
    <3>1. Target(new) < DSize
      BY <2>8, <2>5
    <3>2. dHwSel'[Cha(new.drv.slot)] = new.drv.slot
          /\ dReg'[Cha(new.drv.slot)] = Registers(new.drv.slot, Target(new))'
      BY <2>8, <2>3, <2>6
    <3> QED BY <3>1, <3>2, <2>8 DEF IoOK
  <2> QED BY <1>1, <1>4, <2>1, <2>2, <2>3, <2>7, TransferStep DEF DiskTyped
<1>7. CASE SendCommand(p)
  <2> DEFINE c == Cha(s)
             cmd == [op |-> io.op, slot |-> dHwSel[c], sect |-> Decode(dReg[c])]
  <2>1. /\ io.pc = "command" /\ Turn(p)
        /\ dCmd' = [dCmd EXCEPT ![c] = cmd]
        /\ (dIo' = [dIo EXCEPT ![p].pc = "transfer"]) \/ (dIo' = [dIo EXCEPT ![p] = IoIdle])
        /\ UNCHANGED <<diskStatic, diskBootVars, dHwSel, dSel, dReg, dMedia, dRef, dResult, dWrites>>
    BY <1>7 DEF SendCommand, IoDone
  <2>2. Target(io) < DSize /\ dHwSel[c] = s /\ dReg[c] = Registers(s, Target(io))
    BY <2>1 DEF DiskInv, IoOK
  <2>3. cmd = [op |-> io.op, slot |-> s, sect |-> Target(io)]
    BY <2>1, <2>2, <1>1, <1>4, RegistersRight DEF DiskTyped
  <2>4. DOMAIN dCmd' = 0 .. 1 /\ dCmd'[c] = [op |-> io.op, slot |-> s, sect |-> Target(io)]
    BY <2>1, <2>3, <1>1, <1>4 DEF DiskTyped
  <2>5. CASE dIo' = [dIo EXCEPT ![p] = IoIdle]
    BY <1>1, <1>2, <1>4, <2>1, <2>4, <2>5, TransferStep DEF DiskTyped
  <2>6. CASE dIo' = [dIo EXCEPT ![p].pc = "transfer"]
    <3>0. PICK new \in IoStates : new = moved("transfer")
      BY <2>1, <1>4
    <3>1. dIo' = [dIo EXCEPT ![p] = new]
      BY <3>0, <2>6, <2>1, <1>1, <1>4 DEF DiskTyped
    <3>2. IoOK(new)'
      <4>1. new.drv.slot = s /\ Target(new) = Target(io) /\ new.pc = "transfer" /\ new.op = io.op
        BY <3>0 DEF Target
      <4>2. dCmd'[Cha(new.drv.slot)] = [op |-> new.op, slot |-> new.drv.slot, sect |-> Target(new)]
        BY <4>1, <2>4
      <4> QED BY <4>1, <4>2, <2>2 DEF IoOK
    <3> QED BY <1>1, <1>4, <2>1, <2>4, <3>1, <3>2, TransferStep DEF DiskTyped
  <2> QED BY <2>1, <2>5, <2>6
<1>8. CASE TransferData(p)
  <2> DEFINE cmd == dCmd[Cha(s)]
  <2>1. /\ io.pc = "transfer" /\ Turn(p) /\ dIo' = [dIo EXCEPT ![p] = IoIdle]
        /\ UNCHANGED <<diskStatic, diskBootVars, dHwSel, dSel, dReg, dCmd, dWrites>>
    BY <1>8 DEF TransferData, IoDone
  <2>2. cmd = [op |-> io.op, slot |-> s, sect |-> Target(io)]
    BY <2>1 DEF DiskInv, IoOK
  <2>3. cmd.op = io.op /\ cmd.slot = s /\ cmd.sect = io.drv.offset + io.sect
    BY <2>2 DEF Target
  <2>4. dMedia' = dRef' /\ dResult'[1] = dResult'[2]
    <3>1. CASE io.op = "read"
      BY <3>1, <2>3, <1>1, <1>8 DEF TransferData
    <3>2. CASE io.op # "read"
      <4>1. io.op = "write"
        BY <3>2, <2>1, IoType
      <4> QED BY <4>1, <2>3, <1>1, <1>8 DEF TransferData
    <3> QED BY <3>1, <3>2
  <2> QED BY <1>1, <1>2, <1>4, <2>1, <2>4, TransferStep DEF DiskTyped
<1> QED
  BY <1>3, <1>5, <1>6, <1>7, <1>8

LEMMA DiskStep ==
    ASSUME ~DPreempt, "slave" \notin Beyond, DiskInv, [DiskNext]_diskVars
    PROVE  DiskInv'
<1>1. CASE UNCHANGED diskVars
  BY <1>1 DEF diskVars, DiskInv, DiskTyped, Booting, DriverOK, IsAta, IoStates, IoOK, Registers
<1>2. CASE DiskNext
  BY <1>2, Configured, DriversAdded, Transfers DEF DiskNext
<1> QED
  BY <1>1, <1>2

\* A transfer reaches the sector its driver stands for: whatever is plugged in,
\* however the disks are partitioned and however sectors are numbered, a read
\* delivers what was last written there, as long as no tick comes between the
\* steps of a transfer and what lies behind channels does not say "slave"
\* (IdeController::set_channel_device, IdeController::pio_lba and pio_chs).
THEOREM SectorsFaithful ==
    ASSUME ~DPreempt, "slave" \notin Beyond
    PROVE  DiskSpec => []DiskFaithful
<1>1. DiskInv => DiskFaithful
  BY DEF DiskInv, DriverOK, DiskFaithful
<1> QED
  BY <1>1, DiskStarts, DiskStep, PTL DEF DiskSpec
==============================================================================
