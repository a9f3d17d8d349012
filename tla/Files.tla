-------------------------------- MODULE Files --------------------------------
(***************************************************************************)
(* The FILE objects with a position and a buffer: BlockFile (a raw block   *)
(* device, kernel/cpp/File.cpp), Ext2File (kernel/cpp/Ext.cpp) and         *)
(* MemoryFile, one of them at a time, against a reference: the array of    *)
(* bytes the caller has written and the position the calls add up to.      *)
(*                                                                         *)
(* A write stores n copies of one byte.  Blocks are those of the file, so  *)
(* the block map of ext2 is the identity here (module Ext2 has the real    *)
(* one) and allocation succeeds.                                           *)
(***************************************************************************)
EXTENDS Integers, FiniteSets, FiniteSetsExt

CONSTANTS
    Kinds,      \* kinds of file looked at: "block", "ext2", "memory"
    S,          \* sector_size or block_size
    Size,       \* bytes of the device; bound on the size of a file
    Bytes,      \* the bytes written
    Lens,       \* the lengths of reads and writes
    EndOffsets, \* offsets used with SEEK_END
    Careful     \* do callers avoid what is listed at CarefulWrite?

\* A device is a whole number of sectors.
ASSUME FilesAssumption ==
    /\ Kinds \subseteq {"block", "ext2", "memory"}
    /\ S \in Nat \ {0} /\ Size \in Nat /\ Size % S = 0
    /\ Lens \subseteq Nat \ {0} /\ EndOffsets \subseteq Int /\ Careful \in BOOLEAN

Old == "old"       \* what the medium holds before anything is written
Junk == "junk"     \* memory nobody initialised
At == 0 .. Size - 1

VARIABLES
    kind,
    dev,       \* the medium
    buf, cur,  \* the buffer; BlockFile::current
    pos, sz,   \* position, DiskFile::sz or MemoryFile::file_size
    ref, rpos, \* the reference contents and position
    got, want, \* what the last read delivered and what it should have
    last       \* the last call
vars == <<kind, dev, buf, cur, pos, sz, ref, rpos, got, want, last>>

Block(p) == p \div S
Sector(d, b) == [i \in 0 .. S - 1 |-> d[b * S + i]]
PutSector(d, b, s, n) == [a \in At |-> IF Block(a) = b /\ a % S < n THEN s[a % S] ELSE d[a]]
Fill(d, from, n, v) == [a \in DOMAIN d |-> IF a \in from .. from + n - 1 THEN v ELSE d[a]]
Slice(d, from, n) == [i \in 0 .. n - 1 |-> d[from + i]]

Init ==
    /\ kind \in Kinds
    /\ sz = IF kind = "ext2" THEN 0 ELSE Size
    /\ dev = [a \in At |-> IF kind = "ext2" THEN Junk ELSE Old]
    /\ ref = dev
    /\ buf = [i \in 0 .. S - 1 |-> Junk]
    /\ cur = FALSE
    /\ pos = 0 /\ rpos = 0
    /\ got = <<>> /\ want = <<>>
    /\ last = "open"

\* What the reference sees of a write, a read and a seek.
Wrote(n, v) == /\ ref' = Fill(ref, rpos, n, v)
               /\ rpos' = rpos + n
               /\ last' = "write"
               /\ UNCHANGED <<got, want, kind>>
Seen(n, bytes) == /\ got' = bytes
                  /\ want' = Slice(ref, rpos, n)
                  /\ rpos' = rpos + n
                  /\ last' = "read"
                  /\ UNCHANGED <<ref, sz, kind>>
Moved(p, to) == /\ pos' = p
                /\ rpos' = to
                /\ last' = "flush"
                /\ UNCHANGED <<ref, sz, got, want, kind>>

\* Callers that are careful do not read straight after a write (as the C
\* standard asks), read no further than the end, and with ext2 append only,
\* in pieces that neither fill a block exactly nor leave the one they began in.
CarefulRead(n) == Careful => last # "write" /\ rpos + n <= sz
CarefulWrite(n) ==
    Careful /\ kind = "ext2" =>
        rpos = sz /\ IF pos % S = 0 THEN n % S # 0 ELSE (pos % S) + n < S

-----------------------------------------------------------------------------
(* BlockFile                                                               *)
BlockLoaded == IF cur THEN buf ELSE Sector(dev, Block(pos))

\* Sectors that become full go to the device at once; what is left over is
\* put into the buffer, which then holds its sector.
BlockWrite(n, v) ==
    LET bp == pos % S
        end == pos + n
        first == IF bp # 0 \/ n < S THEN BlockLoaded ELSE buf
        merged == PutSector(dev, Block(pos), first, bp)
        flushed == Fill(merged, pos, Block(end) * S - pos, v)
    IN /\ kind = "block"
       /\ end <= Size
       /\ IF Block(end) = Block(pos)
          THEN /\ buf' = Fill(first, bp, n, v)
               /\ cur' = TRUE
               /\ dev' = dev
          ELSE /\ dev' = flushed
               /\ cur' = (end % S # 0)
               /\ buf' = IF end % S = 0 THEN first
                         ELSE Fill(Sector(flushed, Block(end)), 0, end % S, v)
       /\ pos' = end
       /\ Wrote(n, v)
       /\ UNCHANGED sz
BlockRead(n) ==
    LET end == pos + n
        view == PutSector(dev, Block(pos), BlockLoaded, S)
    IN /\ kind = "block"
       /\ CarefulRead(n)
       /\ end <= Size
       /\ cur' = (end % S # 0)
       /\ buf' = IF end % S = 0 THEN Sector(view, Block(end - 1))
                 ELSE Sector(view, Block(end))
       /\ pos' = end
       /\ Seen(n, Slice(view, pos, n))
       /\ UNCHANGED dev

BlockFlushed == IF cur THEN PutSector(dev, Block(pos), buf, S) ELSE dev
BlockFlush ==
    /\ kind = "block"
    /\ dev' = BlockFlushed
    /\ Moved(pos, rpos)
    /\ UNCHANGED <<buf, cur>>

\* Mutant: the buffer is still taken for current in another sector.
BlockSeekKeeps(p, to) ==
    /\ kind = "block"
    /\ dev' = BlockFlushed
    /\ Moved(p, to)
    /\ UNCHANGED <<buf, cur>>

\* seek flushes first and keeps the buffer when it stays in its sector.
BlockSeek(p, to) ==
    /\ kind = "block"
    /\ dev' = BlockFlushed
    /\ cur' = (cur /\ Block(p) = Block(pos))
    /\ Moved(p, to)
    /\ UNCHANGED buf

-----------------------------------------------------------------------------
(* Ext2File                                                                *)
\* The block a full buffer goes to is computed from the position behind it.
ExtWrite(n, v) ==
    LET bp == pos % S
        w == IF bp = 0 THEN 0 ELSE Min({S - bp, n})
        b1 == IF w = 0 THEN buf ELSE Fill(buf, bp, w, v)
        p1 == pos + w
        d1 == IF w # 0 /\ p1 % S = 0 THEN PutSector(dev, Block(p1), b1, S) ELSE dev
        whole == IF n = w THEN 0 ELSE (n - w - 1) \div S
        d2 == Fill(d1, p1, whole * S, v)
        rest == n - w - whole * S
    IN /\ kind = "ext2"
       /\ CarefulWrite(n)
       /\ rpos + n <= Size
       /\ dev' = d2
       /\ buf' = Fill(b1, 0, rest, v)
       /\ pos' = pos + n
       /\ sz' = Max({sz, pos + n})
       /\ Wrote(n, v)
       /\ UNCHANGED cur

ExtFlushed == PutSector(dev, Block(pos), buf, pos % S)
\* Mutant: the last byte of the buffer is not written.
ExtFlushLess ==
    /\ kind = "ext2"
    /\ dev' = PutSector(dev, Block(pos), buf, (pos % S) - 1)
    /\ Moved(pos, rpos)
    /\ UNCHANGED <<buf, cur>>

ExtFlush ==
    /\ kind = "ext2"
    /\ dev' = ExtFlushed
    /\ Moved(pos, rpos)
    /\ UNCHANGED <<buf, cur>>
\* The rest of the buffer, whole blocks, and the last block by the buffer.
ExtRead(n) ==
    LET bp == pos % S
        d == ExtFlushed
        r == IF bp = 0 THEN 0 ELSE Min({S - bp, n, sz})
        p1 == pos + r
        tail == Min({n - r, sz - p1})
        end == p1 + tail
        lastBlock == Block(end - 1)
    IN /\ kind = "ext2"
       /\ CarefulRead(n)
       /\ rpos + n <= sz
       /\ dev' = d
       /\ buf' = IF tail > 0 THEN [i \in 0 .. S - 1 |->
                                     IF lastBlock * S + i < sz THEN d[lastBlock * S + i]
                                     ELSE buf[i]]
                 ELSE buf
       /\ pos' = end
       /\ Seen(n, [i \in 0 .. n - 1 |-> IF i < r THEN buf[bp + i] ELSE d[pos + i]])
       /\ UNCHANGED cur

\* The buffer is filled again when the block changes or none was begun.
ExtSeek(p, to) ==
    LET d == ExtFlushed
    IN /\ kind = "ext2"
       /\ dev' = d
       /\ buf' = IF (pos % S = 0 \/ Block(p) # Block(pos)) /\ p % S # 0
                 THEN Sector(d, Block(p)) ELSE buf
       /\ Moved(p, to)
       /\ UNCHANGED cur

-----------------------------------------------------------------------------
(* MemoryFile                                                              *)
\* The destination is computed before a file that is too short is moved to a
\* larger piece of memory: the bytes then go to the old one.
MemWrite(n, v) ==
    /\ kind = "memory"
    /\ rpos + n <= Size
    /\ Careful => pos + n < sz
    /\ dev' = IF pos + n >= sz THEN dev ELSE Fill(dev, pos, n, v)
    /\ pos' = pos + n
    /\ Wrote(n, v)
    /\ UNCHANGED <<buf, cur, sz>>

MemRead(n) ==
    /\ kind = "memory"
    /\ rpos + n <= sz
    /\ pos' = pos + n
    /\ Seen(n, Slice(dev, pos, n))
    /\ UNCHANGED <<dev, buf, cur>>

MemSeek(p, to) ==
    /\ kind = "memory"
    /\ Moved(p, to)
    /\ UNCHANGED <<dev, buf, cur>>

-----------------------------------------------------------------------------
Write == \E n \in Lens, v \in Bytes : BlockWrite(n, v) \/ ExtWrite(n, v) \/ MemWrite(n, v)
Read == \E n \in Lens : BlockRead(n) \/ ExtRead(n) \/ MemRead(n)
Seek(p, to) == BlockSeek(p, to) \/ ExtSeek(p, to) \/ MemSeek(p, to)
\* SEEK_SET, and SEEK_CUR with the same result.
SeekSet == \E p \in 0 .. sz : Seek(p, p)
\* All three kinds subtract the offset, which is not positive, from the size.
EndPosition(o) == sz - o
SeekEnd == \E o \in EndOffsets : Seek(EndPosition(o), sz + o)

Next == Write \/ Read \/ BlockFlush \/ ExtFlush \/ SeekSet \/ SeekEnd
Spec == Init /\ [][Next]_vars

-----------------------------------------------------------------------------
\* A read delivers the bytes last written at its place, whatever mixture of
\* calls went before and wherever the buffer stood.
ReadsMatch == got = want

\* After a flush or a seek the medium holds everything that was written, and
\* the position is the one the calls add up to.
FlushedMatch == last = "flush" =>
    /\ pos = rpos
    /\ \A a \in At : a < sz => dev[a] = ref[a]
=============================================================================
