-------------------------------- MODULE Loader --------------------------------
(***************************************************************************)
(* The program loader: Elf with its header tables (kernel/cpp/Elf.cpp),    *)
(* and the symbol table AOutSymTab (kernel/cpp/AOut.cpp).                  *)
(*                                                                         *)
(* Two questions, one behaviour answers one of them.  "image": is every    *)
(* byte of a program where its headers say after allocate and load?  The   *)
(* page tables are in Memory; here a page is mapped or not.  "tables": the *)
(* header tables own arrays through bare pointers; do copies, moves and    *)
(* destructors keep each array owned once and none used after it is freed? *)
(***************************************************************************)
EXTENDS Integers, Sequences, FiniteSetsExt

CONSTANTS
    Starts, MemSizes, \* addresses and sizes of segments in the file
    LPage, LWord,     \* bytes of a page and of a word
    LFrames,          \* page frames left
    MaxSegs,          \* program headers of a file
    Objects,          \* table objects
    MaxBufs,          \* arrays on the heap at once
    MaxCalls,         \* bound on operations of table objects
    LCareful          \* are the cases at WellLinked and TableRules left out?

ASSUME LoaderAssumption ==
    /\ Starts \subseteq Nat /\ MemSizes \subseteq Nat /\ LPage \in Nat \ {0} /\ LWord \in Nat \ {0}
    /\ MaxSegs \in Nat /\ MaxBufs \in Nat /\ LCareful \in BOOLEAN

Classes == {"section", "sectiontab", "programtab", "aout", "elf"}
Null == 0
Wild == -1

VARIABLES
    lAsk,     \* which question, and of which class
    lFile,    \* the file named to the constructor
    lStage, lVal, lPages, lMem, lBreak, \* one Elf and its process
    lObjs, lBufs, lBad, lCalls          \* table objects, live arrays, faults
imageVars == <<lStage, lVal, lPages, lMem, lBreak>>
tableVars == <<lObjs, lBufs, lBad, lCalls>>
loaderVars == <<lAsk, lFile, imageVars, tableVars>>

-----------------------------------------------------------------------------
(* The file                                                                *)
\* ElfFileHeader as check_validity reads it: one verdict over its twelve tests.
FileHeaders == {"none", "invalid", "short", "good"}
\* ElfSectionHeader and its table: read in full or cut off by the end of the file.
SectionTables == {"short", "good"}
\* ElfProgramHeader: the fields allocate and load look at.
Segments ==
    {s \in [load : BOOLEAN, vaddr : Starts, memsz : MemSizes, filesz : MemSizes \cup {0}, align : {1, LPage}] :
        s.filesz = 0 \/ s.filesz = s.memsz \/ (s.filesz > s.memsz /\ ~LCareful) \/ s.filesz = 1}
\* "data": can the bytes of the first segment be read?
Binaries ==
    {f \in [header : FileHeaders, sections : SectionTables, data : BOOLEAN,
            segs : UNION {[1 .. n -> Segments] : n \in 1 .. MaxSegs}] :
        \/ f.header = "good" /\ f.sections = "good"
        \/ f.data /\ Len(f.segs) = 1}

\* The headers of type LOAD.
Loads(f) == {i \in DOMAIN f.segs : f.segs[i].load}
\* The pages allocate and deallocate go through: the start is rounded down, the
\* length is not extended by what that added.
Start(s) == (s.vaddr \div LPage) * LPage
SegmentPages(s) == {a \div LPage : a \in {Start(s) + LPage * k : k \in 0 .. (s.memsz + LPage - 1) \div LPage - 1}}
SegBytes(s) == s.vaddr .. s.vaddr + s.memsz - 1

\* What the linker of the user programs produces and the loader relies on.
WellLinked(f) ==
    \A i \in Loads(f) :
        LET s == f.segs[i]
        IN /\ {a \div LPage : a \in SegBytes(s)} \subseteq SegmentPages(s)
           /\ s.memsz % LWord = 0 /\ s.filesz <= s.memsz /\ f.data
           /\ \A j \in Loads(f) \ {i} : SegmentPages(s) \cap SegmentPages(f.segs[j]) = {}

-----------------------------------------------------------------------------
(* Elf: from the file to memory                                            *)
\* ElfProgramTab: a segment to load, and the half of the alignment bit clear.
Misaligned(s) == s.align > 1 /\ (s.vaddr \div (s.align \div 2)) % 2 = 1
ProgramTabValid(segs) ==
    /\ \E i \in DOMAIN segs : segs[i].load
    /\ \A i \in DOMAIN segs : ~Misaligned(segs[i])

\* ElfFileHeader::check_validity: the header was read and passes all its tests.
CheckValidity(f) == f.header = "good"
\* The constructor of Elf: the three tables one after the other.
ElfValid(f) == CheckValidity(f) /\ f.sections = "good" /\ ProgramTabValid(f.segs)

\* get_break_point: the highest end of a segment that is loaded.
GetBreakPoint(f) == Max({f.segs[i].vaddr + f.segs[i].memsz : i \in Loads(f)})

\* Process(name): an invalid file leaves a process that cannot be launched.
Construct ==
    /\ lAsk = "image" /\ lStage = "none"
    /\ lVal' = ElfValid(lFile)
    /\ lBreak' = IF lVal' THEN GetBreakPoint(lFile) ELSE lBreak
    /\ lStage' = "made"
    /\ UNCHANGED <<lAsk, lFile, lPages, lMem, tableVars>>

AllPages(f) == UNION {SegmentPages(f.segs[i]) : i \in Loads(f)}
\* A page that is mapped already, or no frame for it: the kernel panics.
AllocatePanics(f) ==
    \/ \E i, j \in Loads(f) :
          i # j /\ SegmentPages(f.segs[i]) \cap SegmentPages(f.segs[j]) # {}
    \/ Cardinality(AllPages(f)) > LFrames

Allocate ==
    /\ lAsk = "image" /\ lStage = "made" /\ lVal
    /\ IF AllocatePanics(lFile)
       THEN lStage' = "panic" /\ UNCHANGED <<lPages, lMem>>
       ELSE /\ lStage' = "allocated"
            /\ lPages' = AllPages(lFile)
            /\ lMem' = [a \in UNION {LPage * p .. LPage * p + LPage - 1 : p \in lPages'} |-> <<"old">>]
    /\ UNCHANGED <<lAsk, lFile, lVal, lBreak, tableVars>>

\* One segment: whole words are cleared, then the bytes of the file are read. A
\* read that fails fails every later one.
Cleared(s) == s.vaddr .. s.vaddr + (s.memsz \div LWord) * LWord - 1
Copied(f, s) == IF f.data THEN s.vaddr .. s.vaddr + s.filesz - 1 ELSE {}
FileByte(i, a) == <<"byte", i, a>>
\* Mutant: the bytes beyond filesz and the ones read are cleared afterwards.
SegmentByteClearsLast(f, i, a) ==
    IF a \in Cleared(f.segs[i]) THEN <<"zero">> ELSE FileByte(i, a)
SegmentByte(f, i, a) == IF a \in Copied(f, f.segs[i]) THEN FileByte(i, a) ELSE <<"zero">>
\* One segment after the other: the last to touch a byte decides.
Touches(f, i) == Cleared(f.segs[i]) \cup Copied(f, f.segs[i])
Touched(f) == UNION {Touches(f, i) : i \in Loads(f)}
Filled(f, mem) ==
    [a \in DOMAIN mem |-> IF a \in Touched(f)
                          THEN SegmentByte(f, Max({i \in Loads(f) : a \in Touches(f, i)}), a)
                          ELSE mem[a]]

\* load: the file may be gone by now, and then nothing happens.
Load(opens) ==
    /\ lAsk = "image" /\ lStage = "allocated"
    /\ IF ~opens THEN lStage' = "unread" /\ UNCHANGED lMem
       ELSE IF ~(Touched(lFile) \subseteq DOMAIN lMem) THEN lStage' = "fault" /\ UNCHANGED lMem
       ELSE lStage' = "loaded" /\ lMem' = Filled(lFile, lMem)
    /\ UNCHANGED <<lAsk, lFile, lVal, lPages, lBreak, tableVars>>

Deallocate ==
    /\ lAsk = "image" /\ lStage \in {"loaded", "unread"}
    /\ lPages' = lPages \ AllPages(lFile)
    /\ lMem' = [a \in {b \in DOMAIN lMem : b \div LPage \in lPages'} |-> lMem[a]]
    /\ lStage' = "done"
    /\ UNCHANGED <<lAsk, lFile, lVal, lBreak, tableVars>>

-----------------------------------------------------------------------------
(* Table objects                                                           *)
\* ptr: the arrays owned; extra: ElfSectionTab::sections; refs: the arrays the
\* addresses in its section headers point at.
Dead == [live |-> FALSE]
NumPtrs(c) == CASE c = "elf" -> 3 [] c = "aout" -> 2 [] OTHER -> 1
Obj(v, p, e, r) == [live |-> TRUE, val |-> v, ptr |-> p, extra |-> e, refs |-> r]
Nulls == [i \in 1 .. NumPtrs(lAsk) |-> Null]
PtrsOf(o) == {lObjs[o].ptr[i] : i \in DOMAIN lObjs[o].ptr} \ {Null}

\* Arrays new hands out: k different free ones, whichever.
Fresh(k, live) == CHOOSE f \in [1 .. k -> (1 .. MaxBufs) \ live] : \A i, j \in 1 .. k : f[i] = f[j] => i = j
FreshSet(k, live) == {Fresh(k, live)[i] : i \in 1 .. k}
Room(k) == Cardinality(lBufs) + k <= MaxBufs

\* delete of these pointers: nothing for a null, a fault unless the array is live.
DeleteFaults(ps) == IF ps \subseteq lBufs THEN {} ELSE {"delete"}

Call == lAsk \in Classes /\ lCalls < MaxCalls /\ lCalls' = lCalls + 1 /\ UNCHANGED <<lAsk, lFile, imageVars>>
Is(c) == lAsk = c

\* Constructors that read a table. "ok" is the last check; the arrays kept when a
\* check fails are the ones made by then that set_invalid did not delete.
Make(o, v, kept) ==
    /\ ~lObjs[o].live /\ Room(kept) /\ Call
    /\ LET f == Fresh(kept, lBufs)
       IN /\ lObjs' = [lObjs EXCEPT ![o] = Obj(v, [i \in DOMAIN Nulls |-> IF i <= kept THEN f[i] ELSE Null], {}, {})]
          /\ lBufs' = lBufs \cup FreshSet(kept, lBufs)
    /\ UNCHANGED lBad
\* A wrong entry size is seen before the array exists: set_invalid then deletes a
\* pointer that was never set.
MakeWild(o) ==
    /\ ~LCareful /\ ~lObjs[o].live /\ Call
    /\ lObjs' = [lObjs EXCEPT ![o] = Obj(FALSE, Nulls, {}, {})]
    /\ lBad' = lBad \cup {"delete"}
    /\ UNCHANGED lBufs

SectionMake(o) == Is("section") /\ Make(o, TRUE, 1)
SectionTabMake(o) ==
    Is("sectiontab") /\ (Make(o, TRUE, 1) \/ Make(o, FALSE, 1) \/ Make(o, FALSE, 0) \/ MakeWild(o))
ProgramTabMake(o) ==
    Is("programtab") /\ (Make(o, TRUE, 1) \/ Make(o, FALSE, 0) \/ MakeWild(o))
AOutMake(o) == Is("aout") /\ (Make(o, TRUE, 2) \/ Make(o, FALSE, 0))
\* No file, a bad file header, a bad section table, a bad program table.
ElfMake(o) == Is("elf") /\ (Make(o, TRUE, 3) \/ \E k \in 0 .. 3 : Make(o, FALSE, k))

\* What an operation on two objects of one class requires of its caller.
TableRules(o, p) ==
    /\ o # p
    /\ lObjs[o].refs = {}
    /\ Is("elf") => Cardinality(PtrsOf(o)) = 3
Between(o, p) == lObjs[o].live /\ Call /\ (LCareful => TableRules(o, p))

\* The arrays a copy reads, after those of the target are gone.
ReadFaults(o, live) ==
    (IF PtrsOf(o) \subseteq live THEN {} ELSE {"read"})
    \cup (IF Is("elf") /\ Null \in {lObjs[o].ptr[i] : i \in 1 .. 3} THEN {"null"} ELSE {})

\* A copy has arrays of its own, of no length if the source has none; it does not
\* copy the sections the headers may refer to.
CopyTo(o, p, deleted, extra) ==
    LET k == NumPtrs(lAsk)
        live == lBufs \ deleted
        f == Fresh(k, live)
    IN /\ Cardinality(live) + k <= MaxBufs
       /\ lBad' = lBad \cup DeleteFaults(deleted) \cup ReadFaults(o, live)
       /\ lBufs' = live \cup FreshSet(k, live)
       /\ lObjs' = [lObjs EXCEPT ![p] = Obj(lObjs[o].val, f, extra, lObjs[o].refs)]
\* Mutant: the source of a move keeps its pointers.
MoveToKeeps(o, p, deleted, extra) ==
    /\ lBad' = lBad \cup DeleteFaults(deleted)
    /\ lBufs' = lBufs \ deleted
    /\ lObjs' = [lObjs EXCEPT ![p] = Obj(lObjs[o].val, lObjs[o].ptr, extra, lObjs[o].refs)]
\* A move takes the arrays and leaves the source invalid; an Elf keeps its val.
MoveTo(o, p, deleted, extra) ==
    LET left == Obj(Is("elf") /\ lObjs[o].val, Nulls, lObjs[o].extra, {})
        taken == Obj(lObjs[o].val, lObjs[o].ptr, extra, lObjs[o].refs)
    IN /\ lBad' = lBad \cup DeleteFaults(deleted)
       /\ lBufs' = lBufs \ deleted
       /\ lObjs' = IF o = p THEN [lObjs EXCEPT ![o] = left] ELSE [lObjs EXCEPT ![p] = taken, ![o] = left]

\* The four of a class: copy and move into a new object or over an old one.
FourOf(o, p) ==
    /\ Between(o, p)
    /\ IF lObjs[p].live
       THEN CopyTo(o, p, PtrsOf(p), lObjs[p].extra) \/ MoveTo(o, p, PtrsOf(p), lObjs[p].extra)
       ELSE CopyTo(o, p, {}, {}) \/ MoveTo(o, p, {}, {})
SectionFour(o, p) == Is("section") /\ FourOf(o, p)
SectionTabFour(o, p) == Is("sectiontab") /\ FourOf(o, p)
ProgramTabFour(o, p) == Is("programtab") /\ FourOf(o, p)
AOutFour(o, p) == Is("aout") /\ FourOf(o, p)
ElfFour(o, p) == Is("elf") /\ FourOf(o, p)

Destroy(o) ==
    /\ lObjs[o].live /\ Call
    /\ LET gone == PtrsOf(o) \cup lObjs[o].extra
       IN /\ lBad' = lBad \cup DeleteFaults(gone)
          /\ lBufs' = lBufs \ gone
          /\ lObjs' = [lObjs EXCEPT ![o] = Dead]

\* remap_sections: k sections outside the kernel are copied and their headers
\* point at the copies; those inside are only given their virtual address.
RemapSections(o, k) ==
    /\ Is("sectiontab") /\ lObjs[o].live /\ lObjs[o].val /\ lObjs[o].refs = {} /\ Room(k) /\ Call
    /\ LET new == FreshSet(k, lBufs)
       IN /\ lObjs' = [lObjs EXCEPT ![o] = Obj(@.val, @.ptr, @.extra \cup new, new)]
          /\ lBufs' = lBufs \cup new
    /\ UNCHANGED lBad

\* header and get_name: the names are in the section e_shstrndx, wherever its
\* header points.
GetName(o) ==
    /\ Is("sectiontab") /\ lObjs[o].live /\ lObjs[o].val /\ Call
    /\ lBad' = lBad \cup (IF lObjs[o].refs \cup PtrsOf(o) \subseteq lBufs THEN {} ELSE {"read"})
    /\ UNCHANGED <<lObjs, lBufs>>

LoaderInit ==
    /\ lAsk \in {"image"} \cup Classes
    /\ lFile \in IF lAsk = "image" THEN {f \in Binaries : LCareful => WellLinked(f)}
                 ELSE {CHOOSE f \in Binaries : TRUE}
    /\ lStage = "none" /\ lVal = FALSE /\ lPages = {} /\ lMem = <<>> /\ lBreak = 0
    /\ lObjs = [o \in Objects |-> Dead] /\ lBufs = {} /\ lBad = {} /\ lCalls = 0

LoaderNext ==
    \/ Construct \/ Allocate \/ Deallocate
    \/ \E opens \in BOOLEAN : Load(opens)
    \/ \E o \in Objects :
          \/ SectionMake(o) \/ SectionTabMake(o) \/ ProgramTabMake(o) \/ AOutMake(o) \/ ElfMake(o)
          \/ Destroy(o) \/ GetName(o)
          \/ \E k \in 1 .. 2 : RemapSections(o, k)
          \/ \E p \in Objects : \/ SectionFour(o, p) \/ SectionTabFour(o, p) \/ ProgramTabFour(o, p)
                                \/ AOutFour(o, p) \/ ElfFour(o, p)
LoaderSpec == LoaderInit /\ [][LoaderNext]_loaderVars

-----------------------------------------------------------------------------
(* A loaded program is whole: every byte of every segment of type LOAD is in *)
(* a mapped page and holds its byte of the file or zero, the heap starts     *)
(* behind all of them, and deallocate gives back every page.                 *)
ImageWhole ==
    /\ lStage # "fault"
    /\ lStage = "loaded" =>
          /\ lFile.header = "good"
          /\ \A i \in Loads(lFile) :
                LET s == lFile.segs[i]
                IN /\ lBreak >= s.vaddr + s.memsz
                   /\ \A a \in SegBytes(s) : lMem[a] = IF a < s.vaddr + s.filesz THEN FileByte(i, a) ELSE <<"zero">>
    /\ lStage = "done" => lPages = {}

(* Every array of a header table is owned by one object, none is deleted     *)
(* twice or read after it was deleted, and no section header points at a     *)
(* section that is gone.                                                     *)
TablesOwned ==
    /\ lBad = {}
    /\ \A b \in lBufs :
          Cardinality({x \in Objects \X (0 .. 3) :
             lObjs[x[1]].live /\ (IF x[2] = 0 THEN b \in lObjs[x[1]].extra
                                  ELSE x[2] <= NumPtrs(lAsk) /\ lObjs[x[1]].ptr[x[2]] = b)}) = 1
    /\ \A o \in Objects : lObjs[o].live => PtrsOf(o) \cup lObjs[o].refs \subseteq lBufs
=============================================================================
