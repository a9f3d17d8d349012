---------------------------- MODULE PlatformProofs ----------------------------
(***************************************************************************)
(* Theorems about the program loader (Loader), about exceptions            *)
(* (Exceptions) and about the console (Console).                           *)
(*                                                                         *)
(* The image: where the linker keeps the rules of WellLinked, load touches *)
(* the bytes of each segment and no others, each in a page of its own      *)
(* segment, so no segment undoes another (ImageInv, ProgramsWhole).        *)
(*                                                                         *)
(* The tables: the arrays on the heap are those the table objects own, no  *)
(* array is owned twice, by two objects or by one (Sound).  Every call     *)
(* replaces one object, a move two of them, and gives back what the old    *)
(* one owned (ReplaceOne), so nothing is deleted twice (ArraysOwned).      *)
(*                                                                         *)
(* Exceptions: what a process knows of its flights agrees with its frames  *)
(* and its handlers (Proc), and no two processes hold the same exception   *)
(* (ExcInv).  So the frame an unwinding lands in is the innermost one that *)
(* takes the exception (HandlersAreInnermost), and what is in memory is    *)
(* what somebody still needs, counted right (EveryExceptionOwned).         *)
(*                                                                         *)
(* The console, for a careful user (ConsoleRules): the controller is empty *)
(* and the driver agrees with the fingers, or it holds one code, with      *)
(* which it will (KeysInv); row and column of every cell, and of the       *)
(* cursor, are those of the character in the text (ScreenInv).             *)
(***************************************************************************)
EXTENDS Console, Loader, Exceptions, SequenceTheorems, FiniteSetTheorems, WellFoundedInduction, TLAPS

-----------------------------------------------------------------------------
(* Finite sets of numbers have a greatest                                  *)
LEMMA Least ==
    ASSUME NEW T, T \subseteq Nat, T # {}
    PROVE  \E x \in T : \A y \in T : x <= y
<1>1. IsWellFoundedOn(OpToRel(<, Nat), Nat)
  BY NatLessThanWellFounded
<1>2. PICK x \in T : \A y \in T : ~(<<y, x>> \in OpToRel(<, Nat))
  BY <1>1, WFMin
<1>3. \A y \in T : ~(y < x)
  BY <1>2 DEF OpToRel
<1> QED
  BY <1>3

\* The first k of finitely many naturals have a greatest, for the least k
\* without one would have one.
LEMMA Greatest ==
    ASSUME NEW n \in Nat, NEW D, D \subseteq 1 .. n, D # {}, NEW g \in [D -> Nat]
    PROVE  \E d \in D : \A e \in D : g[d] >= g[e]
<1> DEFINE Upto(k) == {d \in D : d <= k}
           HasTop(k) == \E d \in Upto(k) : \A e \in Upto(k) : g[d] >= g[e]
           Bad == {k \in 1 .. n : Upto(k) # {} /\ ~HasTop(k)}
<1>1. Upto(n) = D
  <2>1. \A d \in D : d \in 1 .. n
    OBVIOUS
  <2>2. \A d \in D : d <= n
    BY <2>1
  <2> QED
    BY <2>2, Zenon
<1>2. n \in 1 .. n
  <2>1. PICK d \in D : TRUE
    OBVIOUS
  <2>2. d \in 1 .. n
    BY <2>1
  <2> QED
    BY <2>2
<1>3. Bad = {} => HasTop(n)
  <2> HIDE DEF HasTop, Upto
  <2> QED
    BY <1>1, <1>2
<1>4. SUFFICES Bad = {}
  BY <1>1, <1>3
<1>5. SUFFICES ASSUME Bad # {} PROVE FALSE
  OBVIOUS
<1>6. PICK k \in Bad : \A j \in Bad : k <= j
  <2>1. Bad \subseteq Nat
    OBVIOUS
  <2> QED
    BY <1>5, <2>1, Least
<1>7. CASE Upto(k - 1) = {}
  <2>1. k \in 1 .. n /\ \A d \in Upto(k) : d \in D /\ d <= k /\ d \in Nat
    BY <1>6
  <2>2. \A d \in Upto(k) : d = k
    BY <1>7, <2>1
  <2>3. \A d \in Upto(k) : g[d] >= g[d]
    BY <2>1
  <2> QED
    BY <1>6, <2>2, <2>3
<1>8. CASE Upto(k - 1) # {}
  <2>1. k - 1 \in 1 .. n /\ k - 1 \notin Bad
    <3>1. k \in Nat /\ k >= 1 /\ k <= n
      BY <1>6
    <3>2. PICK d \in D : d <= k - 1
      BY <1>8
    <3>3. k - 1 \in 1 .. n
      BY <3>1, <3>2
    <3> QED
      BY <1>6, <3>1, <3>3
  <2>2. PICK t \in Upto(k - 1) : \A e \in Upto(k - 1) : g[t] >= g[e]
    BY <2>1, <1>8
  <2>3. \A e \in Upto(k) : e \in Upto(k - 1) \/ e = k
    BY <1>6
  <2>4. t \in Upto(k)
    BY <1>6
  <2>5. CASE k \in D
    <3>1. k \in Upto(k)
      BY <2>5, <1>6
    <3>2. CASE g[k] >= g[t]
      <4>1. \A e \in Upto(k) : g[k] >= g[e]
        BY <3>2, <2>2, <2>3
      <4> QED
        BY <4>1, <3>1, <1>6
    <3>3. CASE ~(g[k] >= g[t])
      <4>1. \A e \in Upto(k) : g[t] >= g[e]
        BY <3>3, <2>2, <2>3, <2>5
      <4> QED
        BY <4>1, <2>4, <1>6
    <3> QED
      BY <3>2, <3>3
  <2>6. CASE k \notin D
    <3>1. \A e \in Upto(k) : g[t] >= g[e]
      BY <2>6, <2>2, <2>3
    <3> QED
      BY <3>1, <2>4, <1>6
  <2> QED
    BY <2>5, <2>6
<1> QED
  BY <1>7, <1>8

-----------------------------------------------------------------------------
(* The image of a program                                                  *)
LEMMA SegmentTypes ==
    ASSUME NEW f \in Binaries, NEW i \in Loads(f)
    PROVE  /\ f.segs[i] \in Segments
           /\ f.segs[i].vaddr \in Nat /\ f.segs[i].memsz \in Nat /\ f.segs[i].filesz \in Nat
<1>1. PICK n \in 1 .. MaxSegs : f.segs \in [1 .. n -> Segments]
  BY DEF Binaries
<1>2. f.segs[i] \in Segments
  BY <1>1 DEF Loads
<1>3. f.segs[i] \in [load : BOOLEAN, vaddr : Starts, memsz : MemSizes, filesz : MemSizes \cup {0}, align : {1, LPage}]
  BY <1>2 DEF Segments
<1> QED
  <2>1. f.segs[i].vaddr \in Starts /\ f.segs[i].memsz \in MemSizes /\ f.segs[i].filesz \in MemSizes \cup {0}
    BY <1>3
  <2>2. Starts \subseteq Nat /\ MemSizes \subseteq Nat
    BY LoaderAssumption
  <2>3. f.segs[i].vaddr \in Nat
    BY <2>1, <2>2
  <2>4. f.segs[i].memsz \in Nat
    BY <2>1, <2>2
  <2>5. f.segs[i].filesz \in Nat
    <3>1. \A x \in MemSizes \cup {0} : x \in Nat
      BY <2>2
    <3> QED
      BY <2>1, <3>1
  <2> QED
    BY <1>2, <2>3, <2>4, <2>5

LEMMA MaxIs ==
    ASSUME NEW E, NEW m \in E, \A y \in E : m >= y
    PROVE  Max(E) \in E /\ \A y \in E : Max(E) >= y
<1>1. \E x \in E : \A y \in E : x >= y
  OBVIOUS
<1> QED
  BY ONLY <1>1, Zenon DEF Max

\* The break is an end of a segment that is loaded and none ends behind it.
LEMMA BreakBehindAll ==
    ASSUME NEW f \in Binaries, Loads(f) # {}, NEW i \in Loads(f)
    PROVE  GetBreakPoint(f) >= f.segs[i].vaddr + f.segs[i].memsz
<1>1. PICK n \in 1 .. MaxSegs : f.segs \in [1 .. n -> Segments]
  BY DEF Binaries
<1> DEFINE g == [j \in Loads(f) |-> f.segs[j].vaddr + f.segs[j].memsz]
           E == {f.segs[j].vaddr + f.segs[j].memsz : j \in Loads(f)}
<1>2. n \in Nat /\ Loads(f) \subseteq 1 .. n
  BY <1>1, LoaderAssumption DEF Loads
<1>3. g \in [Loads(f) -> Nat]
  BY SegmentTypes
<1>3a. \A d \in Loads(f) : g[d] \in Nat /\ g[d] = f.segs[d].vaddr + f.segs[d].memsz
  BY <1>2, SegmentTypes
<1> HIDE DEF g
<1>4. PICK d \in Loads(f) : \A e \in Loads(f) : g[d] >= g[e]
  BY <1>2, <1>3, Greatest
<1>5. g[d] \in E /\ \A y \in E : g[d] >= y
  BY <1>3a, <1>4
<1>6. Max(E) \in E /\ \A y \in E : Max(E) >= y
  <2> HIDE DEF E
  <2> QED
    BY <1>5, MaxIs
<1>7. f.segs[i].vaddr + f.segs[i].memsz \in E
  OBVIOUS
<1> QED
  BY <1>6, <1>7 DEF GetBreakPoint

LEMMA WholeWords ==
    ASSUME NEW n \in Nat, NEW w \in Nat \ {0}, n % w = 0
    PROVE  (n \div w) * w = n
<1>1. n = w * (n \div w) + (n % w)
  OBVIOUS
<1>2. n \div w \in Nat
  OBVIOUS
<1>3. (n \div w) * w = w * (n \div w)
  BY <1>2
<1>4. w * (n \div w) \in Nat
  BY <1>2
<1> QED
  BY <1>1, <1>3, <1>4

\* load touches the bytes of a segment and no others, and its pages hold them.
LEMMA SegmentInPages ==
    ASSUME NEW f \in Binaries, WellLinked(f), NEW i \in Loads(f)
    PROVE  /\ Touches(f, i) = SegBytes(f.segs[i])
           /\ \A a \in SegBytes(f.segs[i]) :
                 /\ a \in Nat /\ a \div LPage \in SegmentPages(f.segs[i])
                 /\ a \in Copied(f, f.segs[i]) <=> a < f.segs[i].vaddr + f.segs[i].filesz
<1> DEFINE s == f.segs[i]
<1>1. s.vaddr \in Nat /\ s.memsz \in Nat /\ s.filesz \in Nat
  BY SegmentTypes
<1>2. s.memsz % LWord = 0 /\ s.filesz <= s.memsz /\ f.data
  BY DEF WellLinked
<1>3. {a \div LPage : a \in SegBytes(s)} \subseteq SegmentPages(s)
  BY DEF WellLinked
<1>4. (s.memsz \div LWord) * LWord = s.memsz
  BY <1>1, <1>2, WholeWords, LoaderAssumption
<1>5. Cleared(s) = SegBytes(s)
  BY <1>4 DEF Cleared, SegBytes
<1>6. Copied(f, s) = s.vaddr .. s.vaddr + s.filesz - 1
  BY <1>2 DEF Copied
<1>7. Copied(f, s) \subseteq SegBytes(s)
  <2>1. SUFFICES ASSUME NEW a \in s.vaddr .. s.vaddr + s.filesz - 1
                 PROVE  a \in s.vaddr .. s.vaddr + s.memsz - 1
    BY <1>6 DEF SegBytes
  <2> QED
    BY <1>1, <1>2
<1>8. Touches(f, i) = SegBytes(s)
  BY <1>5, <1>7 DEF Touches
<1>9. ASSUME NEW a \in SegBytes(s)
      PROVE  /\ a \in Nat /\ a \div LPage \in SegmentPages(s)
             /\ a \in Copied(f, s) <=> a < s.vaddr + s.filesz
  <2>1. a \in Int /\ s.vaddr <= a
    BY <1>1 DEF SegBytes
  <2>2. a \in Nat
    BY <1>1, <2>1
  <2>3. a \div LPage \in SegmentPages(s)
    BY <1>3
  <2>4. a \in Copied(f, s) <=> a < s.vaddr + s.filesz
    BY <1>1, <1>6, <2>1
  <2> QED
    BY <2>2, <2>3, <2>4
<1> QED
  BY <1>8, <1>9

PageBytes(p) == LPage * p .. LPage * p + LPage - 1
BytesOf(pages) == UNION {PageBytes(p) : p \in pages}

LEMMA ByteOfPage ==
    ASSUME NEW a \in Nat
    PROVE  a \in PageBytes(a \div LPage)
<1>1. LPage \in Nat \ {0}
  BY LoaderAssumption
<1>2. a = LPage * (a \div LPage) + (a % LPage)
  BY <1>1
<1>3. a % LPage \in 0 .. LPage - 1
  BY <1>1
<1>4. a \div LPage \in Nat /\ LPage * (a \div LPage) \in Nat
  BY <1>1
<1> QED
  BY <1>1, <1>2, <1>3, <1>4 DEF PageBytes

LEMMA TouchedIsMapped ==
    ASSUME NEW f \in Binaries, WellLinked(f)
    PROVE  Touched(f) \subseteq BytesOf(AllPages(f))
<1>1. SUFFICES ASSUME NEW i \in Loads(f), NEW a \in Touches(f, i)
               PROVE  a \in BytesOf(AllPages(f))
  BY DEF Touched
<1>2. a \in Nat /\ a \div LPage \in SegmentPages(f.segs[i])
  BY SegmentInPages
<1>3. a \div LPage \in AllPages(f)
  BY <1>2 DEF AllPages
<1>4. a \in PageBytes(a \div LPage)
  BY <1>2, ByteOfPage
<1> QED
  BY <1>3, <1>4 DEF BytesOf

\* No byte is in two segments, so the segment that fills it is its own.
LEMMA OneSegment ==
    ASSUME NEW f \in Binaries, WellLinked(f), NEW i \in Loads(f), NEW a \in SegBytes(f.segs[i])
    PROVE  Max({j \in Loads(f) : a \in Touches(f, j)}) = i
<1>1. ASSUME NEW j \in Loads(f), a \in Touches(f, j)
      PROVE  j = i
  <2>1. SUFFICES ASSUME j # i PROVE FALSE
    OBVIOUS
  <2>2. a \div LPage \in SegmentPages(f.segs[i])
    BY SegmentInPages
  <2>3. a \div LPage \in SegmentPages(f.segs[j])
    BY <1>1, SegmentInPages
  <2>4. SegmentPages(f.segs[i]) \cap SegmentPages(f.segs[j]) = {}
    BY <2>1 DEF WellLinked
  <2> QED
    BY <2>2, <2>3, <2>4
<1>2. a \in Touches(f, i)
  BY SegmentInPages
<1> DEFINE E == {j \in Loads(f) : a \in Touches(f, j)}
<1>3. i \in E /\ \A j \in E : j = i
  BY <1>1, <1>2
<1>4. i \in Int
  <2>1. PICK n \in 1 .. MaxSegs : f.segs \in [1 .. n -> Segments]
    BY DEF Binaries
  <2> QED
    BY <2>1, LoaderAssumption DEF Loads
<1>5. \A j \in E : i >= j
  BY <1>3, <1>4
<1> HIDE DEF E
<1>6. Max(E) \in E
  BY <1>3, <1>5, MaxIs
<1>7. Max(E) = i
  BY <1>3, <1>6
<1> QED
  BY <1>7 DEF E

\* A byte of a segment after load.
LEMMA FilledRight ==
    ASSUME NEW f \in Binaries, WellLinked(f), NEW mem, Touched(f) \subseteq DOMAIN mem,
           NEW i \in Loads(f), NEW a \in SegBytes(f.segs[i])
    PROVE  Filled(f, mem)[a] = IF a < f.segs[i].vaddr + f.segs[i].filesz THEN FileByte(i, a) ELSE <<"zero">>
<1>1. a \in Touched(f)
  BY SegmentInPages DEF Touched
<1>2. Filled(f, mem)[a] = SegmentByte(f, Max({j \in Loads(f) : a \in Touches(f, j)}), a)
  BY <1>1 DEF Filled
<1>3. Filled(f, mem)[a] = SegmentByte(f, i, a)
  BY <1>2, OneSegment
<1>4. a \in Copied(f, f.segs[i]) <=> a < f.segs[i].vaddr + f.segs[i].filesz
  BY SegmentInPages
<1> QED
  BY <1>3, <1>4 DEF SegmentByte

\* What each stage of an Elf has brought about.
ImageInv ==
    /\ lStage \in {"none", "made", "panic", "allocated", "unread", "loaded", "done"}
    /\ lAsk = "image" => lFile \in Binaries /\ WellLinked(lFile)
    /\ lStage # "none" => lAsk = "image"
    /\ lStage = "made" /\ lVal => ElfValid(lFile) /\ lBreak = GetBreakPoint(lFile)
    /\ lStage \in {"allocated", "unread", "loaded"} =>
          /\ ElfValid(lFile) /\ lBreak = GetBreakPoint(lFile)
          /\ lPages = AllPages(lFile)
    /\ lStage = "allocated" => DOMAIN lMem = BytesOf(lPages)
    /\ lStage = "loaded" => \A i \in Loads(lFile) : \A a \in SegBytes(lFile.segs[i]) :
          lMem[a] = IF a < lFile.segs[i].vaddr + lFile.segs[i].filesz THEN FileByte(i, a) ELSE <<"zero">>
    /\ lStage = "done" => lPages = {}

\* The calls on table objects, which are no step of an image.
Making(o) == SectionMake(o) \/ SectionTabMake(o) \/ ProgramTabMake(o) \/ AOutMake(o) \/ ElfMake(o)
TableStep(o) ==
    \/ Making(o) \/ Destroy(o) \/ GetName(o)
    \/ \E k \in 1 .. 2 : RemapSections(o, k)
    \/ \E p \in Objects : FourOf(o, p)

LEMMA StepsOfLoader ==
    LoaderNext => \/ Construct \/ Allocate \/ Deallocate
                  \/ \E opens \in BOOLEAN : Load(opens)
                  \/ \E o \in Objects : TableStep(o)
<1>1. ASSUME NEW o \in Objects, NEW p \in Objects,
             SectionFour(o, p) \/ SectionTabFour(o, p) \/ ProgramTabFour(o, p) \/ AOutFour(o, p) \/ ElfFour(o, p)
      PROVE  FourOf(o, p)
  BY <1>1 DEF SectionFour, SectionTabFour, ProgramTabFour, AOutFour, ElfFour
<1> QED
  BY <1>1 DEF LoaderNext, TableStep, Making

LEMMA CallsLeaveImage ==
    ASSUME NEW o \in Objects, TableStep(o)
    PROVE  Call
<1>1. Making(o) => Call
  <2>1. ASSUME NEW v, NEW k, Make(o, v, k) PROVE Call
    BY <2>1 DEF Make
  <2>2. MakeWild(o) => Call
    BY DEF MakeWild
  <2> QED
    BY <2>1, <2>2, Zenon DEF Making, SectionMake, SectionTabMake, ProgramTabMake, AOutMake, ElfMake
<1>2. Destroy(o) \/ GetName(o) => Call
  BY DEF Destroy, GetName
<1>3. ASSUME NEW k \in 1 .. 2, RemapSections(o, k) PROVE Call
  BY <1>3 DEF RemapSections
<1>4. ASSUME NEW p \in Objects, FourOf(o, p) PROVE Call
  BY <1>4 DEF FourOf, Between
<1> QED
  BY <1>1, <1>2, <1>3, <1>4 DEF TableStep

LEMMA ImageStarts ==
    ASSUME LCareful = TRUE, LoaderInit
    PROVE  ImageInv
<1>1. lAsk = "image" => lFile \in Binaries /\ WellLinked(lFile)
  BY DEF LoaderInit
<1> QED
  BY <1>1 DEF LoaderInit, ImageInv

LEMMA ImageStep ==
    ASSUME ImageInv, [LoaderNext]_loaderVars
    PROVE  ImageInv'
<1>1. CASE UNCHANGED <<lAsk, lFile, imageVars>>
  BY <1>1 DEF ImageInv, imageVars
<1>2. CASE Construct
  <2>1. lFile' = lFile /\ lAsk' = lAsk /\ lAsk = "image" /\ lStage' = "made"
    BY <1>2 DEF Construct
  <2>2. lVal' => ElfValid(lFile) /\ lBreak' = GetBreakPoint(lFile)
    BY <1>2 DEF Construct
  <2>3. lFile' \in Binaries /\ WellLinked(lFile')
    BY <2>1 DEF ImageInv
  <2> QED
    BY <2>1, <2>2, <2>3 DEF ImageInv
<1>3. CASE Allocate
  <2>1. lFile' = lFile /\ lAsk' = lAsk /\ lAsk = "image" /\ lVal' = lVal /\ lBreak' = lBreak
    BY <1>3 DEF Allocate
  <2>2. ElfValid(lFile) /\ lBreak = GetBreakPoint(lFile)
    BY <1>3 DEF Allocate, ImageInv
  <2>3. lFile' \in Binaries /\ WellLinked(lFile')
    BY <2>1 DEF ImageInv
  <2>4. CASE lStage' = "panic"
    BY <2>1, <2>3, <2>4 DEF ImageInv
  <2>5. CASE lStage' # "panic"
    <3>1. lStage' = "allocated" /\ lPages' = AllPages(lFile)
      BY <1>3, <2>5 DEF Allocate
    <3>2. DOMAIN lMem' = BytesOf(lPages')
      BY <1>3, <2>5 DEF Allocate, BytesOf, PageBytes
    <3> QED
      BY <2>1, <2>2, <2>3, <3>1, <3>2 DEF ImageInv
  <2> QED
    BY <2>4, <2>5
<1>4. ASSUME NEW opens \in BOOLEAN, Load(opens)
      PROVE  ImageInv'
  <2>1. /\ lFile' = lFile /\ lAsk' = lAsk /\ lAsk = "image" /\ lVal' = lVal /\ lBreak' = lBreak
        /\ lPages' = lPages /\ lStage = "allocated"
    BY <1>4 DEF Load
  <2>2. /\ ElfValid(lFile) /\ lBreak = GetBreakPoint(lFile) /\ lPages = AllPages(lFile)
        /\ DOMAIN lMem = BytesOf(lPages) /\ lFile \in Binaries /\ WellLinked(lFile)
    BY <2>1 DEF ImageInv
  <2>3. Touched(lFile) \subseteq DOMAIN lMem
    BY <2>2, TouchedIsMapped
  <2>4. CASE ~opens
    <3>1. lStage' = "unread"
      BY <1>4, <2>4 DEF Load
    <3> QED
      BY <2>1, <2>2, <3>1 DEF ImageInv
  <2>5. CASE opens
    <3>1. lStage' = "loaded" /\ lMem' = Filled(lFile, lMem)
      BY <1>4, <2>3, <2>5 DEF Load
    <3>2. \A i \in Loads(lFile) : \A a \in SegBytes(lFile.segs[i]) :
            lMem'[a] = IF a < lFile.segs[i].vaddr + lFile.segs[i].filesz THEN FileByte(i, a) ELSE <<"zero">>
      BY <2>2, <2>3, <3>1, FilledRight
    <3> QED
      BY <2>1, <2>2, <3>1, <3>2 DEF ImageInv
  <2> QED
    BY <2>4, <2>5
<1>5. CASE Deallocate
  <2>1. lFile' = lFile /\ lAsk' = lAsk /\ lAsk = "image" /\ lStage' = "done"
    BY <1>5 DEF Deallocate
  <2>2. lPages = AllPages(lFile)
    BY <1>5 DEF Deallocate, ImageInv
  <2>3. lPages' = {}
    BY <1>5, <2>2 DEF Deallocate
  <2>4. lFile' \in Binaries /\ WellLinked(lFile')
    BY <2>1 DEF ImageInv
  <2> QED
    BY <2>1, <2>3, <2>4 DEF ImageInv
<1>6. ASSUME NEW o \in Objects, TableStep(o)
      PROVE  UNCHANGED <<lAsk, lFile, imageVars>>
  BY <1>6, CallsLeaveImage DEF Call
<1> QED
  BY <1>1, <1>2, <1>3, <1>4, <1>5, <1>6, StepsOfLoader DEF loaderVars

LEMMA ImageHolds == ImageInv => ImageWhole
<1>1. SUFFICES ASSUME ImageInv, lStage = "loaded"
               PROVE  /\ lFile.header = "good"
                      /\ \A i \in Loads(lFile) : lBreak >= lFile.segs[i].vaddr + lFile.segs[i].memsz
  BY DEF ImageInv, ImageWhole
<1>2. ElfValid(lFile) /\ lBreak = GetBreakPoint(lFile) /\ lFile \in Binaries
  BY <1>1 DEF ImageInv
<1>3. Loads(lFile) # {}
  BY <1>2 DEF ElfValid, ProgramTabValid, Loads
<1> QED
  BY <1>2, <1>3, BreakBehindAll DEF ElfValid, CheckValidity

\* A loaded program is whole, whatever the segments, the page size and the
\* frames left, where the linker keeps the rules of WellLinked.
THEOREM ProgramsWhole ==
    ASSUME LCareful = TRUE
    PROVE  LoaderSpec => []ImageWhole
<1>1. LoaderInit => ImageInv
  BY ImageStarts
<1>2. ImageInv /\ [LoaderNext]_loaderVars => ImageInv'
  BY ImageStep
<1> QED
  BY <1>1, <1>2, ImageHolds, PTL DEF LoaderSpec

-----------------------------------------------------------------------------
(* The header tables                                                       *)
LEMMA FreshArrays ==
    ASSUME NEW live, live \subseteq 1 .. MaxBufs, NEW k \in Nat, Cardinality(live) + k <= MaxBufs
    PROVE  /\ Fresh(k, live) \in [1 .. k -> (1 .. MaxBufs) \ live]
           /\ \A i, j \in 1 .. k : Fresh(k, live)[i] = Fresh(k, live)[j] => i = j
<1> DEFINE free == (1 .. MaxBufs) \ live
<1>1. MaxBufs \in Nat
  BY LoaderAssumption
<1>2. IsFiniteSet(1 .. MaxBufs) /\ Cardinality(1 .. MaxBufs) = MaxBufs
  BY <1>1, FS_Interval
<1>3. IsFiniteSet(live) /\ Cardinality(live) \in Nat
  BY <1>2, FS_Subset, FS_CardinalityType
<1>4. IsFiniteSet(free) /\ Cardinality(free) = MaxBufs - Cardinality(live)
  <2>1. (1 .. MaxBufs) \cap live = live
    OBVIOUS
  <2> QED
    <3>1. PICK T : T = 1 .. MaxBufs
      OBVIOUS
    <3>2. IsFiniteSet(T \ live) /\ Cardinality(T \ live) = Cardinality(T) - Cardinality(T \cap live)
      BY <1>2, <3>1, FS_Difference
    <3> QED BY <1>2, <2>1, <3>1, <3>2
<1>5. Cardinality(free) \in Nat /\ k <= Cardinality(free)
  BY <1>1, <1>3, <1>4
<1>6. PICK g \in Bijection(1 .. Cardinality(free), free) : TRUE
  BY <1>4, FS_CardinalityType DEF ExistsBijection
<1>7. /\ g \in [1 .. Cardinality(free) -> free]
      /\ \A i, j \in 1 .. Cardinality(free) : g[i] = g[j] => i = j
  BY <1>6 DEF Bijection, Injection, IsInjective
<1>8. \A i \in 1 .. k : i \in 1 .. Cardinality(free)
  BY <1>5
<1> DEFINE h == [i \in 1 .. k |-> g[i]]
<1> HIDE DEF free
<1>9. h \in [1 .. k -> free] /\ \A i, j \in 1 .. k : h[i] = h[j] => i = j
  BY <1>7, <1>8
<1> HIDE DEF h
<1>10. \E f \in [1 .. k -> free] : \A i, j \in 1 .. k : f[i] = f[j] => i = j
  BY <1>9
<1> USE DEF free
<1> QED
  BY <1>10, Zenon DEF Fresh

Targets(f) == {f[i] : i \in DOMAIN f} \ {Null}
Arrays(r) == IF r.live THEN Targets(r.ptr) \cup r.extra ELSE {}
Apart(f, n) == \A i, j \in 1 .. n : f[i] = f[j] /\ f[i] # Null => i = j
\* One table object: it owns each of its arrays once, and its headers refer to
\* sections it owns.
ObjectSound(r, n) ==
    \/ r = Dead
    \/ /\ r.ptr \in [1 .. n -> 0 .. MaxBufs] /\ r.extra \subseteq 1 .. MaxBufs
       /\ Apart(r.ptr, n) /\ Targets(r.ptr) \cap r.extra = {}
       /\ r.refs \subseteq r.extra
\* All of them: the live arrays are those the objects own, no two the same.
Shared(objs, bufs) ==
    /\ bufs = UNION {Arrays(objs[o]) : o \in Objects}
    /\ \A o, p \in Objects : o # p => Arrays(objs[o]) \cap Arrays(objs[p]) = {}
Sound(objs, bufs, n) ==
    /\ objs = [o \in Objects |-> objs[o]]
    /\ \A o \in Objects : ObjectSound(objs[o], n)
    /\ Shared(objs, bufs)

LEMMA ArraysInHeap ==
    ASSUME NEW n \in Nat, NEW r, ObjectSound(r, n)
    PROVE  Arrays(r) \subseteq 1 .. MaxBufs
<1>1. CASE r = Dead
  BY <1>1 DEF Dead, Arrays
<1>2. CASE r.ptr \in [1 .. n -> 0 .. MaxBufs] /\ r.extra \subseteq 1 .. MaxBufs
  <2>1. r.ptr \in [1 .. n -> 0 .. MaxBufs] /\ r.extra \subseteq 1 .. MaxBufs
    BY <1>2
  <2>2. Targets(r.ptr) \subseteq 1 .. MaxBufs
    BY <2>1, LoaderAssumption DEF Targets, Null
  <2> QED
    BY <2>1, <2>2 DEF Arrays
<1> QED
  BY <1>1, <1>2 DEF ObjectSound

LEMMA OwnedInHeap ==
    ASSUME NEW n \in Nat, NEW objs, NEW bufs, Sound(objs, bufs, n)
    PROVE  /\ bufs \subseteq 1 .. MaxBufs
           /\ \A o \in Objects : Arrays(objs[o]) \subseteq bufs
<1>1. \A o \in Objects : Arrays(objs[o]) \subseteq 1 .. MaxBufs
  BY ArraysInHeap DEF Sound
<1>2. bufs = UNION {Arrays(objs[o]) : o \in Objects}
  BY DEF Sound, Shared
<1> QED
  BY <1>1, <1>2

\* One object changes hands with what it owns.
LEMMA ReplaceOne ==
    ASSUME NEW n \in Nat, NEW objs, NEW bufs, Sound(objs, bufs, n), NEW o \in Objects,
           NEW r, ObjectSound(r, n), NEW bufs2,
           bufs2 = (bufs \ Arrays(objs[o])) \cup Arrays(r),
           Arrays(r) \cap (bufs \ Arrays(objs[o])) = {}
    PROVE  Sound([objs EXCEPT ![o] = r], bufs2, n)
<1> DEFINE objs2 == [objs EXCEPT ![o] = r]
<1>1. objs = [p \in Objects |-> objs[p]]
  BY DEF Sound
<1>2. objs2 = [p \in Objects |-> objs2[p]] /\ objs2[o] = r /\ \A p \in Objects \ {o} : objs2[p] = objs[p]
  BY <1>1
<1> HIDE DEF objs2
<1>3. \A p \in Objects : ObjectSound(objs2[p], n)
  BY <1>2 DEF Sound
<1>4. /\ \A p \in Objects : Arrays(objs[p]) \subseteq bufs
      /\ \A b \in bufs : \E p \in Objects : b \in Arrays(objs[p])
      /\ \A p, q \in Objects : p # q => Arrays(objs[p]) \cap Arrays(objs[q]) = {}
  BY DEF Sound, Shared
<1>5. \A p, q \in Objects : p # q => Arrays(objs2[p]) \cap Arrays(objs2[q]) = {}
  <2>1. \A p \in Objects \ {o} : Arrays(objs2[p]) \subseteq bufs \ Arrays(objs[o])
    BY <1>2, <1>4
  <2>2. \A p \in Objects \ {o} : Arrays(objs2[p]) \cap Arrays(objs2[o]) = {}
    BY <1>2, <2>1
  <2>3. \A p, q \in Objects \ {o} : p # q => Arrays(objs2[p]) \cap Arrays(objs2[q]) = {}
    BY <1>2, <1>4
  <2> QED
    BY <2>2, <2>3
<1>6. bufs2 = UNION {Arrays(objs2[p]) : p \in Objects}
  <2>1. ASSUME NEW p \in Objects PROVE Arrays(objs2[p]) \subseteq bufs2
    <3>1. CASE p = o
      BY <3>1, <1>2
    <3>2. CASE p # o
      BY <3>2, <1>2, <1>4
    <3> QED
      BY <3>1, <3>2
  <2>2. ASSUME NEW b \in bufs2 PROVE \E p \in Objects : b \in Arrays(objs2[p])
    <3>1. CASE b \in Arrays(r)
      BY <3>1, <1>2
    <3>2. CASE b \in bufs \ Arrays(objs[o])
      <4>1. PICK p \in Objects : b \in Arrays(objs[p])
        BY <3>2, <1>4
      <4> QED
        BY <4>1, <3>2, <1>2
    <3> QED
      BY <3>1, <3>2
  <2> QED
    BY <2>1, <2>2
<1> QED
  BY <1>2, <1>3, <1>5, <1>6 DEF Sound, Shared, objs2

\* A new object.
LEMMA NewArrays ==
    ASSUME NEW v, NEW f, NEW e, NEW x
    PROVE  Arrays(Obj(v, f, e, x)) = Targets(f) \cup e
BY DEF Arrays, Obj

LEMMA NewObject ==
    ASSUME NEW n \in Nat, NEW v, NEW f \in [1 .. n -> 0 .. MaxBufs], Apart(f, n),
           NEW e, e \subseteq 1 .. MaxBufs, NEW x, x \subseteq e, Targets(f) \cap e = {}
    PROVE  ObjectSound(Obj(v, f, e, x), n)
<1> DEFINE r == Obj(v, f, e, x)
<1>1. r = [live |-> TRUE, val |-> v, ptr |-> f, extra |-> e, refs |-> x]
  BY DEF Obj
<1>2. r.live = TRUE /\ r.ptr = f /\ r.extra = e /\ r.refs = x
  BY <1>1
<1> HIDE DEF r
<1>3. ObjectSound(r, n)
  BY <1>2 DEF ObjectSound
<1> QED
  BY <1>3, Zenon DEF r

LEMMA FreshTargets ==
    ASSUME NEW live, live \subseteq 1 .. MaxBufs, NEW k \in Nat, Cardinality(live) + k <= MaxBufs
    PROVE  /\ Fresh(k, live) \in [1 .. k -> 0 .. MaxBufs] /\ Apart(Fresh(k, live), k)
           /\ Targets(Fresh(k, live)) = FreshSet(k, live)
           /\ FreshSet(k, live) \subseteq (1 .. MaxBufs) \ live
<1> DEFINE f == Fresh(k, live)
<1>1. f \in [1 .. k -> (1 .. MaxBufs) \ live] /\ \A i, j \in 1 .. k : f[i] = f[j] => i = j
  BY FreshArrays
<1>2. FreshSet(k, live) = {f[i] : i \in 1 .. k}
  BY DEF FreshSet
<1> HIDE DEF f
<1>3. f \in [1 .. k -> 0 .. MaxBufs] /\ DOMAIN f = 1 .. k
  BY <1>1, LoaderAssumption
<1>4. Apart(f, k)
  BY <1>1 DEF Apart
<1>5. \A i \in 1 .. k : f[i] # Null /\ f[i] \in (1 .. MaxBufs) \ live
  BY <1>1, LoaderAssumption DEF Null
<1>6. Targets(f) = {f[i] : i \in 1 .. k}
  BY <1>3, <1>5 DEF Targets
<1>7. {f[i] : i \in 1 .. k} \subseteq (1 .. MaxBufs) \ live
  BY <1>5
<1> QED
  BY <1>2, <1>3, <1>4, <1>6, <1>7 DEF f

LEMMA HowManyPointers == NumPtrs(lAsk) \in 1 .. 3
  BY DEF NumPtrs

LEMMA NoPointers ==
    /\ Nulls \in [1 .. NumPtrs(lAsk) -> 0 .. MaxBufs]
    /\ Apart(Nulls, NumPtrs(lAsk)) /\ Targets(Nulls) = {}
<1>1. NumPtrs(lAsk) \in Nat
  BY HowManyPointers
<1>2. Nulls = [i \in 1 .. NumPtrs(lAsk) |-> 0]
  BY DEF Nulls, Null
<1> QED
  BY <1>1, <1>2, LoaderAssumption DEF Apart, Targets, Null

TablesInv == lBad = {} /\ Sound(lObjs, lBufs, NumPtrs(lAsk))

\* An object that is there.
LEMMA LiveObject ==
    ASSUME NEW n \in Nat, NEW objs, NEW bufs, Sound(objs, bufs, n),
           NEW o \in Objects, objs[o].live
    PROVE  /\ objs[o].ptr \in [1 .. n -> 0 .. MaxBufs] /\ Apart(objs[o].ptr, n)
           /\ objs[o].extra \subseteq 1 .. MaxBufs
           /\ Targets(objs[o].ptr) \cap objs[o].extra = {}
           /\ objs[o].refs \subseteq objs[o].extra
           /\ Arrays(objs[o]) = Targets(objs[o].ptr) \cup objs[o].extra
           /\ Arrays(objs[o]) \subseteq bufs
<1>1. ObjectSound(objs[o], n) /\ Arrays(objs[o]) \subseteq bufs
  BY OwnedInHeap DEF Sound
<1>2. objs[o] # Dead
  BY DEF Dead
<1>4. /\ objs[o].ptr \in [1 .. n -> 0 .. MaxBufs]
      /\ objs[o].extra \subseteq 1 .. MaxBufs
  BY <1>1, <1>2 DEF ObjectSound
<1>5. Arrays(objs[o]) = Targets(objs[o].ptr) \cup objs[o].extra
  BY DEF Arrays
<1> QED
  BY <1>1, <1>2, <1>4, <1>5 DEF ObjectSound

LEMMA DeadObject ==
    ASSUME NEW n \in Nat, NEW objs, NEW bufs, Sound(objs, bufs, n),
           NEW o \in Objects, ~objs[o].live
    PROVE  Arrays(objs[o]) = {}
BY DEF Arrays

\* The arrays of a constructor, the rest of the pointers null.
LEMMA MadeObject ==
    ASSUME NEW n \in Nat, NEW k \in 0 .. n, NEW v, NEW f \in [1 .. k -> 0 .. MaxBufs], Apart(f, k),
           NEW g, g = [i \in 1 .. n |-> IF i <= k THEN f[i] ELSE Null]
    PROVE  ObjectSound(Obj(v, g, {}, {}), n) /\ Arrays(Obj(v, g, {}, {})) = Targets(f)
<1>1. k \in Nat /\ k <= n
  OBVIOUS
<1>2. /\ \A i \in 1 .. n : i <= k => i \in 1 .. k /\ g[i] = f[i] /\ f[i] \in 0 .. MaxBufs
      /\ \A i \in 1 .. n : ~(i <= k) => g[i] = 0
      /\ \A i \in 1 .. k : i \in 1 .. n
  BY <1>1 DEF Null
<1>3. \A i \in 1 .. n : g[i] \in 0 .. MaxBufs
  BY <1>2, LoaderAssumption
<1>4. g \in [1 .. n -> 0 .. MaxBufs]
  BY <1>3
<1>5. Apart(g, n)
  BY <1>2 DEF Apart, Null
<1>6. Targets(g) = Targets(f)
  <2>1. DOMAIN g = 1 .. n /\ DOMAIN f = 1 .. k
    BY <1>4
  <2> QED
    BY <1>2, <2>1 DEF Targets, Null
<1>7. ASSUME NEW none, none = {}
      PROVE  ObjectSound(Obj(v, g, none, none), n) /\ Arrays(Obj(v, g, none, none)) = Targets(g)
  <2>1. none \subseteq 1 .. MaxBufs /\ none \subseteq none /\ Targets(g) \cap none = {} /\ Targets(g) \cup none = Targets(g)
    BY <1>7
  <2>2. ObjectSound(Obj(v, g, none, none), n)
    BY ONLY <2>1, n \in Nat, <1>4, <1>5, NewObject
  <2>3. Arrays(Obj(v, g, none, none)) = Targets(g) \cup none
    BY ONLY NewArrays
  <2> QED
    BY <2>1, <2>2, <2>3
<1> QED
  BY <1>6, <1>7, Zenon

LEMMA MakeKeeps ==
    ASSUME TablesInv, NEW o \in Objects, NEW v, NEW k \in 0 .. NumPtrs(lAsk), Make(o, v, k)
    PROVE  lBad' = {} /\ Sound(lObjs', lBufs', NumPtrs(lAsk))
<1>1. PICK n \in 1 .. 3 : n = NumPtrs(lAsk)
  BY HowManyPointers
<1>2. n \in Nat /\ k \in 0 .. n /\ k \in Nat
  BY <1>1
<1>3. Sound(lObjs, lBufs, n) /\ lBad = {}
  BY <1>1 DEF TablesInv
<1>4. lBufs \subseteq 1 .. MaxBufs
  BY <1>2, <1>3, OwnedInHeap
<1>5. Cardinality(lBufs) + k <= MaxBufs
  BY DEF Make, Room
<1>6. PICK f : f = Fresh(k, lBufs)
  OBVIOUS
<1>7. /\ f \in [1 .. k -> 0 .. MaxBufs] /\ Apart(f, k) /\ Targets(f) = FreshSet(k, lBufs)
      /\ FreshSet(k, lBufs) \subseteq (1 .. MaxBufs) \ lBufs
  BY <1>2, <1>4, <1>5, <1>6, FreshTargets
<1>8. PICK g : g = [i \in 1 .. n |-> IF i <= k THEN f[i] ELSE Null]
  OBVIOUS
<1>9. DOMAIN Nulls = 1 .. n
  BY <1>1 DEF Nulls
<1>10. /\ lObjs' = [lObjs EXCEPT ![o] = Obj(v, g, {}, {})]
       /\ lBufs' = lBufs \cup FreshSet(k, lBufs) /\ lBad' = lBad /\ ~lObjs[o].live
  BY <1>6, <1>8, <1>9 DEF Make
<1>11. ObjectSound(Obj(v, g, {}, {}), n) /\ Arrays(Obj(v, g, {}, {})) = Targets(f)
  BY <1>2, <1>7, <1>8, MadeObject
<1>12. Arrays(lObjs[o]) = {}
  BY <1>2, <1>3, <1>10, DeadObject
<1>13. lBufs' = (lBufs \ Arrays(lObjs[o])) \cup Arrays(Obj(v, g, {}, {}))
  BY <1>7, <1>10, <1>11, <1>12
<1>14. Arrays(Obj(v, g, {}, {})) \cap (lBufs \ Arrays(lObjs[o])) = {}
  BY <1>7, <1>11
<1>15. Sound([lObjs EXCEPT ![o] = Obj(v, g, {}, {})], lBufs', n)
  BY <1>2, <1>3, <1>11, <1>13, <1>14, ReplaceOne
<1> QED
  BY <1>1, <1>3, <1>10, <1>15

\* What the target of a copy or a move gives up: deleted, and what it keeps.
GivesUp(p, deleted, extra) ==
    IF lObjs[p].live THEN deleted = PtrsOf(p) /\ extra = lObjs[p].extra ELSE deleted = {} /\ extra = {}

LEMMA GivenUp ==
    ASSUME NEW n \in Nat, Sound(lObjs, lBufs, n), NEW p \in Objects,
           NEW deleted, NEW extra, GivesUp(p, deleted, extra)
    PROVE  /\ Arrays(lObjs[p]) = deleted \cup extra /\ deleted \cap extra = {}
           /\ deleted \subseteq lBufs /\ extra \subseteq lBufs /\ extra \subseteq 1 .. MaxBufs
<1>1. CASE lObjs[p].live
  <2>1. PtrsOf(p) = Targets(lObjs[p].ptr)
    BY DEF PtrsOf, Targets
  <2> QED
    BY <1>1, <2>1, LiveObject DEF GivesUp
<1>2. CASE ~lObjs[p].live
  BY <1>2, DeadObject DEF GivesUp
<1> QED
  BY <1>1, <1>2

LEMMA CopyKeeps ==
    ASSUME NEW n \in Nat, n = NumPtrs(lAsk), Sound(lObjs, lBufs, n), NEW o \in Objects, NEW p \in Objects,
           lObjs[o].refs = {}, NEW deleted, NEW extra, GivesUp(p, deleted, extra), CopyTo(o, p, deleted, extra)
    PROVE  Sound(lObjs', lBufs', n)
<1>1. /\ Arrays(lObjs[p]) = deleted \cup extra /\ deleted \cap extra = {}
      /\ deleted \subseteq lBufs /\ extra \subseteq lBufs /\ extra \subseteq 1 .. MaxBufs
  BY GivenUp
<1>2. PICK live : live = lBufs \ deleted
  OBVIOUS
<1>3. PICK f : f = Fresh(n, live)
  OBVIOUS
<1>4. /\ Cardinality(live) + n <= MaxBufs
      /\ lBufs' = live \cup FreshSet(n, live)
      /\ lObjs' = [lObjs EXCEPT ![p] = Obj(lObjs[o].val, f, extra, lObjs[o].refs)]
  BY <1>2, <1>3 DEF CopyTo
<1>5. live \subseteq 1 .. MaxBufs
  BY <1>2, OwnedInHeap
<1>6. /\ f \in [1 .. n -> 0 .. MaxBufs] /\ Apart(f, n) /\ Targets(f) = FreshSet(n, live)
      /\ FreshSet(n, live) \subseteq (1 .. MaxBufs) \ live
  BY <1>3, <1>4, <1>5, FreshTargets
<1>7. PICK v, x : v = lObjs[o].val /\ x = lObjs[o].refs
  OBVIOUS
<1>8. x \subseteq extra /\ Targets(f) \cap extra = {}
  BY <1>1, <1>2, <1>6, <1>7
<1>9. ObjectSound(Obj(v, f, extra, x), n)
  BY ONLY n \in Nat, <1>1, <1>6, <1>8, NewObject
<1>10. Arrays(Obj(v, f, extra, x)) = Targets(f) \cup extra
  BY ONLY NewArrays
<1>11. PICK r : r = Obj(v, f, extra, x)
  OBVIOUS
<1>12. /\ lBufs' = (lBufs \ Arrays(lObjs[p])) \cup Arrays(r)
       /\ Arrays(r) \cap (lBufs \ Arrays(lObjs[p])) = {}
  BY <1>1, <1>2, <1>4, <1>6, <1>10, <1>11
<1>13. lObjs' = [lObjs EXCEPT ![p] = r]
  BY <1>4, <1>7, <1>11
<1> QED
  BY <1>9, <1>11, <1>12, <1>13, ReplaceOne

LEMMA MoveKeeps ==
    ASSUME NEW n \in Nat, n = NumPtrs(lAsk), Sound(lObjs, lBufs, n), NEW o \in Objects, NEW p \in Objects,
           o # p, lObjs[o].live, lObjs[o].refs = {},
           NEW deleted, NEW extra, GivesUp(p, deleted, extra), MoveTo(o, p, deleted, extra)
    PROVE  Sound(lObjs', lBufs', n)
<1>1. /\ Arrays(lObjs[p]) = deleted \cup extra /\ deleted \cap extra = {}
      /\ deleted \subseteq lBufs /\ extra \subseteq lBufs /\ extra \subseteq 1 .. MaxBufs
  BY GivenUp
<1>2. PICK f, e, x, v, w : /\ f = lObjs[o].ptr /\ e = lObjs[o].extra /\ x = lObjs[o].refs
                           /\ v = lObjs[o].val /\ w = (Is("elf") /\ lObjs[o].val)
  OBVIOUS
<1>3. /\ f \in [1 .. n -> 0 .. MaxBufs] /\ Apart(f, n) /\ e \subseteq 1 .. MaxBufs
      /\ Targets(f) \cap e = {} /\ Arrays(lObjs[o]) = Targets(f) \cup e /\ Arrays(lObjs[o]) \subseteq lBufs
  BY <1>2, LiveObject
<1>4. Arrays(lObjs[o]) \cap Arrays(lObjs[p]) = {}
  BY DEF Sound, Shared
<1>5. PICK none : none = {}
  OBVIOUS
<1>6. PICK g : g = Nulls
  OBVIOUS
<1>7. g \in [1 .. n -> 0 .. MaxBufs] /\ Apart(g, n) /\ Targets(g) = {}
  BY <1>6, NoPointers
<1>8. PICK left, taken : left = Obj(w, g, e, none) /\ taken = Obj(v, f, extra, x)
  OBVIOUS
<1>9. /\ lBufs' = lBufs \ deleted
      /\ lObjs' = [[lObjs EXCEPT ![o] = left] EXCEPT ![p] = taken]
  <2>1. lObjs' = [lObjs EXCEPT ![p] = taken, ![o] = left]
    BY <1>2, <1>5, <1>6, <1>8 DEF MoveTo
  <2>2. lBufs' = lBufs \ deleted
    BY DEF MoveTo
  <2> QED
    BY <2>1, <2>2
<1>10. none \subseteq e /\ Targets(g) \cap e = {}
  BY <1>5, <1>7
<1>11. ObjectSound(left, n)
  BY ONLY n \in Nat, <1>3, <1>7, <1>8, <1>10, NewObject
<1>12. Arrays(left) = Targets(g) \cup e
  BY ONLY <1>8, NewArrays
<1>13. x \subseteq extra /\ Targets(f) \cap extra = {}
  BY <1>1, <1>2, <1>3, <1>4
<1>14. ObjectSound(taken, n)
  BY ONLY n \in Nat, <1>1, <1>3, <1>8, <1>13, NewObject
<1>15. Arrays(taken) = Targets(f) \cup extra
  BY ONLY <1>8, NewArrays
<1>16. PICK bufs, objs : bufs = lBufs \ Targets(f) /\ objs = [lObjs EXCEPT ![o] = left]
  OBVIOUS
<1>17. /\ bufs = (lBufs \ Arrays(lObjs[o])) \cup Arrays(left)
       /\ Arrays(left) \cap (lBufs \ Arrays(lObjs[o])) = {}
  BY <1>3, <1>7, <1>12, <1>16
<1>18. Sound(objs, bufs, n)
  BY <1>11, <1>16, <1>17, ReplaceOne
<1>19. objs[p] = lObjs[p]
  BY <1>16 DEF Sound
<1>20. PICK bufs2 : bufs2 = lBufs \ deleted
  OBVIOUS
<1>21. /\ bufs2 = (bufs \ Arrays(objs[p])) \cup Arrays(taken)
       /\ Arrays(taken) \cap (bufs \ Arrays(objs[p])) = {}
  BY <1>1, <1>3, <1>4, <1>15, <1>16, <1>19, <1>20
<1>22. Sound([objs EXCEPT ![p] = taken], bufs2, n)
  BY <1>14, <1>18, <1>21, ReplaceOne
<1> QED
  BY <1>9, <1>16, <1>20, <1>22

\* Three pointers of which one is null are not three arrays.
LEMMA ThreeArrays ==
    ASSUME NEW f \in [1 .. 3 -> 0 .. MaxBufs], Cardinality(Targets(f)) = 3
    PROVE  Null \notin {f[i] : i \in 1 .. 3}
<1>1. SUFFICES ASSUME NEW j \in 1 .. 3, f[j] = Null PROVE FALSE
  OBVIOUS
<1>2. \E a, b \in 1 .. 3 : \A i \in 1 .. 3 : i = j \/ i = a \/ i = b
  <2>1. j = 1 \/ j = 2 \/ j = 3
    OBVIOUS
  <2>2. 1 \in 1 .. 3 /\ 2 \in 1 .. 3 /\ 3 \in 1 .. 3 /\ \A i \in 1 .. 3 : i = 1 \/ i = 2 \/ i = 3
    OBVIOUS
  <2> QED
    BY ONLY <2>1, <2>2, Zenon
<1>3. PICK a, b \in 1 .. 3 : \A i \in 1 .. 3 : i = j \/ i = a \/ i = b
  BY <1>2
<1>4. PICK x, y : x = f[a] /\ y = f[b]
  OBVIOUS
<1>5. Targets(f) \subseteq {x} \cup {y}
  BY <1>1, <1>3, <1>4 DEF Targets
<1>6. IsFiniteSet({x}) /\ Cardinality({x}) = 1
  BY FS_Singleton
<1>7. IsFiniteSet({x} \cup {y}) /\ Cardinality({x} \cup {y}) \in {1, 2}
  BY <1>6, FS_AddElement
<1>8. Cardinality(Targets(f)) <= Cardinality({x} \cup {y})
  BY <1>5, <1>7, FS_Subset
<1> QED
  BY <1>7, <1>8

LEMMA FourKeeps ==
    ASSUME LCareful = TRUE, TablesInv, NEW o \in Objects, NEW p \in Objects, FourOf(o, p)
    PROVE  lBad' = {} /\ Sound(lObjs', lBufs', NumPtrs(lAsk))
<1>1. PICK n \in 1 .. 3 : n = NumPtrs(lAsk)
  BY HowManyPointers
<1>2. n \in Nat /\ Sound(lObjs, lBufs, n) /\ lBad = {}
  BY <1>1 DEF TablesInv
<1>3. lObjs[o].live /\ TableRules(o, p)
  BY DEF FourOf, Between
<1>4. o # p /\ lObjs[o].refs = {}
  BY <1>3 DEF TableRules
<1>5. PICK deleted, extra : /\ GivesUp(p, deleted, extra)
                            /\ CopyTo(o, p, deleted, extra) \/ MoveTo(o, p, deleted, extra)
  <2>1. CASE lObjs[p].live
    BY <2>1 DEF FourOf, GivesUp
  <2>2. CASE ~lObjs[p].live
    BY <2>2 DEF FourOf, GivesUp
  <2> QED
    BY <2>1, <2>2
<1>6. Arrays(lObjs[p]) = deleted \cup extra /\ deleted \subseteq lBufs
  BY <1>2, <1>5, GivenUp
<1>7. DeleteFaults(deleted) = {}
  BY <1>6 DEF DeleteFaults
<1>8. CASE MoveTo(o, p, deleted, extra)
  <2>1. lBad' = {}
    BY <1>2, <1>7, <1>8 DEF MoveTo
  <2>2. Sound(lObjs', lBufs', n)
    BY <1>1, <1>2, <1>3, <1>4, <1>5, <1>8, MoveKeeps
  <2> QED
    BY <1>1, <2>1, <2>2
<1>9. CASE CopyTo(o, p, deleted, extra)
  <2>1. Sound(lObjs', lBufs', n)
    BY <1>1, <1>2, <1>4, <1>5, <1>9, CopyKeeps
  <2>2. PICK live : live = lBufs \ deleted
    OBVIOUS
  <2>3. lBad' = lBad \cup DeleteFaults(deleted) \cup ReadFaults(o, live)
    BY <1>9, <2>2 DEF CopyTo
  <2>4. /\ lObjs[o].ptr \in [1 .. n -> 0 .. MaxBufs]
        /\ Arrays(lObjs[o]) = Targets(lObjs[o].ptr) \cup lObjs[o].extra /\ Arrays(lObjs[o]) \subseteq lBufs
    BY <1>2, <1>3, LiveObject
  <2>5. Arrays(lObjs[o]) \cap Arrays(lObjs[p]) = {}
    BY <1>2, <1>4 DEF Sound, Shared
  <2>6. PtrsOf(o) = Targets(lObjs[o].ptr)
    BY DEF PtrsOf, Targets
  <2>7. PtrsOf(o) \subseteq live
    BY <1>6, <2>2, <2>4, <2>5, <2>6
  <2>8. ~(Is("elf") /\ Null \in {lObjs[o].ptr[i] : i \in 1 .. 3})
    <3>1. SUFFICES ASSUME Is("elf") PROVE Null \notin {lObjs[o].ptr[i] : i \in 1 .. 3}
      OBVIOUS
    <3>2. n = 3
      BY <1>1, <3>1 DEF Is, NumPtrs
    <3>3. Cardinality(Targets(lObjs[o].ptr)) = 3
      BY <1>3, <2>6, <3>1 DEF TableRules
    <3> QED
      BY <2>4, <3>2, <3>3, ThreeArrays
  <2>9. ReadFaults(o, live) = {}
    BY <2>7, <2>8 DEF ReadFaults
  <2> QED
    BY <1>1, <1>2, <1>7, <2>1, <2>3, <2>9
<1> QED
  BY <1>5, <1>8, <1>9

LEMMA DestroyKeeps ==
    ASSUME TablesInv, NEW o \in Objects, Destroy(o)
    PROVE  lBad' = {} /\ Sound(lObjs', lBufs', NumPtrs(lAsk))
<1>1. PICK n \in 1 .. 3 : n = NumPtrs(lAsk)
  BY HowManyPointers
<1>2. n \in Nat /\ Sound(lObjs, lBufs, n) /\ lBad = {} /\ lObjs[o].live
  BY <1>1 DEF TablesInv, Destroy
<1>3. PICK gone : gone = PtrsOf(o) \cup lObjs[o].extra
  OBVIOUS
<1>4. lBad' = lBad \cup DeleteFaults(gone) /\ lBufs' = lBufs \ gone /\ lObjs' = [lObjs EXCEPT ![o] = Dead]
  BY <1>3 DEF Destroy
<1>5. gone = Arrays(lObjs[o])
  BY <1>2, <1>3 DEF Arrays, PtrsOf, Targets
<1>6. gone \subseteq lBufs
  BY <1>2, <1>5, LiveObject
<1>7. lBad' = {}
  BY <1>2, <1>4, <1>6 DEF DeleteFaults
<1>8. ObjectSound(Dead, n) /\ Arrays(Dead) = {}
  BY DEF ObjectSound, Arrays, Dead
<1>9. lBufs' = (lBufs \ Arrays(lObjs[o])) \cup Arrays(Dead) /\ Arrays(Dead) \cap (lBufs \ Arrays(lObjs[o])) = {}
  BY <1>4, <1>5, <1>8
<1>10. Sound([lObjs EXCEPT ![o] = Dead], lBufs', n)
  BY <1>2, <1>8, <1>9, ReplaceOne
<1> QED
  BY <1>1, <1>4, <1>7, <1>10

LEMMA RemapKeeps ==
    ASSUME TablesInv, NEW o \in Objects, NEW k \in 1 .. 2, RemapSections(o, k)
    PROVE  lBad' = {} /\ Sound(lObjs', lBufs', NumPtrs(lAsk))
<1>1. PICK n \in 1 .. 3 : n = NumPtrs(lAsk)
  BY HowManyPointers
<1>2. n \in Nat /\ k \in Nat /\ Sound(lObjs, lBufs, n) /\ lBad = {} /\ lObjs[o].live
  BY <1>1 DEF TablesInv, RemapSections
<1>3. lBufs \subseteq 1 .. MaxBufs
  BY <1>2, OwnedInHeap
<1>4. Cardinality(lBufs) + k <= MaxBufs
  BY DEF RemapSections, Room
<1>5. PICK new : new = FreshSet(k, lBufs)
  OBVIOUS
<1>6. new \subseteq (1 .. MaxBufs) \ lBufs
  BY <1>2, <1>3, <1>4, <1>5, FreshTargets
<1>7. PICK f, e, e2, v : f = lObjs[o].ptr /\ e = lObjs[o].extra /\ v = lObjs[o].val /\ e2 = e \cup new
  OBVIOUS
<1>8. /\ f \in [1 .. n -> 0 .. MaxBufs] /\ Apart(f, n) /\ e \subseteq 1 .. MaxBufs
      /\ Targets(f) \cap e = {} /\ Arrays(lObjs[o]) = Targets(f) \cup e /\ Arrays(lObjs[o]) \subseteq lBufs
  BY <1>2, <1>7, LiveObject
<1>9. PICK r : r = Obj(v, f, e2, new)
  OBVIOUS
<1>10. lObjs' = [lObjs EXCEPT ![o] = r] /\ lBufs' = lBufs \cup new /\ lBad' = lBad
  BY <1>5, <1>7, <1>9 DEF RemapSections
<1>11. e2 \subseteq 1 .. MaxBufs /\ new \subseteq e2 /\ Targets(f) \cap e2 = {}
  BY <1>6, <1>7, <1>8
<1>12. ObjectSound(r, n)
  BY ONLY n \in Nat, <1>8, <1>9, <1>11, NewObject
<1>13. Arrays(r) = Targets(f) \cup e2
  BY ONLY <1>9, NewArrays
<1>14. /\ lBufs' = (lBufs \ Arrays(lObjs[o])) \cup Arrays(r)
       /\ Arrays(r) \cap (lBufs \ Arrays(lObjs[o])) = {}
  BY <1>6, <1>7, <1>8, <1>10, <1>13
<1>15. Sound([lObjs EXCEPT ![o] = r], lBufs', n)
  BY <1>2, <1>12, <1>14, ReplaceOne
<1> QED
  BY <1>1, <1>2, <1>10, <1>15

LEMMA MakingKeeps ==
    ASSUME LCareful = TRUE, TablesInv, NEW o \in Objects, Making(o)
    PROVE  lBad' = {} /\ Sound(lObjs', lBufs', NumPtrs(lAsk))
<1>1. PICK n \in 1 .. 3 : n = NumPtrs(lAsk)
  BY HowManyPointers
<1>2. \E v : \E k \in 0 .. n : Make(o, v, k)
  <2>1. ~MakeWild(o)
    BY DEF MakeWild
  <2>2. 0 \in 0 .. n /\ 1 \in 0 .. n
    BY <1>1
  <2>3. CASE SectionMake(o)
    BY <2>2, <2>3, Zenon DEF SectionMake
  <2>4. CASE SectionTabMake(o)
    BY <2>1, <2>2, <2>4, Zenon DEF SectionTabMake
  <2>5. CASE ProgramTabMake(o)
    BY <2>1, <2>2, <2>5, Zenon DEF ProgramTabMake
  <2>6. CASE AOutMake(o)
    <3>1. n = 2
      BY <1>1, <2>6 DEF AOutMake, Is, NumPtrs
    <3>2. 2 \in 0 .. n
      BY <3>1
    <3> QED
      BY <2>2, <2>6, <3>2, Zenon DEF AOutMake
  <2>7. CASE ElfMake(o)
    <3>1. n = 3
      BY <1>1, <2>7 DEF ElfMake, Is, NumPtrs
    <3>2. 3 \in 0 .. n /\ \A k \in 0 .. 3 : k \in 0 .. n
      BY <3>1
    <3> QED
      BY <2>7, <3>2, Zenon DEF ElfMake
  <2> QED
    BY <2>3, <2>4, <2>5, <2>6, <2>7 DEF Making
<1> QED
  BY <1>1, <1>2, MakeKeeps

LEMMA GetNameKeeps ==
    ASSUME TablesInv, NEW o \in Objects, GetName(o)
    PROVE  lBad' = {} /\ Sound(lObjs', lBufs', NumPtrs(lAsk))
<1>1. PICK n \in 1 .. 3 : n = NumPtrs(lAsk)
  BY HowManyPointers
<1>2. n \in Nat /\ Sound(lObjs, lBufs, n) /\ lBad = {} /\ lObjs[o].live
  BY <1>1 DEF TablesInv, GetName
<1>3. PtrsOf(o) = Targets(lObjs[o].ptr)
  BY DEF PtrsOf, Targets
<1>4. lObjs[o].refs \cup PtrsOf(o) \subseteq lBufs
  BY <1>2, <1>3, LiveObject
<1>5. lBad' = {} /\ lObjs' = lObjs /\ lBufs' = lBufs
  BY <1>2, <1>4 DEF GetName
<1> QED
  BY <1>1, <1>2, <1>5

LEMMA TablesStart ==
    ASSUME LoaderInit
    PROVE  TablesInv
<1>1. lObjs = [o \in Objects |-> Dead] /\ lBufs = {} /\ lBad = {}
  BY DEF LoaderInit
<1>2. \A o \in Objects : lObjs[o] = Dead /\ Arrays(lObjs[o]) = {}
  BY <1>1 DEF Arrays, Dead
<1>3. Shared(lObjs, lBufs)
  BY <1>1, <1>2 DEF Shared
<1> QED
  BY <1>1, <1>2, <1>3 DEF TablesInv, Sound, ObjectSound

LEMMA TablesStep ==
    ASSUME LCareful = TRUE, TablesInv, [LoaderNext]_loaderVars
    PROVE  TablesInv'
<1>1. CASE UNCHANGED tableVars /\ lAsk' = lAsk
  BY <1>1 DEF TablesInv, tableVars
<1>2. ASSUME NEW o \in Objects, TableStep(o)
      PROVE  TablesInv'
  <2>1. lAsk' = lAsk
    BY <1>2, CallsLeaveImage DEF Call
  <2>2. ASSUME NEW k \in 1 .. 2, RemapSections(o, k)
        PROVE  lBad' = {} /\ Sound(lObjs', lBufs', NumPtrs(lAsk))
    BY <2>2, RemapKeeps
  <2>3. ASSUME NEW p \in Objects, FourOf(o, p)
        PROVE  lBad' = {} /\ Sound(lObjs', lBufs', NumPtrs(lAsk))
    BY <2>3, FourKeeps
  <2>4. lBad' = {} /\ Sound(lObjs', lBufs', NumPtrs(lAsk))
    BY <1>2, <2>2, <2>3, MakingKeeps, DestroyKeeps, GetNameKeeps DEF TableStep
  <2> QED
    BY <2>1, <2>4 DEF TablesInv
<1>3. \/ Construct \/ Allocate \/ Deallocate \/ (\E opens \in BOOLEAN : Load(opens)) \/ UNCHANGED loaderVars
         => UNCHANGED tableVars /\ lAsk' = lAsk
  BY DEF Construct, Allocate, Deallocate, Load, loaderVars
<1> QED
  BY <1>1, <1>2, <1>3, StepsOfLoader

LEMMA TablesHold == TablesInv => TablesOwned
<1>1. SUFFICES ASSUME TablesInv PROVE TablesOwned
  OBVIOUS
<1>2. PICK n \in 1 .. 3 : n = NumPtrs(lAsk)
  BY HowManyPointers
<1>3. n \in Nat /\ Sound(lObjs, lBufs, n) /\ lBad = {}
  BY <1>1, <1>2 DEF TablesInv
<1> DEFINE Has(x, b) == lObjs[x[1]].live /\ (IF x[2] = 0 THEN b \in lObjs[x[1]].extra
                                           ELSE x[2] <= NumPtrs(lAsk) /\ lObjs[x[1]].ptr[x[2]] = b)
           Owners(b) == {x \in Objects \X (0 .. 3) : Has(x, b)}
<1>4. ASSUME NEW b \in lBufs
      PROVE  Cardinality(Owners(b)) = 1
  <2>1. b # Null
    <3>1. lBufs \subseteq 1 .. MaxBufs
      BY <1>3, OwnedInHeap
    <3> QED
      BY <3>1, LoaderAssumption DEF Null
  <2>2. PICK o \in Objects : b \in Arrays(lObjs[o])
    BY <1>3 DEF Sound, Shared
  <2>3. lObjs[o].live
    BY <2>2 DEF Arrays
  <2>4. /\ lObjs[o].ptr \in [1 .. n -> 0 .. MaxBufs] /\ Apart(lObjs[o].ptr, n)
        /\ Targets(lObjs[o].ptr) \cap lObjs[o].extra = {}
    BY <1>3, <2>3, LiveObject
  <2>5. ASSUME NEW p \in Objects, NEW k \in 0 .. 3, Has(<<p, k>>, b)
        PROVE  p = o
    <3>1. lObjs[p].live
      BY <2>5
    <3>2. lObjs[p].ptr \in [1 .. n -> 0 .. MaxBufs]
      BY <1>3, <3>1, LiveObject
    <3>3. CASE k = 0
      BY <1>3, <2>2, <2>5, <3>1, <3>3 DEF Arrays, Sound, Shared
    <3>4. CASE k # 0
      <4>1. k \in 1 .. n /\ lObjs[p].ptr[k] = b
        BY <1>2, <2>5, <3>4
      <4>2. b \in Targets(lObjs[p].ptr)
        BY <2>1, <3>2, <4>1 DEF Targets
      <4> QED
        BY <1>3, <2>2, <3>1, <4>2 DEF Arrays, Sound, Shared
    <3> QED
      BY <3>3, <3>4
  <2>6. CASE b \in lObjs[o].extra
    <3>1. <<o, 0>> \in Owners(b)
      BY <2>3, <2>6
    <3>2. ASSUME NEW k \in 0 .. 3, Has(<<o, k>>, b) PROVE k = 0
      <4>1. SUFFICES ASSUME k # 0 PROVE FALSE
        OBVIOUS
      <4>2. k \in 1 .. n /\ lObjs[o].ptr[k] = b
        BY <1>2, <3>2, <4>1
      <4>3. b \in Targets(lObjs[o].ptr)
        BY <2>1, <2>4, <4>2 DEF Targets
      <4> QED
        BY <2>4, <2>6, <4>3
    <3>3. Owners(b) = {<<o, 0>>}
      BY <2>5, <3>1, <3>2
    <3> QED
      BY <3>3, FS_Singleton
  <2>7. CASE b \notin lObjs[o].extra
    <3>1. b \in Targets(lObjs[o].ptr)
      BY <2>2, <2>3, <2>7 DEF Arrays
    <3>2. PICK j \in 1 .. n : lObjs[o].ptr[j] = b
      BY <2>4, <3>1 DEF Targets
    <3>3. j \in 0 .. 3 /\ j # 0 /\ j <= NumPtrs(lAsk)
      BY <1>2
    <3>4. <<o, j>> \in Owners(b)
      BY <2>3, <3>2, <3>3
    <3>5. ASSUME NEW k \in 0 .. 3, Has(<<o, k>>, b) PROVE k = j
      <4>1. k # 0
        BY <2>7, <3>5
      <4>2. k \in 1 .. n /\ lObjs[o].ptr[k] = b
        BY <1>2, <3>5, <4>1
      <4> QED
        BY <2>1, <2>4, <3>2, <4>2 DEF Apart
    <3>6. Owners(b) = {<<o, j>>}
      BY <2>5, <3>4, <3>5
    <3> QED
      BY <3>6, FS_Singleton
  <2> QED
    BY <2>6, <2>7
<1>5. ASSUME NEW o \in Objects, lObjs[o].live
      PROVE  PtrsOf(o) \cup lObjs[o].refs \subseteq lBufs
  <2>1. PtrsOf(o) = Targets(lObjs[o].ptr)
    BY DEF PtrsOf, Targets
  <2> QED
    BY <1>3, <1>5, <2>1, LiveObject
<1> QED
  BY <1>3, <1>4, <1>5 DEF TablesOwned

\* Whatever header tables are made, copied, moved and destroyed, as long as a
\* caller keeps the rules of TableRules, each array is owned once, freed once
\* and never read after that, and no header points at a section that is gone.
THEOREM ArraysOwned ==
    ASSUME LCareful = TRUE
    PROVE  LoaderSpec => []TablesOwned
<1>1. LoaderInit => TablesInv
  BY TablesStart
<1>2. TablesInv /\ [LoaderNext]_loaderVars => TablesInv'
  BY TablesStep
<1> QED
  BY <1>1, <1>2, TablesHold, PTL DEF LoaderSpec

-----------------------------------------------------------------------------
(* Exceptions: the answer of a call site and of a table                    *)
Modes == {"body", "pad", "catch", "cleanup"}
Frames == [lsda : Lsdas, ip : CallIps, mode : Modes, exc : Nat]
Phases == {"search", "cleanup", "landed", "terminate"}
Flights == [exc : Nat, phase : Phases, at : Nat, target : Nat]

\* Without pointers a clause takes what it matches.
LEMMA CanHandleMatches ==
    ASSUME XCareful = TRUE, ~xJunk, NEW t \in ThrowTypes, NEW c \in Clauses, c # CleanupIndex
    PROVE  CanHandle(c, t) <=> Matches(c, t)
<1>1. t.ptr = FALSE
  BY DEF ThrowTypes, Class
<1>2. DoCatch(c, t) <=> c = t \/ (~c.ptr /\ IsBaseOf(c.cls, t.cls))
  BY <1>1 DEF DoCatch
<1> QED BY <1>1, <1>2 DEF CanHandle, Matches

\* Is there an action for the type, or one for every type?
Taking(acts, t) == \E k \in DOMAIN acts : acts[k] # CleanupIndex /\ Matches(acts[k], t)
Cleaning(acts) == \E k \in DOMAIN acts : acts[k] = CleanupIndex

LEMMA ActionChosen ==
    ASSUME XCareful = TRUE, ~xJunk, NEW t \in ThrowTypes, NEW acts \in Seq(Clauses)
    PROVE  /\ ActionAt(acts, t, "search") = IF Taking(acts, t) THEN "handler" ELSE "continue"
           /\ Cleaning(acts) => ActionAt(acts, t, "cleanup") # "continue"
           /\ ~Taking(acts, t) => ActionAt(acts, t, "cleanup") # "handler"
           /\ Taking(acts, t) /\ (\A k \in DOMAIN acts : acts[k] = CleanupIndex => k = Len(acts))
                 => ActionAt(acts, t, "cleanup") = "handler"
<1>1. \A k \in DOMAIN acts : acts[k] \in Clauses
  OBVIOUS
<1>2. DOMAIN acts \subseteq Nat /\ DOMAIN acts = 1 .. Len(acts)
  OBVIOUS
<1>a. \A k \in DOMAIN acts : acts[k] # CleanupIndex => (CanHandle(acts[k], t) <=> Matches(acts[k], t))
  BY <1>1, CanHandleMatches
<1> DEFINE stops(phase, i) == IF acts[i] = CleanupIndex THEN phase = "cleanup" ELSE CanHandle(acts[i], t)
           at(phase) == {i \in DOMAIN acts : stops(phase, i)}
           first(phase) == CHOOSE j \in at(phase) : \A k \in at(phase) : j <= k
<1>3. \A phase : ActionAt(acts, t, phase) =
        IF at(phase) = {} THEN "continue" ELSE IF acts[first(phase)] = CleanupIndex THEN "cleanup" ELSE "handler"
  BY Zenon DEF ActionAt
<1>4. \A phase : at(phase) # {} => first(phase) \in at(phase) /\ \A k \in at(phase) : first(phase) <= k
  <2> TAKE phase
  <2> HAVE at(phase) # {}
  <2>1. at(phase) \subseteq Nat
    BY <1>2
  <2> HIDE DEF at
  <2>2. \E j \in at(phase) : \A k \in at(phase) : j <= k
    BY <2>1, Least
  <2> QED BY <2>2
<1> HIDE DEF first
<1>5. ActionAt(acts, t, "search") = IF Taking(acts, t) THEN "handler" ELSE "continue"
  <2>1. \A k : k \in at("search") <=> k \in DOMAIN acts /\ acts[k] # CleanupIndex /\ Matches(acts[k], t)
    BY <1>a
  <2>2. Taking(acts, t) <=> at("search") # {}
    BY <2>1 DEF Taking
  <2>3. at("search") # {} => acts[first("search")] # CleanupIndex
    BY <1>4, <2>1
  <2> HIDE DEF at
  <2> QED BY <1>3, <2>2, <2>3
<1>6. \A k : k \in at("cleanup") <=> k \in DOMAIN acts /\ (acts[k] = CleanupIndex \/ Matches(acts[k], t))
  BY <1>a DEF Matches
<1> HIDE DEF at
<1>7. Cleaning(acts) => ActionAt(acts, t, "cleanup") # "continue"
  BY <1>3, <1>6 DEF Cleaning
<1>8. ~Taking(acts, t) => ActionAt(acts, t, "cleanup") # "handler"
  BY <1>3, <1>4, <1>6 DEF Taking
<1>9. ASSUME Taking(acts, t), \A k \in DOMAIN acts : acts[k] = CleanupIndex => k = Len(acts)
      PROVE  ActionAt(acts, t, "cleanup") = "handler"
  <2>1. PICK k \in DOMAIN acts : acts[k] # CleanupIndex /\ Matches(acts[k], t)
    BY <1>9 DEF Taking
  <2>2. k \in at("cleanup")
    BY <2>1, <1>6
  <2>3. first("cleanup") \in at("cleanup") /\ first("cleanup") <= k
    BY <2>2, <1>4
  <2>4. first("cleanup") \in DOMAIN acts /\ (acts[first("cleanup")] = CleanupIndex => first("cleanup") = Len(acts))
    BY <2>3, <1>6, <1>9
  <2>5. acts[first("cleanup")] # CleanupIndex
    BY <2>1, <2>3, <2>4, <1>2
  <2> QED BY <2>2, <2>5, <1>3
<1> QED BY <1>5, <1>7, <1>8, <1>9

\* The answer of one call site.
SiteAnswer(cs, ip, t, phase) ==
    IF ~cs.lp \/ ~ContainsIp(cs, ip) THEN "continue"
    ELSE IF cs.acts = <<>> THEN (IF phase = "cleanup" THEN "cleanup" ELSE "continue")
    ELSE ActionAt(cs.acts, t, phase)

LEMMA SiteChosen ==
    ASSUME XCareful = TRUE, ~xJunk, NEW t \in ThrowTypes, NEW cs \in CallSites, NEW ip \in Nat, ip # cs.start + cs.len,
           \A k \in DOMAIN cs.acts : cs.acts[k] = CleanupIndex => k = Len(cs.acts)
    PROVE  /\ SiteAnswer(cs, ip, t, "search") = IF Surrounds(cs, ip) /\ Taking(cs.acts, t) THEN "handler" ELSE "continue"
           /\ Surrounds(cs, ip) /\ (cs.acts = <<>> \/ Cleaning(cs.acts)) => SiteAnswer(cs, ip, t, "cleanup") # "continue"
           /\ ~(Surrounds(cs, ip) /\ Taking(cs.acts, t)) => SiteAnswer(cs, ip, t, "cleanup") # "handler"
           /\ Surrounds(cs, ip) /\ Taking(cs.acts, t) => SiteAnswer(cs, ip, t, "cleanup") = "handler"
           /\ ~Surrounds(cs, ip) => \A phase : SiteAnswer(cs, ip, t, phase) = "continue"
<1>1. cs.start \in Nat /\ cs.len \in Nat /\ cs.acts \in Seq(Clauses)
  BY DEF CallSites
<1>i. ContainsIp(cs, ip) <=> ip \in cs.start .. cs.start + cs.len - 1
  BY ONLY <1>1, ip \in Nat, ip # cs.start + cs.len DEF ContainsIp
<1>2. Surrounds(cs, ip) <=> ~(~cs.lp \/ ~ContainsIp(cs, ip))
  BY ONLY <1>i, Zenon DEF Surrounds
<1>3. cs.acts = <<>> => ~Taking(cs.acts, t)
  BY DEF Taking
<1> DEFINE acts == cs.acts
<1>4. /\ ActionAt(acts, t, "search") = IF Taking(acts, t) THEN "handler" ELSE "continue"
      /\ Cleaning(acts) => ActionAt(acts, t, "cleanup") # "continue"
      /\ ~Taking(acts, t) => ActionAt(acts, t, "cleanup") # "handler"
      /\ Taking(acts, t) => ActionAt(acts, t, "cleanup") = "handler"
  BY <1>1, ActionChosen
<1>5. ~Surrounds(cs, ip) => \A phase : SiteAnswer(cs, ip, t, phase) = "continue"
  BY <1>2 DEF SiteAnswer
<1>6. Surrounds(cs, ip) => /\ SiteAnswer(cs, ip, t, "search") = IF acts = <<>> THEN "continue" ELSE ActionAt(acts, t, "search")
                           /\ SiteAnswer(cs, ip, t, "cleanup") = IF acts = <<>> THEN "cleanup" ELSE ActionAt(acts, t, "cleanup")
  BY <1>2 DEF SiteAnswer
<1> QED BY <1>3, <1>4, <1>5, <1>6

\* In the search a frame answers if it takes the exception; in the second walk it
\* does so too, and else runs the cleanup it has.
LEMMA Answering ==
    ASSUME XCareful = TRUE, ~xJunk, NEW t \in ThrowTypes, NEW f \in Frames
    PROVE  /\ Takes(f, t) => Answers(f, t, "search") = "handler" /\ Answers(f, t, "cleanup") = "handler"
           /\ ~Takes(f, t) => Answers(f, t, "search") = "continue" /\ Answers(f, t, "cleanup") # "handler"
           /\ Answers(f, t, "cleanup") = "continue" => ~HasCleanup(f)
           /\ Answers(f, t, "cleanup") # "continue" => f.mode = "body"
           /\ Takes(f, t) => f.mode = "body"
<1> DEFINE l == f.lsda
           ip == f.ip
           answer(phase, i) == SiteAnswer(l[i], ip, t, phase)
           at(phase) == {i \in DOMAIN l : answer(phase, i) # "continue"}
           first(phase) == CHOOSE i \in at(phase) : \A j \in at(phase) : i <= j
<1>1. /\ l \in Seq(CallSites) /\ ip \in Nat
      /\ \A i \in DOMAIN l : ip # l[i].start + l[i].len
      /\ \A i, j \in DOMAIN l : Surrounds(l[i], ip) /\ Surrounds(l[j], ip) => i = j
      /\ \A i \in DOMAIN l : \A k \in DOMAIN l[i].acts : l[i].acts[k] = CleanupIndex => k = Len(l[i].acts)
  <2>1. l \in Lsdas /\ ip \in CallIps
    BY DEF Frames
  <2> QED BY <2>1, ExcAssumption
<1>2. CASE f.mode # "body"
  BY <1>2 DEF Answers, Takes, HasCleanup
<1>3. CASE f.mode = "body"
  <2>1. \A phase : Answers(f, t, phase) = IF at(phase) = {} THEN "continue" ELSE answer(phase, first(phase))
    BY <1>3, Zenon DEF Answers, Personality, SiteAnswer
  <2>2. \A phase : at(phase) # {} => first(phase) \in at(phase)
    <3> TAKE phase
    <3> HAVE at(phase) # {}
    <3>1. at(phase) \subseteq Nat
      BY <1>1
    <3> HIDE DEF at
    <3>2. \E i \in at(phase) : \A j \in at(phase) : i <= j
      BY <3>1, Least
    <3> QED BY <3>2
  <2> HIDE DEF first
  <2>3. \A i \in DOMAIN l :
           /\ answer("search", i) = IF Surrounds(l[i], ip) /\ Taking(l[i].acts, t) THEN "handler" ELSE "continue"
           /\ Surrounds(l[i], ip) /\ (l[i].acts = <<>> \/ Cleaning(l[i].acts)) => answer("cleanup", i) # "continue"
           /\ ~(Surrounds(l[i], ip) /\ Taking(l[i].acts, t)) => answer("cleanup", i) # "handler"
           /\ Surrounds(l[i], ip) /\ Taking(l[i].acts, t) => answer("cleanup", i) = "handler"
           /\ ~Surrounds(l[i], ip) => \A phase : answer(phase, i) = "continue"
    <3> TAKE i \in DOMAIN l
    <3>1. l[i] \in CallSites
      BY <1>1
    <3> QED BY <3>1, <1>1, SiteChosen
  <2>4. Takes(f, t) <=> \E i \in DOMAIN l : Surrounds(l[i], ip) /\ Taking(l[i].acts, t)
    BY <1>3 DEF Takes, Taking
  <2>5. HasCleanup(f) <=> \E i \in DOMAIN l : Surrounds(l[i], ip) /\ (l[i].acts = <<>> \/ Cleaning(l[i].acts))
    BY <1>3 DEF HasCleanup, Cleaning
  <2> HIDE DEF answer
  <2>6. \A phase : at(phase) # {} => first(phase) \in DOMAIN l /\ Surrounds(l[first(phase)], ip)
    BY <2>2, <2>3
  <2>7. Takes(f, t) => Answers(f, t, "search") = "handler" /\ Answers(f, t, "cleanup") = "handler"
    <3> SUFFICES ASSUME Takes(f, t) PROVE Answers(f, t, "search") = "handler" /\ Answers(f, t, "cleanup") = "handler"
      OBVIOUS
    <3>1. PICK i \in DOMAIN l : Surrounds(l[i], ip) /\ Taking(l[i].acts, t)
      BY <2>4
    <3>2. answer("search", i) = "handler" /\ answer("cleanup", i) = "handler"
      BY <3>1, <2>3
    <3>3. i \in at("search") /\ i \in at("cleanup")
      BY <3>2
    <3>4. first("search") = i /\ first("cleanup") = i
      BY <3>1, <3>3, <2>6, <1>1
    <3> HIDE DEF at
    <3> QED BY <3>2, <3>3, <3>4, <2>1
  <2>8. ~Takes(f, t) => Answers(f, t, "search") = "continue" /\ Answers(f, t, "cleanup") # "handler"
    <3> SUFFICES ASSUME ~Takes(f, t) PROVE Answers(f, t, "search") = "continue" /\ Answers(f, t, "cleanup") # "handler"
      OBVIOUS
    <3>1. \A i \in DOMAIN l : answer("search", i) = "continue" /\ answer("cleanup", i) # "handler"
      BY <2>3, <2>4
    <3>2. at("search") = {}
      BY <3>1
    <3>3. Answers(f, t, "search") = "continue"
      BY <3>2, <2>1, Zenon
    <3>4. at("cleanup") # {} => answer("cleanup", first("cleanup")) # "handler"
      BY <3>1, <2>6
    <3> HIDE DEF at
    <3> QED BY <3>3, <3>4, <2>1
  <2>9. Answers(f, t, "cleanup") = "continue" => ~HasCleanup(f)
    <3> SUFFICES ASSUME HasCleanup(f) PROVE Answers(f, t, "cleanup") # "continue"
      OBVIOUS
    <3>1. PICK i \in DOMAIN l : answer("cleanup", i) # "continue"
      BY <2>3, <2>5
    <3>2. at("cleanup") # {}
      BY <3>1
    <3>3. answer("cleanup", first("cleanup")) # "continue"
      BY <3>2, <2>2
    <3> HIDE DEF at
    <3> QED BY <3>2, <3>3, <2>1
  <2> QED BY <2>7, <2>8, <2>9, <1>3
<1> QED BY <1>2, <1>3

-----------------------------------------------------------------------------
(* Handlers: k maps the frame of each handler to its exception, c is the   *)
(* caught exception and X the exception objects                            *)
UsesIn(k, e) == Cardinality({i \in DOMAIN k : k[i] = e})
Latest(k, c) ==
    \/ c = 0 /\ DOMAIN k = {}
    \/ \E i \in DOMAIN k : k[i] = c /\ \A j \in DOMAIN k : j <= i
\* Below a handler is another of the same exception or the handler of the next.
Linked(k, X) == \A i \in DOMAIN k :
    /\ k[i] \in DOMAIN X
    /\ \/ Innermost(k, i - 1, k[i])
       \/ Innermost(k, i - 1, X[k[i]].next) /\ \A j \in DOMAIN k : j < i => k[j] # k[i]
\* The count of an exception that flies or is about to be caught is negative.
Counted(k, up, X) == \A e \in DOMAIN X :
    /\ e \in up => X[e].count = -UsesIn(k, e)
    /\ e \notin up /\ (\E i \in DOMAIN k : k[i] = e) => X[e].count = UsesIn(k, e)
\* The handlers of an exception, if it has any, are the innermost, ...
Recent(k, c, e) == c = e \/ \A i \in DOMAIN k : k[i] # e
\* ... or the innermost below a frame.
RecentBelow(k, b, e) ==
    \/ \A i \in DOMAIN k : k[i] # e
    \/ \E i \in DOMAIN k : i < b /\ k[i] = e /\ \A j \in DOMAIN k : j < b \/ k[j] = e => j <= i
\* No handler lies above the flight of its exception or the cleanup it waits in.
Bounded(k, F, pad, c) ==
    /\ \A e \in pad : Recent(k, c, e)
    /\ \A i \in DOMAIN F : IF F[i].phase = "landed" THEN RecentBelow(k, F[i].at, F[i].exc) ELSE Recent(k, c, F[i].exc)
\* An exception flies once, or is about to be caught.
Distinct(F, pad, X) ==
    /\ \A i, j \in DOMAIN F : F[i].exc = F[j].exc => i = j
    /\ \A e \in pad : e \in DOMAIN X /\ \A i \in DOMAIN F : F[i].exc # e
UpSet(F, pad) == {F[i].exc : i \in DOMAIN F} \cup pad

\* Who needs an exception: a flight, or a handler.
Needed(k, up, e) == e \in up \/ \E i \in DOMAIN k : k[i] = e

LEMMA NoUses ==
    ASSUME NEW n \in Nat, NEW k, DOMAIN k \subseteq 1 .. n, NEW e
    PROVE  UsesIn(k, e) \in Nat /\ (UsesIn(k, e) = 0 <=> \A i \in DOMAIN k : k[i] # e)
<1> DEFINE at == {i \in DOMAIN k : k[i] = e}
<1>1. IsFiniteSet(at)
  <2>1. IsFiniteSet(1 .. n)
    BY FS_Interval
  <2>2. at \subseteq 1 .. n
    OBVIOUS
  <2> QED BY <2>1, <2>2, FS_Subset
<1>2. Cardinality(at) \in Nat /\ (Cardinality(at) = 0 <=> at = {})
  BY <1>1, FS_CardinalityType, FS_EmptySet
<1> QED BY <1>2 DEF UsesIn

\* One handler more.
LEMMA UsesAdded ==
    ASSUME NEW n \in Nat, NEW k, DOMAIN k \subseteq 1 .. n, NEW m, m \notin DOMAIN k, NEW k2,
           DOMAIN k2 = DOMAIN k \cup {m}, \A i \in DOMAIN k : k2[i] = k[i]
    PROVE  /\ UsesIn(k2, k2[m]) = UsesIn(k, k2[m]) + 1
           /\ \A d : d # k2[m] => UsesIn(k2, d) = UsesIn(k, d)
<1> DEFINE at(d) == {i \in DOMAIN k : k[i] = d}
           at2(d) == {i \in DOMAIN k2 : k2[i] = d}
<1>1. \A d : IsFiniteSet(at(d))
  <2>1. IsFiniteSet(1 .. n)
    BY FS_Interval
  <2> TAKE d
  <2>2. at(d) \subseteq 1 .. n
    OBVIOUS
  <2> QED BY <2>1, <2>2, FS_Subset
<1>2. at2(k2[m]) = at(k2[m]) \cup {m} /\ m \notin at(k2[m])
  OBVIOUS
<1>3. \A d : d # k2[m] => at2(d) = at(d)
  OBVIOUS
<1>4. Cardinality(at2(k2[m])) = Cardinality(at(k2[m])) + 1
  <2> PICK d : d = k2[m]
    OBVIOUS
  <2>1. IsFiniteSet(at(d)) /\ at2(d) = at(d) \cup {m} /\ m \notin at(d)
    BY <1>1, <1>2
  <2> HIDE DEF at, at2
  <2>2. Cardinality(at(d) \cup {m}) = Cardinality(at(d)) + 1
    BY <2>1, FS_AddElement
  <2> QED BY <2>1, <2>2
<1> QED BY <1>3, <1>4 DEF UsesIn

\* The innermost handler, of frame n, is left: EndEffect on exceptions X, with
\* caught exception c.
Shrunk(n, k, k2) ==
    /\ DOMAIN k \subseteq 1 .. n /\ n \in DOMAIN k
    /\ DOMAIN k2 = DOMAIN k \ {n} /\ \A i \in DOMAIN k2 : k2[i] = k[i]
Ended(X, c, X2, c2) ==
    LET m == X[c].count
        left == IF m < 0 THEN m + 1 ELSE m - 1
    IN /\ c2 = IF left = 0 THEN X[c].next ELSE c
       /\ left = 0 /\ m > 0 => DOMAIN X2 = DOMAIN X \ {c}
       /\ left # 0 \/ ~(m > 0) =>
             DOMAIN X2 = DOMAIN X /\ X2[c].count = left /\ X2[c].next = X[c].next /\ X2[c].type = X[c].type
       /\ \A d \in DOMAIN X \ {c} : X2[d] = X[d]

LEMMA HandlerLeft ==
    ASSUME NEW n \in Nat, NEW k, NEW k2, Shrunk(n, k, k2),
           NEW X, 0 \notin DOMAIN X, NEW up, NEW c, NEW X2, NEW c2, Ended(X, c, X2, c2),
           Latest(k, c), Linked(k, X), Counted(k, up, X)
    PROVE  /\ c \in DOMAIN X /\ Latest(k2, c2) /\ Linked(k2, X2) /\ Counted(k2, up, X2)
           /\ Recent(k2, c2, c)
           /\ c \in DOMAIN X2 <=> Needed(k2, up, c)
<1> DEFINE m == X[c].count
           left == IF m < 0 THEN m + 1 ELSE m - 1
<1>e. /\ m = X[c].count /\ left = (IF m < 0 THEN m + 1 ELSE m - 1)
      /\ c2 = (IF left = 0 THEN X[c].next ELSE c)
      /\ left = 0 /\ m > 0 => DOMAIN X2 = DOMAIN X \ {c}
      /\ left # 0 \/ ~(m > 0) => DOMAIN X2 = DOMAIN X /\ X2[c].count = left /\ X2[c].next = X[c].next
      /\ \A d \in DOMAIN X \ {c} : X2[d] = X[d]
  BY DEF Ended
<1> HIDE DEF m, left
<1>s. /\ DOMAIN k \subseteq 1 .. n /\ n \in DOMAIN k
      /\ DOMAIN k2 = DOMAIN k \ {n} /\ \A i \in DOMAIN k2 : k2[i] = k[i]
  BY DEF Shrunk
<1>1. k[n] = c /\ c \in DOMAIN X /\ \A j \in DOMAIN k : j \in Nat /\ j <= n
  <2>1. \A j \in DOMAIN k : j \in Nat /\ j <= n
    BY <1>e, <1>s
  <2>2. k[n] = c
    <3>1. PICK i \in DOMAIN k : k[i] = c /\ \A j \in DOMAIN k : j <= i
      BY <1>e, <1>s DEF Latest
    <3>2. i = n
      BY <1>e, <1>s, <3>1, <2>1
    <3> QED BY <1>e, <1>s, <3>1, <3>2
  <2> QED BY <1>e, <1>s, <2>1, <2>2 DEF Linked
<1>2. \A i \in DOMAIN k2 : i \in DOMAIN k /\ i < n /\ i <= n - 1 /\ i \in Nat
  BY <1>e, <1>s, <1>1
<1>3. DOMAIN k2 \subseteq 1 .. n /\ DOMAIN k = DOMAIN k2 \cup {n} /\ n \notin DOMAIN k2
  BY <1>e, <1>s
<1>4. UsesIn(k, c) = UsesIn(k2, c) + 1 /\ \A d : d # c => UsesIn(k, d) = UsesIn(k2, d)
  <2>1. \A i \in DOMAIN k2 : k[i] = k2[i]
    BY <1>e, <1>s
  <2>2. /\ UsesIn(k, k[n]) = UsesIn(k2, k[n]) + 1
        /\ \A d : d # k[n] => UsesIn(k, d) = UsesIn(k2, d)
    BY ONLY <2>1, <1>3, n \in Nat, UsesAdded
  <2> QED BY <1>e, <1>s, <2>2, <1>1
<1>5. UsesIn(k2, c) \in Nat /\ (UsesIn(k2, c) = 0 <=> \A i \in DOMAIN k2 : k2[i] # c)
  BY <1>e, <1>s, <1>3, NoUses
<1>6. m = IF c \in up THEN -UsesIn(k, c) ELSE UsesIn(k, c)
  BY <1>e, <1>s, <1>1 DEF Counted
<1>7. left = (IF c \in up THEN -UsesIn(k2, c) ELSE UsesIn(k2, c)) /\ (m > 0 <=> c \notin up)
  BY <1>e, <1>s, <1>4, <1>5, <1>6
<1>8. left = 0 <=> UsesIn(k2, c) = 0
  <2>1. left = UsesIn(k2, c) \/ left = -UsesIn(k2, c)
    BY <1>e, <1>s, <1>7
  <2>2. PICK u \in Nat : u = UsesIn(k2, c)
    BY <1>e, <1>s, <1>5
  <2>3. left = u \/ left = -u
    BY <1>e, <1>s, <2>1, <2>2
  <2>4. left = 0 <=> u = 0
    BY ONLY <2>3, u \in Nat
  <2> QED BY <1>e, <1>s, <2>2, <2>4
<1>9. \A x : Innermost(k, n - 1, x) => Latest(k2, x)
  <2> SUFFICES ASSUME NEW x, Innermost(k, n - 1, x) PROVE Latest(k2, x)
    BY <1>e, <1>s
  <2>1. CASE x = 0 /\ \A i \in DOMAIN k : ~(i <= n - 1)
    BY <1>e, <1>s, <2>1, <1>2 DEF Latest
  <2>2. CASE \E i \in DOMAIN k : i <= n - 1 /\ k[i] = x /\ \A j \in DOMAIN k : j <= n - 1 => j <= i
    <3>1. PICK i \in DOMAIN k : i <= n - 1 /\ k[i] = x /\ \A j \in DOMAIN k : j <= n - 1 => j <= i
      BY <1>e, <1>s, <2>2
    <3>2. i \in DOMAIN k2 /\ k2[i] = x
      BY <1>e, <1>s, <3>1, <1>1
    <3> QED BY <1>e, <1>s, <3>1, <3>2, <1>2 DEF Latest
  <2> QED BY <1>e, <1>s, <2>1, <2>2 DEF Innermost
<1>10. Latest(k2, c2)
  <2>1. CASE UsesIn(k2, c) = 0
    <3>1. ~Innermost(k, n - 1, c)
      BY <1>e, <1>s, <2>1, <1>1, <1>5, <1>2 DEF Innermost
    <3>2. Innermost(k, n - 1, X[c].next)
      BY <1>e, <1>s, <3>1, <1>1 DEF Linked
    <3> QED BY <1>e, <1>s, <3>2, <1>9, <2>1, <1>8
  <2>2. CASE UsesIn(k2, c) # 0
    <3>1. PICK j \in DOMAIN k2 : k2[j] = c
      BY <1>e, <1>s, <2>2, <1>5
    <3>2. Innermost(k, n - 1, c)
      BY <1>e, <1>s, <3>1, <1>1, <1>2 DEF Linked
    <3> QED BY <1>e, <1>s, <3>2, <1>9, <2>2, <1>8
  <2> QED BY <1>e, <1>s, <2>1, <2>2
<1>11. Recent(k2, c2, c)
  BY <1>e, <1>s, <1>5, <1>8 DEF Recent
<1>12. /\ c \notin DOMAIN X2 => c \notin up /\ \A i \in DOMAIN k2 : k2[i] # c
       /\ c \in DOMAIN X2 /\ c \notin up => \E i \in DOMAIN k2 : k2[i] = c
  BY <1>e, <1>s, <1>1, <1>5, <1>7, <1>8
<1>13. \A i \in DOMAIN k2 : k2[i] \in DOMAIN X2 /\ X2[k2[i]].next = X[k2[i]].next
  <2> TAKE i \in DOMAIN k2
  <2>1. k2[i] \in DOMAIN X
    BY <1>e, <1>s, <1>2 DEF Linked
  <2>2. CASE k2[i] = c
    BY <1>e, <1>s, <2>1, <2>2, <1>12
  <2>3. CASE k2[i] # c
    BY <1>e, <1>s, <2>1, <2>3
  <2> QED BY <1>e, <1>s, <2>2, <2>3
<1>14. \A i \in DOMAIN k2 : \A x : Innermost(k2, i - 1, x) <=> Innermost(k, i - 1, x)
  <2> TAKE i \in DOMAIN k2
  <2> TAKE x
  <2>1. \A j \in DOMAIN k : j <= i - 1 <=> j \in DOMAIN k2 /\ j <= i - 1
    BY <1>e, <1>s, <1>1, <1>2
  <2> QED BY <1>e, <1>s, <2>1, <1>2 DEF Innermost
<1>15. Linked(k2, X2)
  <2> SUFFICES ASSUME NEW i \in DOMAIN k2
               PROVE  \/ Innermost(k2, i - 1, k2[i])
                      \/ Innermost(k2, i - 1, X2[k2[i]].next) /\ \A j \in DOMAIN k2 : j < i => k2[j] # k2[i]
    BY <1>e, <1>s, <1>13 DEF Linked
  <2>1. \/ Innermost(k, i - 1, k[i])
        \/ Innermost(k, i - 1, X[k[i]].next) /\ \A j \in DOMAIN k : j < i => k[j] # k[i]
    BY <1>e, <1>s, <1>2 DEF Linked
  <2> QED BY <1>e, <1>s, <2>1, <1>2, <1>13, <1>14
<1>16. Counted(k2, up, X2)
  <2> SUFFICES ASSUME NEW e \in DOMAIN X2
               PROVE  /\ e \in up => X2[e].count = -UsesIn(k2, e)
                      /\ e \notin up /\ (\E i \in DOMAIN k2 : k2[i] = e) => X2[e].count = UsesIn(k2, e)
    BY <1>e, <1>s DEF Counted
  <2>1. CASE e = c
    BY <1>e, <1>s, <2>1, <1>1, <1>5, <1>7, <1>8
  <2>2. CASE e # c
    <3>1. e \in DOMAIN X /\ X2[e] = X[e] /\ UsesIn(k2, e) = UsesIn(k, e)
      BY <1>e, <1>s, <2>2, <1>4
    <3>2. (\E i \in DOMAIN k2 : k2[i] = e) => \E i \in DOMAIN k : k[i] = e
      BY <1>e, <1>s, <1>2
    <3> QED BY <1>e, <1>s, <3>1, <3>2 DEF Counted
  <2> QED BY <1>e, <1>s, <2>1, <2>2
<1>17. c \in DOMAIN X2 <=> Needed(k2, up, c)
  BY <1>12 DEF Needed
<1> QED BY <1>1, <1>10, <1>11, <1>15, <1>16, <1>17

\* What the handlers say of the flights, and the flights of the handlers.
HandlersOK(k, F, pad, X, c) ==
    /\ Latest(k, c) /\ Linked(k, X) /\ Counted(k, UpSet(F, pad), X)
    /\ Bounded(k, F, pad, c) /\ Distinct(F, pad, X)

LEMMA LatestIn == ASSUME NEW k, NEW X, NEW c, Latest(k, c), Linked(k, X), c # 0 PROVE c \in DOMAIN X /\ \E i \in DOMAIN k : k[i] = c
  BY DEF Latest, Linked

\* Flights suspended below frame n.
Below(F, n) == \A i \in DOMAIN F : F[i].phase = "landed" => F[i].at \in 0 .. n - 1
\* Leaving the innermost handler, while all flights are suspended below it or the
\* last one goes through it.
LEMMA LeavingKeeps ==
    ASSUME NEW n \in Nat, NEW k, NEW k2, Shrunk(n, k, k2),
           NEW X, 0 \notin DOMAIN X, NEW F, NEW pad, NEW c, NEW X2, NEW c2, Ended(X, c, X2, c2),
           Below(F, n),
           HandlersOK(k, F, pad, X, c)
    PROVE  /\ HandlersOK(k2, F, pad, X2, c2)
           /\ c \in DOMAIN X /\ k[n] = c
           /\ c \in DOMAIN X2 <=> Needed(k2, UpSet(F, pad), c)
<1> USE DEF Below
<1> PICK up : up = UpSet(F, pad)
  OBVIOUS
<1>1. /\ c \in DOMAIN X /\ Latest(k2, c2) /\ Linked(k2, X2) /\ Counted(k2, up, X2)
      /\ Recent(k2, c2, c)
      /\ c \in DOMAIN X2 <=> Needed(k2, up, c)
  <2>1. Latest(k, c) /\ Linked(k, X) /\ Counted(k, up, X)
    BY DEF HandlersOK
  <2> QED BY <2>1, HandlerLeft
<1>s. /\ DOMAIN k \subseteq 1 .. n /\ n \in DOMAIN k
      /\ DOMAIN k2 = DOMAIN k \ {n} /\ \A i \in DOMAIN k2 : k2[i] = k[i]
  BY DEF Shrunk
<1>x. \A d \in DOMAIN X \ {c} : d \in DOMAIN X2
  BY Zenon DEF Ended
<1>2. k[n] = c /\ \A j \in DOMAIN k : j \in Nat /\ j <= n
  <2>1. \A j \in DOMAIN k : j \in Nat /\ j <= n
    BY <1>s
  <2>2. PICK i \in DOMAIN k : k[i] = c /\ \A j \in DOMAIN k : j <= i
    BY <1>s DEF HandlersOK, Latest
  <2>3. i = n
    BY <2>1, <2>2, <1>s
  <2> QED BY <2>1, <2>2, <2>3
<1>3. \A e : Recent(k, c, e) => Recent(k2, c2, e)
  BY <1>1, <1>s DEF Recent
<1>4. \A e, b : RecentBelow(k, b, e) /\ b \in 0 .. n - 1 => RecentBelow(k2, b, e)
  <2> SUFFICES ASSUME NEW e, NEW b \in 0 .. n - 1, RecentBelow(k, b, e) PROVE RecentBelow(k2, b, e)
    OBVIOUS
  <2>1. CASE \A i \in DOMAIN k : k[i] # e
    BY <2>1, <1>s DEF RecentBelow
  <2>2. CASE \E i \in DOMAIN k : i < b /\ k[i] = e /\ \A j \in DOMAIN k : j < b \/ k[j] = e => j <= i
    <3>1. PICK i \in DOMAIN k : i < b /\ k[i] = e /\ \A j \in DOMAIN k : j < b \/ k[j] = e => j <= i
      BY <2>2
    <3>2. i \in DOMAIN k2
      BY <3>1, <1>2, <1>s
    <3> QED BY <3>1, <3>2, <1>s DEF RecentBelow
  <2> QED BY <2>1, <2>2 DEF RecentBelow
<1>5. Bounded(k2, F, pad, c2)
  <2>1. \A e \in pad : Recent(k2, c2, e)
    BY <1>3 DEF HandlersOK, Bounded
  <2>2. \A i \in DOMAIN F : F[i].phase = "landed" => RecentBelow(k2, F[i].at, F[i].exc)
    BY <1>4 DEF HandlersOK, Bounded
  <2>3. \A i \in DOMAIN F : F[i].phase # "landed" => Recent(k2, c2, F[i].exc)
    BY <1>3 DEF HandlersOK, Bounded
  <2> QED BY <2>1, <2>2, <2>3 DEF Bounded
<1>6. Distinct(F, pad, X2)
  <2>1. \A e \in pad : e \in DOMAIN X2
    <3> TAKE e \in pad
    <3>1. e \in DOMAIN X /\ e \in up
      BY DEF HandlersOK, Distinct, UpSet
    <3>2. CASE e = c
      BY <3>1, <3>2, <1>1 DEF Needed
    <3>3. CASE e # c
      BY <3>1, <3>3, <1>x
    <3> QED BY <3>2, <3>3
  <2> QED BY <2>1 DEF HandlersOK, Distinct
<1> QED BY <1>1, <1>2, <1>5, <1>6 DEF HandlersOK

\* Beginning the handler of the exception e, which was about to be caught.
LEMMA TakingKeeps ==
    ASSUME NEW n \in Nat, NEW k, DOMAIN k \subseteq 1 .. n - 1,
           NEW e, NEW k2, DOMAIN k2 = DOMAIN k \cup {n}, k2[n] = e, \A i \in DOMAIN k : k2[i] = k[i],
           NEW X, 0 \notin DOMAIN X, NEW F, NEW c, NEW X2,
           \A i \in DOMAIN F : F[i].phase = "landed" /\ F[i].at \in 0 .. n - 1,
           HandlersOK(k, F, {e}, X, c),
           DOMAIN X2 = DOMAIN X, X2[e].count = BeginCount(X[e].count), X2[e].next = (IF c # e THEN c ELSE X[e].next),
           \A d \in DOMAIN X \ {e} : X2[d] = X[d]
    PROVE  HandlersOK(k2, F, {}, X2, e)
<1>1. /\ e \in DOMAIN X /\ Recent(k, c, e) /\ \A i \in DOMAIN F : F[i].exc # e
      /\ Latest(k, c) /\ Linked(k, X)
  BY DEF HandlersOK, Distinct, Bounded
<1>2. \A i \in DOMAIN k : i \in Nat /\ i <= n - 1 /\ i < n /\ i <= n
  OBVIOUS
<1>3. n \notin DOMAIN k /\ DOMAIN k \subseteq 1 .. n
  BY <1>2
<1>4. UsesIn(k2, e) = UsesIn(k, e) + 1 /\ \A d : d # e => UsesIn(k2, d) = UsesIn(k, d)
  <2>1. /\ UsesIn(k2, k2[n]) = UsesIn(k, k2[n]) + 1
        /\ \A d : d # k2[n] => UsesIn(k2, d) = UsesIn(k, d)
    BY ONLY <1>3, n \in Nat, DOMAIN k2 = DOMAIN k \cup {n}, \A i \in DOMAIN k : k2[i] = k[i], UsesAdded
  <2> QED BY <2>1
<1>5. UsesIn(k, e) \in Nat
  BY ONLY <1>3, n \in Nat, NoUses
<1>6. X2[e].count = UsesIn(k2, e)
  <2>1. X[e].count = -UsesIn(k, e)
    BY <1>1 DEF HandlersOK, Counted, UpSet
  <2>2. PICK u \in Nat : u = UsesIn(k, e)
    BY <1>5
  <2>3. BeginCount(-u) = u + 1
    BY <2>2 DEF BeginCount
  <2> QED BY <2>1, <2>2, <2>3, <1>4
<1>7. Latest(k2, e)
  <2>1. \A j \in DOMAIN k2 : j <= n
    BY <1>2
  <2> QED BY <2>1 DEF Latest
<1>8. Counted(k2, UpSet(F, {}), X2)
  <2> SUFFICES ASSUME NEW d \in DOMAIN X2
               PROVE  /\ d \in UpSet(F, {}) => X2[d].count = -UsesIn(k2, d)
                      /\ d \notin UpSet(F, {}) /\ (\E i \in DOMAIN k2 : k2[i] = d) => X2[d].count = UsesIn(k2, d)
    BY DEF Counted
  <2>1. CASE d = e
    BY <2>1, <1>1, <1>6 DEF UpSet
  <2>2. CASE d # e
    <3>1. d \in DOMAIN X /\ X2[d] = X[d] /\ UsesIn(k2, d) = UsesIn(k, d)
      BY <2>2, <1>4
    <3>2. (d \in UpSet(F, {}) <=> d \in UpSet(F, {e})) /\ ((\E i \in DOMAIN k2 : k2[i] = d) => \E i \in DOMAIN k : k[i] = d)
      BY <2>2 DEF UpSet
    <3> QED BY <3>1, <3>2 DEF HandlersOK, Counted
  <2> QED BY <2>1, <2>2
<1>9. \A b, d : RecentBelow(k, b, d) /\ b \in 0 .. n - 1 /\ d # e => RecentBelow(k2, b, d)
  <2> SUFFICES ASSUME NEW b \in 0 .. n - 1, NEW d, d # e, RecentBelow(k, b, d) PROVE RecentBelow(k2, b, d)
    OBVIOUS
  <2>0. ~(n < b)
    OBVIOUS
  <2>1. CASE \A i \in DOMAIN k : k[i] # d
    BY <2>1 DEF RecentBelow
  <2>2. CASE \E i \in DOMAIN k : i < b /\ k[i] = d /\ \A j \in DOMAIN k : j < b \/ k[j] = d => j <= i
    <3>1. PICK i \in DOMAIN k : i < b /\ k[i] = d /\ \A j \in DOMAIN k : j < b \/ k[j] = d => j <= i
      BY <2>2
    <3>2. \A j \in DOMAIN k2 : j < b \/ k2[j] = d => j \in DOMAIN k /\ j <= i
      BY <3>1, <2>0
    <3> QED BY <3>1, <3>2 DEF RecentBelow
  <2> QED BY <2>1, <2>2 DEF RecentBelow
<1>10. Bounded(k2, F, {}, e)
  BY <1>1, <1>9 DEF HandlersOK, Bounded
<1>11. \A i \in DOMAIN k : \A x : Innermost(k2, i - 1, x) <=> Innermost(k, i - 1, x)
  <2> TAKE i \in DOMAIN k
  <2> TAKE x
  <2>1. \A j \in DOMAIN k2 : j <= i - 1 <=> j \in DOMAIN k /\ j <= i - 1
    BY <1>2
  <2> QED BY <2>1 DEF Innermost
<1>12. \A x : Latest(k, x) => Innermost(k2, n - 1, x)
  <2> SUFFICES ASSUME NEW x, Latest(k, x) PROVE Innermost(k2, n - 1, x)
    OBVIOUS
  <2>1. \A j \in DOMAIN k2 : j <= n - 1 <=> j \in DOMAIN k
    BY <1>2
  <2>2. CASE x = 0 /\ DOMAIN k = {}
    BY <2>1, <2>2 DEF Innermost
  <2>3. CASE \E i \in DOMAIN k : k[i] = x /\ \A j \in DOMAIN k : j <= i
    BY <2>1, <2>3 DEF Innermost
  <2> QED BY <2>2, <2>3 DEF Latest
<1>13. Linked(k2, X2)
  <2> SUFFICES ASSUME NEW i \in DOMAIN k2
               PROVE  /\ k2[i] \in DOMAIN X2
                      /\ \/ Innermost(k2, i - 1, k2[i])
                         \/ Innermost(k2, i - 1, X2[k2[i]].next) /\ \A j \in DOMAIN k2 : j < i => k2[j] # k2[i]
    BY DEF Linked
  <2>1. CASE i = n
    <3>1. CASE c = e
      BY <3>1, <2>1, <1>1, <1>12
    <3>2. CASE c # e
      <4>1. \A j \in DOMAIN k2 : j < n => j \in DOMAIN k /\ k2[j] # e
        BY <3>2, <1>1 DEF Recent
      <4> QED BY <4>1, <3>2, <2>1, <1>1, <1>12
    <3> QED BY <3>1, <3>2
  <2>2. CASE i # n
    <3>1. i \in DOMAIN k /\ k2[i] = k[i] /\ k[i] \in DOMAIN X
      BY <2>2, <1>1 DEF Linked
    <3>2. X2[k[i]].next = X[k[i]].next
      <4>1. CASE k[i] = e
        BY <4>1, <3>1, <1>1 DEF Recent
      <4>2. CASE k[i] # e
        BY <4>2, <3>1
      <4> QED BY <4>1, <4>2
    <3>3. \A j \in DOMAIN k2 : j < i => j \in DOMAIN k
      BY <3>1, <1>2
    <3>4. \/ Innermost(k, i - 1, k[i])
          \/ Innermost(k, i - 1, X[k[i]].next) /\ \A j \in DOMAIN k : j < i => k[j] # k[i]
      BY <3>1, <1>1 DEF Linked
    <3> QED BY <3>1, <3>2, <3>3, <3>4, <1>11
  <2> QED BY <2>1, <2>2
<1>14. Distinct(F, {}, X2)
  BY DEF HandlersOK, Distinct
<1> QED BY <1>7, <1>8, <1>10, <1>13, <1>14 DEF HandlersOK

\* An exception is thrown, ...
LEMMA ThrowingKeeps ==
    ASSUME NEW n \in Nat, NEW k, DOMAIN k \subseteq 1 .. n, NEW F \in Seq(Flights), NEW X, NEW c, HandlersOK(k, F, {}, X, c),
           NEW e, e \notin DOMAIN X, NEW X2, DOMAIN X2 = DOMAIN X \cup {e}, X2[e].count = 0,
           \A d \in DOMAIN X : X2[d] = X[d], \A i \in DOMAIN F : F[i].exc # e,
           NEW g \in Flights, g.exc = e, g.phase # "landed", NEW F2, F2 = Append(F, g)
    PROVE  HandlersOK(k, F2, {}, X2, c)
<1>1. /\ Len(F) + 1 \notin DOMAIN F /\ DOMAIN F2 = DOMAIN F \cup {Len(F) + 1} /\ F2[Len(F) + 1] = g
      /\ \A i \in DOMAIN F : F2[i] = F[i]
  OBVIOUS
<1>2. \A i \in DOMAIN k : k[i] # e /\ k[i] \in DOMAIN X
  BY DEF HandlersOK, Linked
<1>3. UpSet(F2, {}) = UpSet(F, {}) \cup {e}
  BY <1>1 DEF UpSet
<1>4. UsesIn(k, e) = 0
  BY <1>2, NoUses
<1>5. Counted(k, UpSet(F2, {}), X2)
  <2> SUFFICES ASSUME NEW d \in DOMAIN X2
               PROVE  /\ d \in UpSet(F2, {}) => X2[d].count = -UsesIn(k, d)
                      /\ d \notin UpSet(F2, {}) /\ (\E i \in DOMAIN k : k[i] = d) => X2[d].count = UsesIn(k, d)
    BY DEF Counted
  <2>1. CASE d = e
    BY <2>1, <1>3, <1>4
  <2>2. CASE d # e
    BY <2>2, <1>3 DEF HandlersOK, Counted
  <2> QED BY <2>1, <2>2
<1>6. Linked(k, X2)
  BY <1>2 DEF HandlersOK, Linked
<1>7. Bounded(k, F2, {}, c)
  BY <1>1, <1>2 DEF HandlersOK, Bounded, Recent
<1>8. Distinct(F2, {}, X2)
  BY <1>1 DEF HandlersOK, Distinct
<1> QED BY <1>5, <1>6, <1>7, <1>8 DEF HandlersOK

\* ... or the innermost of those being handled is thrown again.
Rethrown(X, c, X2) ==
    /\ DOMAIN X2 = DOMAIN X /\ \A d \in DOMAIN X \ {c} : X2[d] = X[d]
    /\ c # 0 => X2[c].count = -X[c].count /\ X2[c].next = X[c].next /\ X2[c].type = X[c].type
LEMMA RethrowingKeeps ==
    ASSUME NEW n \in Nat, NEW k, DOMAIN k \subseteq 1 .. n, NEW F \in Seq(Flights), NEW X, NEW c, 0 \notin DOMAIN X, HandlersOK(k, F, {}, X, c),
           NEW X2, Rethrown(X, c, X2), \A i \in DOMAIN F : F[i].exc # c,
           NEW g \in Flights, g.exc = c, g.phase # "landed", NEW F2, F2 = Append(F, g)
    PROVE  HandlersOK(k, F2, {}, X2, c)
<1> USE DEF Rethrown
<1>1. /\ Len(F) + 1 \notin DOMAIN F /\ DOMAIN F2 = DOMAIN F \cup {Len(F) + 1} /\ F2[Len(F) + 1] = g
      /\ \A i \in DOMAIN F : F2[i] = F[i]
  OBVIOUS
<1>2. c # 0 => c \in DOMAIN X /\ \E i \in DOMAIN k : k[i] = c
  BY LatestIn DEF HandlersOK
<1>3. UpSet(F2, {}) = UpSet(F, {}) \cup {c} /\ c \notin UpSet(F, {})
  BY <1>1 DEF UpSet
<1>4. Counted(k, UpSet(F2, {}), X2)
  <2> SUFFICES ASSUME NEW d \in DOMAIN X2
               PROVE  /\ d \in UpSet(F2, {}) => X2[d].count = -UsesIn(k, d)
                      /\ d \notin UpSet(F2, {}) /\ (\E i \in DOMAIN k : k[i] = d) => X2[d].count = UsesIn(k, d)
    BY DEF Counted
  <2>1. CASE d = c
    <3>1. X2[d].count = -X[c].count
      BY <2>1
    <3>2. X[c].count = UsesIn(k, c)
      BY <2>1, <1>2, <1>3 DEF HandlersOK, Counted
    <3> QED BY <3>1, <3>2, <2>1, <1>3
  <2>2. CASE d # c
    BY <2>2, <1>3 DEF HandlersOK, Counted
  <2> QED BY <2>1, <2>2
<1>5. \A i \in DOMAIN k : k[i] \in DOMAIN X /\ X2[k[i]].next = X[k[i]].next
  <2> TAKE i \in DOMAIN k
  <2>1. k[i] \in DOMAIN X
    BY DEF HandlersOK, Linked
  <2>2. CASE k[i] = c
    BY <2>1, <2>2
  <2>3. CASE k[i] # c
    BY <2>1, <2>3
  <2> QED BY <2>1, <2>2, <2>3
<1>6. Linked(k, X2)
  BY <1>5 DEF HandlersOK, Linked
<1>7. Bounded(k, F2, {}, c)
  BY <1>1 DEF HandlersOK, Bounded, Recent
<1>8. Distinct(F2, {}, X2)
  BY <1>1 DEF HandlersOK, Distinct
<1> QED BY <1>2, <1>4, <1>6, <1>7, <1>8 DEF HandlersOK

\* Exceptions that no handler or flight here has may change.
LEMMA OthersChange ==
    ASSUME NEW k, NEW F, NEW pad, NEW X, NEW X2, NEW c, HandlersOK(k, F, pad, X, c),
           \A e : Needed(k, UpSet(F, pad), e) => (e \in DOMAIN X <=> e \in DOMAIN X2),
           \A e \in DOMAIN X : Needed(k, UpSet(F, pad), e) => X2[e].count = X[e].count /\ X2[e].next = X[e].next
    PROVE  HandlersOK(k, F, pad, X2, c)
<1>1. Counted(k, UpSet(F, pad), X2)
  BY DEF HandlersOK, Counted, Needed
<1>2. \A i \in DOMAIN k : Needed(k, UpSet(F, pad), k[i])
  BY DEF Needed
<1>3. Linked(k, X2)
  BY <1>2 DEF HandlersOK, Linked
<1>4. Distinct(F, pad, X2)
  <2>1. \A e \in pad : Needed(k, UpSet(F, pad), e)
    BY DEF Needed, UpSet
  <2> QED BY <2>1 DEF HandlersOK, Distinct
<1> QED BY <1>1, <1>3, <1>4 DEF HandlersOK

\* The last flight goes on: it lands at a frame b above all handlers, ...
LEMMA FlightMoves ==
    ASSUME NEW k, NEW F \in Seq(Flights), F # <<>>, NEW X, NEW c, NEW pad, HandlersOK(k, F, pad, X, c),
           NEW g \in Flights, g.exc = F[Len(F)].exc, NEW F2, F2 = Topped(F, g),
           NEW b \in Nat, DOMAIN k \subseteq 1 .. b - 1,
           g.phase = "landed" => g.at = b,
           F[Len(F)].phase = "landed" => F[Len(F)].at = b
    PROVE  HandlersOK(k, F2, pad, X, c)
<1>1. /\ Len(F) \in DOMAIN F /\ DOMAIN F2 = DOMAIN F /\ F2[Len(F)] = g
      /\ \A i \in DOMAIN F \ {Len(F)} : F2[i] = F[i]
  BY DEF Topped
<1>2. \A i \in DOMAIN F : F2[i].exc = F[i].exc
  BY <1>1
<1>3. UpSet(F2, pad) = UpSet(F, pad)
  BY <1>1, <1>2 DEF UpSet
<1>4. Distinct(F2, pad, X)
  BY <1>1, <1>2 DEF HandlersOK, Distinct
<1>5. \A i \in DOMAIN k : i < b
  OBVIOUS
<1>6. \A e : Recent(k, c, e) /\ e # 0 => RecentBelow(k, b, e)
  <2> SUFFICES ASSUME NEW e, c = e, e # 0 PROVE RecentBelow(k, b, e)
    BY DEF Recent, RecentBelow
  <2>1. PICK i \in DOMAIN k : k[i] = c /\ \A j \in DOMAIN k : j <= i
    BY DEF HandlersOK, Latest
  <2> QED BY <2>1, <1>5 DEF RecentBelow
<1>7. \A e : RecentBelow(k, b, e) => Recent(k, c, e)
  <2> SUFFICES ASSUME NEW e, NEW i \in DOMAIN k, k[i] = e, \A j \in DOMAIN k : j < b \/ k[j] = e => j <= i PROVE c = e
    BY DEF Recent, RecentBelow
  <2>1. \A j \in DOMAIN k : j <= i /\ j \in Nat
    BY <1>5
  <2>2. PICK m \in DOMAIN k : k[m] = c /\ \A j \in DOMAIN k : j <= m
    BY DEF HandlersOK, Latest
  <2>3. m = i
    BY <2>1, <2>2
  <2> QED BY <2>2, <2>3
<1>8. \A e : RecentBelow(k, b, e) <=> Recent(k, c, e)
  <2>1. ASSUME Recent(k, c, 0) PROVE RecentBelow(k, b, 0)
    <3>1. CASE DOMAIN k = {}
      BY <3>1 DEF RecentBelow
    <3>2. CASE c = 0 /\ DOMAIN k # {}
      <4>1. PICK i \in DOMAIN k : k[i] = c /\ \A j \in DOMAIN k : j <= i
        BY <3>2 DEF HandlersOK, Latest
      <4> QED BY <4>1, <3>2, <1>5 DEF RecentBelow
    <3> QED BY <2>1, <3>1, <3>2 DEF Recent, RecentBelow
  <2> QED BY <2>1, <1>6, <1>7
<1>9. Bounded(k, F2, pad, c)
  <2>1. \A e \in pad : Recent(k, c, e)
    BY DEF HandlersOK, Bounded
  <2>2. ASSUME NEW i \in DOMAIN F2
        PROVE  IF F2[i].phase = "landed" THEN RecentBelow(k, F2[i].at, F2[i].exc) ELSE Recent(k, c, F2[i].exc)
    <3>1. IF F[i].phase = "landed" THEN RecentBelow(k, F[i].at, F[i].exc) ELSE Recent(k, c, F[i].exc)
      BY <1>1 DEF HandlersOK, Bounded
    <3>2. CASE i # Len(F)
      BY <3>1, <3>2, <1>1
    <3>3. CASE i = Len(F)
      BY <3>1, <3>3, <1>1, <1>8
    <3> QED BY <3>2, <3>3
  <2> QED BY <2>1, <2>2 DEF Bounded
<1> QED BY <1>3, <1>4, <1>9 DEF HandlersOK

\* ... or it ends where it is caught.
LEMMA FlightEnds ==
    ASSUME NEW k, NEW F \in Seq(Flights), F # <<>>, NEW X, NEW c, HandlersOK(k, F, {}, X, c),
           F[Len(F)].phase # "landed", F[Len(F)].exc \in DOMAIN X, NEW F2, F2 = Popped(F), NEW e, e = F[Len(F)].exc
    PROVE  HandlersOK(k, F2, {e}, X, c)
<1>1. /\ Len(F) \in DOMAIN F /\ DOMAIN F2 = DOMAIN F \ {Len(F)} /\ \A i \in DOMAIN F2 : F2[i] = F[i]
  BY DEF Popped
<1>2. UpSet(F2, {e}) = UpSet(F, {})
  BY <1>1 DEF UpSet
<1>3. Bounded(k, F2, {e}, c)
  <2>1. Recent(k, c, e)
    BY <1>1 DEF HandlersOK, Bounded
  <2> QED BY <2>1, <1>1 DEF HandlersOK, Bounded
<1>4. Distinct(F2, {e}, X)
  BY <1>1 DEF HandlersOK, Distinct
<1> QED BY <1>2, <1>3, <1>4 DEF HandlersOK

-----------------------------------------------------------------------------
(* One process: S its frames, F its flights, X the exceptions              *)
Landed(F) == \A i \in DOMAIN F : F[i].phase = "landed"
\* The frame that takes an exception of type t among those below top.
Chosen(S, top, target, t) ==
    /\ target \in DOMAIN S /\ target < top /\ Takes(S[target], t)
    /\ \A j \in DOMAIN S : j > target /\ j < top => ~Takes(S[j], t)
\* How far the walk of a flight has come, by its phase.
Walking(S, f, X) ==
    /\ f.exc \in DOMAIN X \/ (f.exc = 0 /\ f.phase = "terminate")
    /\ f.phase = "landed" => f.at \in DOMAIN S /\ S[f.at].mode = "cleanup" /\ Chosen(S, f.at, f.target, X[f.exc].type)
    /\ f.phase = "cleanup" => Chosen(S, Len(S) + 1, f.target, X[f.exc].type)
    /\ f.phase = "search" => f.at <= Len(S) /\ \A j \in DOMAIN S : j > f.at => ~Takes(S[j], X[f.exc].type)
\* A later flight stays above the cleanup an earlier one is suspended in.
Above(f, g) ==
    /\ f.phase = "search" => g.at <= f.at
    /\ f.phase \in {"cleanup", "landed"} => g.at < f.target
\* The flights are nested, only the latest still walks.
Walk(S, F, X) == \A i \in DOMAIN F :
    /\ i < Len(F) => F[i].phase = "landed"
    /\ Walking(S, F[i], X)
    /\ \A j \in DOMAIN F : j < i => Above(F[i], F[j])
\* Only the innermost frame is about to catch; a cleanup runs for some flight.
Shape(S, F) == \A i \in DOMAIN S :
    /\ S[i].mode = "pad" => i = Len(S) /\ Landed(F)
    /\ S[i].mode = "cleanup" => \E j \in DOMAIN F : F[j].phase = "landed" /\ F[j].at = i
Pads(S) == {i \in DOMAIN S : S[i].mode = "pad"}
PadExcs(S) == {S[i].exc : i \in Pads(S)}
\* The exceptions the process needs.
Held(S, F) == UpSet(F, PadExcs(S)) \cup {HandlersOf(S)[i] : i \in DOMAIN HandlersOf(S)}

\* Sequences: s2 is s with x behind it, without its last, with x as its last.
IsAppended(s, x, s2) ==
    /\ Len(s2) = Len(s) + 1 /\ DOMAIN s2 = DOMAIN s \cup {Len(s) + 1} /\ Len(s) + 1 \notin DOMAIN s
    /\ s2[Len(s) + 1] = x /\ \A i \in DOMAIN s : s2[i] = s[i]
IsPopped(s, s2) ==
    /\ Len(s2) = Len(s) - 1 /\ Len(s) \in DOMAIN s /\ DOMAIN s2 = DOMAIN s \ {Len(s)}
    /\ \A i \in DOMAIN s2 : s2[i] = s[i]
IsTopped(s, x, s2) ==
    /\ Len(s2) = Len(s) /\ Len(s) \in DOMAIN s /\ DOMAIN s2 = DOMAIN s
    /\ s2[Len(s)] = x /\ \A i \in DOMAIN s \ {Len(s)} : s2[i] = s[i]

LEMMA Appending ==
    ASSUME NEW T, NEW s \in Seq(T), NEW x \in T, NEW s2, s2 = Append(s, x)
    PROVE  s2 \in Seq(T) /\ IsAppended(s, x, s2)
  BY DEF IsAppended
LEMMA Popping ==
    ASSUME NEW T, NEW s \in Seq(T), s # <<>>, NEW s2, s2 = Popped(s)
    PROVE  s2 \in Seq(T) /\ IsPopped(s, s2)
<1> PICK n \in Nat : n = Len(s)
  OBVIOUS
<1>1. n > 0 /\ DOMAIN s = 1 .. n /\ \A i \in 1 .. n : s[i] \in T
  OBVIOUS
<1>2. s2 = [i \in 1 .. n - 1 |-> s[i]]
  BY <1>1 DEF Popped
<1>3. DOMAIN s2 = 1 .. n - 1 /\ \A i \in 1 .. n - 1 : s2[i] = s[i] /\ s2[i] \in T
  BY <1>1, <1>2
<1>4. s2 \in Seq(T) /\ Len(s2) = n - 1
  BY <1>1, <1>2
<1>5. 1 .. n - 1 = (1 .. n) \ {n}
  BY <1>1
<1> QED BY <1>1, <1>3, <1>4, <1>5 DEF IsPopped
LEMMA Topping ==
    ASSUME NEW T, NEW s \in Seq(T), s # <<>>, NEW x \in T, NEW s2, s2 = Topped(s, x)
    PROVE  s2 \in Seq(T) /\ IsTopped(s, x, s2)
<1>1. Len(s) \in DOMAIN s
  OBVIOUS
<1>2. s2 \in Seq(T) /\ Len(s2) = Len(s) /\ DOMAIN s2 = DOMAIN s
  BY <1>1 DEF Topped
<1>3. s2[Len(s)] = x
  BY <1>1 DEF Topped
<1>4. \A i \in DOMAIN s \ {Len(s)} : s2[i] = s[i]
  BY <1>1 DEF Topped
<1> QED BY <1>1, <1>2, <1>3, <1>4 DEF IsTopped

LEMMA HandlersAt ==
    ASSUME NEW S \in Seq(Frames)
    PROVE  /\ \A i : i \in DOMAIN HandlersOf(S) <=> i \in DOMAIN S /\ S[i].mode = "catch"
           /\ \A i \in DOMAIN HandlersOf(S) : HandlersOf(S)[i] = S[i].exc
           /\ DOMAIN HandlersOf(S) \subseteq 1 .. Len(S)
  BY DEF HandlersOf

\* Stacks that differ only in frames without a handler.
LEMMA SameHandlers ==
    ASSUME NEW S \in Seq(Frames), NEW S2 \in Seq(Frames),
           \A i : i \in DOMAIN S /\ S[i].mode = "catch" <=> i \in DOMAIN S2 /\ S2[i].mode = "catch",
           \A i \in DOMAIN S : S[i].mode = "catch" => S2[i].exc = S[i].exc
    PROVE  HandlersOf(S2) = HandlersOf(S)
  BY Zenon DEF HandlersOf

LEMMA SamePads ==
    ASSUME NEW S \in Seq(Frames), NEW S2 \in Seq(Frames),
           \A i : i \in DOMAIN S /\ S[i].mode = "pad" <=> i \in DOMAIN S2 /\ S2[i].mode = "pad",
           \A i \in DOMAIN S : S[i].mode = "pad" => S2[i].exc = S[i].exc
    PROVE  Pads(S2) = Pads(S) /\ PadExcs(S2) = PadExcs(S)
<1>1. Pads(S2) = Pads(S)
  BY Zenon DEF Pads
<1>2. \A i \in Pads(S) : S2[i].exc = S[i].exc
  BY Zenon DEF Pads
<1> QED BY <1>1, <1>2, Zenon DEF PadExcs

LEMMA NoPads ==
    ASSUME NEW S, \A i \in DOMAIN S : S[i].mode # "pad"
    PROVE  Pads(S) = {} /\ PadExcs(S) = {}
<1>1. Pads(S) = {}
  BY Zenon DEF Pads
<1> QED BY <1>1, Zenon DEF PadExcs

LEMMA OnePad ==
    ASSUME NEW S, NEW n \in DOMAIN S, S[n].mode = "pad", \A i \in DOMAIN S : S[i].mode = "pad" => i = n
    PROVE  Pads(S) = {n} /\ PadExcs(S) = {S[n].exc}
<1>1. Pads(S) = {n}
  BY Zenon DEF Pads
<1> QED BY <1>1, Zenon DEF PadExcs

\* What a suspended flight needs is below its cleanup.
LEMMA LandedStays ==
    ASSUME NEW S, NEW S2, NEW f, f.phase = "landed", NEW X, NEW X2, Walking(S, f, X),
           NEW b \in Nat, f.at \in Nat, f.target \in Nat, f.at <= b, DOMAIN S \subseteq Nat, DOMAIN S2 \subseteq Nat,
           \A i \in Nat : i <= b => (i \in DOMAIN S <=> i \in DOMAIN S2),
           \A i \in DOMAIN S : i <= b => S2[i] = S[i],
           f.exc \in DOMAIN X => f.exc \in DOMAIN X2 /\ X2[f.exc].type = X[f.exc].type
    PROVE  Walking(S2, f, X2)
<1>1. f.exc \in DOMAIN X /\ f.exc \in DOMAIN X2 /\ X2[f.exc].type = X[f.exc].type
  BY DEF Walking
<1> PICK t : t = X[f.exc].type
  OBVIOUS
<1>2. f.at \in DOMAIN S /\ S[f.at].mode = "cleanup" /\ Chosen(S, f.at, f.target, t)
  BY DEF Walking
<1>3. f.at \in DOMAIN S2 /\ S2[f.at].mode = "cleanup"
  BY <1>2
<1>4. Chosen(S2, f.at, f.target, t)
  <2>1. f.target \in DOMAIN S2 /\ S2[f.target] = S[f.target] /\ f.target < f.at
    BY <1>2 DEF Chosen
  <2>2. ASSUME NEW j \in DOMAIN S2, j > f.target, j < f.at PROVE ~Takes(S2[j], t)
    <3>1. j \in Nat /\ j <= b
      BY <2>2
    <3>2. j \in DOMAIN S /\ S2[j] = S[j]
      BY <3>1
    <3> QED BY <3>2, <2>2, <1>2 DEF Chosen
  <2> QED BY <2>1, <2>2, <1>2 DEF Chosen
<1> QED BY <1>1, <1>3, <1>4 DEF Walking

\* The frames up to b and the first m flights stay as they are, and one more flight
\* may come behind them.
Kept(S, S2, F, F2, X, X2, b, m) ==
    /\ b \in Nat /\ m \in Nat /\ m <= Len(F) /\ Len(F2) \in {m, m + 1}
    /\ \A i \in Nat : i <= b => (i \in DOMAIN S <=> i \in DOMAIN S2)
    /\ \A i \in DOMAIN S : i <= b => S2[i] = S[i]
    /\ \A i \in 1 .. m : F2[i] = F[i] /\ F[i].phase = "landed" /\ F[i].at <= b
    /\ \A e \in DOMAIN X : (\E i \in 1 .. m : F[i].exc = e) => e \in DOMAIN X2 /\ X2[e].type = X[e].type
    /\ Len(F2) = m + 1 => Walking(S2, F2[m + 1], X2) /\ \A i \in 1 .. m : Above(F2[m + 1], F[i])

LEMMA WalkKept ==
    ASSUME NEW S \in Seq(Frames), NEW S2 \in Seq(Frames), NEW F \in Seq(Flights), NEW F2 \in Seq(Flights), NEW X, NEW X2, Walk(S, F, X),
           NEW b, NEW m, Kept(S, S2, F, F2, X, X2, b, m)
    PROVE  Walk(S2, F2, X2)
<1> USE DEF Kept
<1>0. DOMAIN S \subseteq Nat /\ DOMAIN S2 \subseteq Nat
  OBVIOUS
<1>1. \A i \in 1 .. m : i \in DOMAIN F /\ i \in DOMAIN F2 /\ F[i] \in Flights
  OBVIOUS
<1>2. ASSUME NEW i \in 1 .. m PROVE Walking(S2, F2[i], X2)
  <2>1. Walking(S, F[i], X) /\ F[i].at \in Nat /\ F[i].target \in Nat
    BY <1>1 DEF Walk, Flights
  <2>2. F[i].exc \in DOMAIN X => F[i].exc \in DOMAIN X2 /\ X2[F[i].exc].type = X[F[i].exc].type
    OBVIOUS
  <2> PICK f : f = F[i]
    OBVIOUS
  <2>3. f.phase = "landed" /\ f.at <= b
    OBVIOUS
  <2>4. Walking(S2, f, X2)
    BY <2>1, <2>2, <2>3, <1>0, LandedStays
  <2> QED BY <2>4
<1>3. \A i \in 1 .. m, j \in 1 .. m : j < i => Above(F2[i], F2[j])
  BY <1>1 DEF Walk
<1>4. \A i \in DOMAIN F2 : i \in 1 .. m \/ (i = m + 1 /\ Len(F2) = m + 1)
  OBVIOUS
<1>5. ASSUME NEW i \in DOMAIN F2
      PROVE  /\ i < Len(F2) => F2[i].phase = "landed"
             /\ Walking(S2, F2[i], X2)
             /\ \A j \in DOMAIN F2 : j < i => Above(F2[i], F2[j])
  <2>1. CASE i \in 1 .. m
    <3>1. \A j \in DOMAIN F2 : j < i => j \in 1 .. m
      BY <2>1
    <3> QED BY <2>1, <3>1, <1>2, <1>3
  <2>2. CASE i = m + 1 /\ Len(F2) = m + 1
    <3>1. \A j \in DOMAIN F2 : j < i => j \in 1 .. m
      BY <2>2
    <3> QED BY <2>2, <3>1
  <2> QED BY <2>1, <2>2, <1>4
<1> QED BY <1>5 DEF Walk

ExcObjects == [type : ThrowTypes, count : Int, next : Nat, adjusted : {"unset", "object"}]
TypedExceptions(X) == DOMAIN X \subseteq Nat \ {0} /\ \A e \in DOMAIN X : X[e] \in ExcObjects
\* What holds of a process; c and u are its globals.
Proc(S, F, X, c, u) ==
    /\ S \in Seq(Frames) /\ F \in Seq(Flights)
    /\ Walk(S, F, X) /\ Shape(S, F)
    /\ HandlersOK(HandlersOf(S), F, PadExcs(S), X, c)
    /\ u = Len(F) + (IF Pads(S) = {} THEN 0 ELSE 1)
\* What a step of a process may do to the exceptions: make new ones, change its
\* own, and delete those it lets go.
Change(H, X, H2, X2) ==
    /\ \A e \in H2 : e \in H \/ e = 0 \/ e \notin DOMAIN X
    /\ \A e \in DOMAIN X2 : e \in H2 \/ (e \in DOMAIN X /\ e \notin H)
    /\ \A e \in DOMAIN X : e \notin H => e \in DOMAIN X2 /\ X2[e] = X[e]

LEMMA NoChange == ASSUME NEW H, NEW X PROVE Change(H, X, H, X)
  BY DEF Change
LEMMA SameHeld ==
    ASSUME NEW S, NEW F, NEW S2, NEW F2, HandlersOf(S2) = HandlersOf(S), UpSet(F2, PadExcs(S2)) = UpSet(F, PadExcs(S))
    PROVE  Held(S2, F2) = Held(S, F)
  BY DEF Held
LEMMA HeldNeeded == ASSUME NEW S, NEW F, NEW e PROVE e \in Held(S, F) <=> Needed(HandlersOf(S), UpSet(F, PadExcs(S)), e)
  BY DEF Held, Needed

\* No suspended flight is in a frame without a cleanup.
LEMMA LandedBelow ==
    ASSUME NEW S \in Seq(Frames), NEW F \in Seq(Flights), NEW X, Walk(S, F, X), NEW i \in DOMAIN F, F[i].phase = "landed"
    PROVE  /\ F[i].at \in DOMAIN S /\ F[i].at \in Nat /\ F[i].at <= Len(S) /\ S[F[i].at].mode = "cleanup"
           /\ S[Len(S)].mode # "cleanup" => F[i].at <= Len(S) - 1
<1>1. F[i].at \in DOMAIN S /\ S[F[i].at].mode = "cleanup"
  BY DEF Walk, Walking
<1>2. DOMAIN S = 1 .. Len(S) /\ Len(S) \in Nat
  OBVIOUS
<1> QED BY <1>1, <1>2

\* A new frame.
Idle(S) == S # <<>> => S[Len(S)].mode # "pad"
LEMMA EnterKeeps ==
    ASSUME NEW S, NEW F, NEW X, NEW c, NEW u, Proc(S, F, X, c, u), Landed(F), Idle(S),
           NEW f \in Frames, f.mode = "body", NEW S2, S2 = Append(S, f)
    PROVE  Proc(S2, F, X, c, u) /\ Change(Held(S, F), X, Held(S2, F), X)
<1> USE DEF Proc, Idle
<1>1. /\ S2 \in Seq(Frames) /\ Len(S2) = Len(S) + 1 /\ DOMAIN S2 = DOMAIN S \cup {Len(S) + 1} /\ Len(S) + 1 \notin DOMAIN S
      /\ S2[Len(S) + 1] = f /\ \A i \in DOMAIN S : S2[i] = S[i]
  <2>1. S2 \in Seq(Frames) /\ IsAppended(S, f, S2)
    BY Appending
  <2> QED BY <2>1 DEF IsAppended
<1>2. HandlersOf(S2) = HandlersOf(S)
  BY <1>1, SameHandlers
<1>3. Pads(S2) = Pads(S) /\ PadExcs(S2) = PadExcs(S)
  BY <1>1, SamePads
<1>4. Walk(S2, F, X)
  <2>1. \A i \in 1 .. Len(F) : F[i] = F[i] /\ F[i].phase = "landed" /\ F[i].at <= Len(S)
    <3> TAKE i \in 1 .. Len(F)
    <3>1. i \in DOMAIN F /\ F[i].phase = "landed"
      BY DEF Landed
    <3> QED BY <3>1, LandedBelow
  <2>2. \A i \in Nat : i <= Len(S) => (i \in DOMAIN S <=> i \in DOMAIN S2)
    BY <1>1
  <2> PICK m \in Nat : m = Len(F)
    OBVIOUS
  <2> PICK b \in Nat : b = Len(S)
    OBVIOUS
  <2>3. Kept(S, S2, F, F, X, X, b, m)
    BY <2>1, <2>2, <1>1 DEF Kept
  <2> QED BY <2>3, <1>1, WalkKept
<1>5. Shape(S2, F)
  <2>1. \A i \in DOMAIN S : S[i].mode # "pad"
    <3> SUFFICES ASSUME NEW i \in DOMAIN S, S[i].mode = "pad" PROVE FALSE
      OBVIOUS
    <3>1. i = Len(S) /\ S # <<>>
      BY DEF Shape
    <3> QED BY <3>1
  <2> QED BY <2>1, <1>1 DEF Shape
<1>6. Held(S2, F) = Held(S, F)
  BY <1>2, <1>3, SameHeld
<1> QED BY <1>1, <1>2, <1>3, <1>4, <1>5, <1>6, NoChange

\* A step that changes or leaves the innermost frame only.
TopMoves(S, S2) ==
    /\ S # <<>> /\ S[Len(S)].mode # "cleanup"
    /\ Len(S2) = Len(S) \/ Len(S2) = Len(S) - 1
    /\ \A i \in 1 .. Len(S) - 1 : S2[i] = S[i]
    /\ Len(S2) = Len(S) => S2[Len(S)].mode # "cleanup"
\* The exceptions in up stay, of the type they have.
Lasting(up, X, X2) == \A e \in DOMAIN X : e \in up => e \in DOMAIN X2 /\ X2[e].type = X[e].type
\* The innermost frame is replaced or removed while the flights are suspended below
\* it: the walk and the shape.
LEMMA TopChanges ==
    ASSUME NEW S \in Seq(Frames), NEW S2 \in Seq(Frames), NEW F \in Seq(Flights), NEW X, NEW X2, Walk(S, F, X), Shape(S, F), Landed(F), TopMoves(S, S2), Lasting(UpSet(F, {}), X, X2)
    PROVE  Walk(S2, F, X2) /\ Shape(S2, F) /\ \A i \in DOMAIN F : F[i].phase = "landed" /\ F[i].at \in 0 .. Len(S) - 1
<1> USE DEF TopMoves, Lasting
<1> PICK n \in Nat : n = Len(S)
  OBVIOUS
<1> PICK n2 \in Nat : n2 = Len(S2)
  OBVIOUS
<1>1. n > 0 /\ DOMAIN S = 1 .. n /\ DOMAIN S2 = 1 .. n2 /\ (n2 = n \/ n2 = n - 1)
  OBVIOUS
<1> PICK m \in Nat : m = Len(F)
  OBVIOUS
<1> PICK b \in Nat : b = n - 1
  BY <1>1
<1>2. \A i \in 1 .. m : F[i] = F[i] /\ F[i].phase = "landed" /\ F[i].at <= b /\ F[i].at \in Nat
  <2> TAKE i \in 1 .. m
  <2>1. i \in DOMAIN F /\ F[i].phase = "landed"
    BY DEF Landed
  <2>2. F[i].at \in Nat /\ F[i].at <= Len(S) - 1
    BY <2>1, LandedBelow
  <2> QED BY <2>1, <2>2
<1>3. \A i \in Nat : i <= b => (i \in DOMAIN S <=> i \in DOMAIN S2)
  BY <1>1
<1>4. \A i \in DOMAIN S : i <= b => S2[i] = S[i]
  BY <1>1
<1>5. \A e \in DOMAIN X : (\E i \in 1 .. m : F[i].exc = e) => e \in DOMAIN X2 /\ X2[e].type = X[e].type
  BY DEF UpSet
<1>6. Walk(S2, F, X2)
  <2>1. Kept(S, S2, F, F, X, X2, b, m)
    BY <1>2, <1>3, <1>4, <1>5 DEF Kept
  <2> QED BY <2>1, WalkKept
<1>7. Shape(S2, F)
  <2> SUFFICES ASSUME NEW i \in DOMAIN S2
               PROVE  /\ S2[i].mode = "pad" => i = Len(S2) /\ Landed(F)
                      /\ S2[i].mode = "cleanup" => \E j \in DOMAIN F : F[j].phase = "landed" /\ F[j].at = i
    BY DEF Shape
  <2>1. CASE i = n
    BY <2>1, <1>1
  <2>2. CASE i # n
    <3>1. i \in DOMAIN S /\ i # Len(S) /\ S2[i] = S[i]
      BY <2>2, <1>1
    <3> QED BY <3>1 DEF Shape
  <2> QED BY <2>1, <2>2
<1> QED BY <1>2, <1>6, <1>7

\* Returning from a frame.
LEMMA LeaveKeeps ==
    ASSUME NEW S, NEW F, NEW X, NEW c, NEW u, Proc(S, F, X, c, u), Landed(F), S # <<>>, S[Len(S)].mode = "body", NEW S2, S2 = Popped(S)
    PROVE  Proc(S2, F, X, c, u) /\ Change(Held(S, F), X, Held(S2, F), X)
<1> USE DEF Proc
<1>0. S \in Seq(Frames) /\ S # <<>>
  OBVIOUS
<1>1. /\ S2 \in Seq(Frames) /\ Len(S2) = Len(S) - 1 /\ Len(S) \in DOMAIN S /\ DOMAIN S2 = DOMAIN S \ {Len(S)}
      /\ \A i \in DOMAIN S2 : S2[i] = S[i]
  <2>1. S2 \in Seq(Frames) /\ IsPopped(S, S2)
    BY <1>0, Popping
  <2> QED BY <2>1 DEF IsPopped
<1>2. HandlersOf(S2) = HandlersOf(S)
  BY <1>1, SameHandlers
<1>3. Pads(S2) = Pads(S) /\ PadExcs(S2) = PadExcs(S)
  BY <1>1, SamePads
<1>4. Walk(S2, F, X) /\ Shape(S2, F)
  <2>1. \A i \in 1 .. Len(S) - 1 : S2[i] = S[i]
    BY <1>1
  <2>2. TopMoves(S, S2)
    BY <2>1, <1>1 DEF TopMoves
  <2>3. Lasting(UpSet(F, {}), X, X)
    BY DEF Lasting
  <2> QED BY <2>2, <2>3, <1>1, TopChanges
<1>5. Held(S2, F) = Held(S, F)
  BY <1>2, <1>3, SameHeld
<1> QED BY <1>1, <1>2, <1>3, <1>4, <1>5, NoChange

\* Only the innermost frame can be about to catch.
LEMMA NoneCatching ==
    ASSUME NEW S \in Seq(Frames), NEW F, Shape(S, F), (S # <<>> => S[Len(S)].mode # "pad") \/ ~Landed(F)
    PROVE  (\A i \in DOMAIN S : S[i].mode # "pad") /\ Pads(S) = {} /\ PadExcs(S) = {}
<1>1. \A i \in DOMAIN S : S[i].mode # "pad"
  <2> SUFFICES ASSUME NEW i \in DOMAIN S, S[i].mode = "pad" PROVE FALSE
    OBVIOUS
  <2>1. i = Len(S) /\ Landed(F) /\ S # <<>>
    BY DEF Shape
  <2> QED BY <2>1
<1> QED BY <1>1, NoPads

\* One flight more, from a process that runs.
TakesOff(S, g, X, X2) ==
    /\ g.phase = "search" \/ g.phase = "terminate"
    /\ g.at = Len(S)
    /\ g.exc \in DOMAIN X2 \/ (g.exc = 0 /\ g.phase = "terminate")
    /\ \A d \in DOMAIN X : d \in DOMAIN X2 /\ X2[d].type = X[d].type
LEMMA FlightAdded ==
    ASSUME NEW S \in Seq(Frames), S # <<>>, S[Len(S)].mode # "pad", NEW F \in Seq(Flights), Landed(F), NEW X, NEW X2,
           Walk(S, F, X), Shape(S, F), NEW g \in Flights, NEW F2, F2 = Append(F, g), TakesOff(S, g, X, X2)
    PROVE  /\ F2 \in Seq(Flights) /\ IsAppended(F, g, F2) /\ Walk(S, F2, X2) /\ Shape(S, F2)
           /\ Pads(S) = {} /\ PadExcs(S) = {}
<1> USE DEF TakesOff
<1>1. F2 \in Seq(Flights) /\ IsAppended(F, g, F2)
  BY Appending
<1>2. /\ Len(F2) = Len(F) + 1 /\ DOMAIN F2 = DOMAIN F \cup {Len(F) + 1}
      /\ F2[Len(F) + 1] = g /\ \A i \in DOMAIN F : F2[i] = F[i]
  BY <1>1 DEF IsAppended
<1> PICK m \in Nat : m = Len(F)
  OBVIOUS
<1> PICK b \in Nat : b = Len(S)
  OBVIOUS
<1>3. \A i \in 1 .. m : F2[i] = F[i] /\ F[i].phase = "landed" /\ F[i].at <= b /\ F[i].at \in Nat
  <2> TAKE i \in 1 .. m
  <2>1. i \in DOMAIN F /\ F[i].phase = "landed"
    BY DEF Landed
  <2> QED BY <2>1, <1>2, LandedBelow
<1>4. Walking(S, g, X2)
  BY DEF Walking
<1>5. \A i \in 1 .. m : Above(g, F[i])
  BY <1>3 DEF Above
<1>6. Kept(S, S, F, F2, X, X2, b, m)
  BY <1>2, <1>3, <1>4, <1>5 DEF Kept
<1>7. Walk(S, F2, X2)
  BY <1>1, <1>6, WalkKept
<1>8. (\A i \in DOMAIN S : S[i].mode # "pad") /\ Pads(S) = {} /\ PadExcs(S) = {}
  BY NoneCatching
<1>9. Shape(S, F2)
  <2>1. ASSUME NEW i \in DOMAIN S, S[i].mode = "cleanup" PROVE \E j \in DOMAIN F2 : F2[j].phase = "landed" /\ F2[j].at = i
    <3>1. PICK j \in DOMAIN F : F[j].phase = "landed" /\ F[j].at = i
      BY <2>1 DEF Shape
    <3> QED BY <3>1, <1>2
  <2> QED BY <2>1, <1>8 DEF Shape
<1> QED BY <1>1, <1>7, <1>8, <1>9

Thrown(X, e, X2) ==
    DOMAIN X2 = DOMAIN X \cup {e} /\ X2[e].count = 0 /\ \A d \in DOMAIN X : X2[d] = X[d]
LEMMA ThrowKeeps ==
    ASSUME NEW S, NEW F, NEW X, NEW c, NEW u, Proc(S, F, X, c, u), Landed(F), S # <<>>, S[Len(S)].mode # "pad",
           NEW e \in Nat \ {0}, e \notin DOMAIN X, NEW X2, Thrown(X, e, X2),
           NEW F2, F2 = Append(F, Flight(e, "search", Len(S), 0))
    PROVE  Proc(S, F2, X2, c, u + 1) /\ Change(Held(S, F), X, Held(S, F2), X2)
<1> USE DEF Proc, Thrown
<1> PICK g : g = Flight(e, "search", Len(S), 0)
  OBVIOUS
<1>1. g \in Flights /\ g.exc = e /\ g.phase = "search" /\ g.at = Len(S)
  BY DEF Flight, Flights, Phases
<1>2. /\ F2 \in Seq(Flights) /\ IsAppended(F, g, F2) /\ Walk(S, F2, X2) /\ Shape(S, F2)
      /\ Pads(S) = {} /\ PadExcs(S) = {}
  <2>1. TakesOff(S, g, X, X2)
    BY <1>1 DEF TakesOff
  <2> QED BY <2>1, <1>1, FlightAdded
<1>3. \A i \in DOMAIN F : F[i].exc # e
  BY DEF Walk, Walking
<1>4. HandlersOK(HandlersOf(S), F2, {}, X2, c)
  <2> PICK k : k = HandlersOf(S)
    OBVIOUS
  <2>1. DOMAIN k \subseteq 1 .. Len(S) /\ HandlersOK(k, F, {}, X, c)
    BY <1>2, HandlersAt
  <2> PICK n \in Nat : n = Len(S)
    OBVIOUS
  <2>2. DOMAIN k \subseteq 1 .. n
    BY <2>1
  <2> QED BY <2>1, <2>2, <1>1, <1>3, ThrowingKeeps
<1>5. Len(F2) = Len(F) + 1
  BY <1>2 DEF IsAppended
<1>6. UpSet(F2, {}) = UpSet(F, {}) \cup {e}
  BY <1>1, <1>2 DEF UpSet, IsAppended
<1>7. Held(S, F2) = Held(S, F) \cup {e}
  BY <1>2, <1>6 DEF Held
<1>8. Change(Held(S, F), X, Held(S, F2), X2)
  BY <1>7 DEF Change
<1> QED BY <1>2, <1>4, <1>5, <1>8

LEMMA RethrowKeeps ==
    ASSUME NEW S, NEW F, NEW X, NEW c, NEW u, Proc(S, F, X, c, u), Landed(F), S # <<>>, S[Len(S)].mode # "pad", TypedExceptions(X),
           \A i \in DOMAIN F : F[i].exc # c, NEW X2, Rethrown(X, c, X2),
           NEW phase, phase = (IF c = 0 THEN "terminate" ELSE "search"),
           NEW F2, F2 = Append(F, Flight(c, phase, Len(S), 0))
    PROVE  Proc(S, F2, X2, c, u + 1) /\ Change(Held(S, F), X, Held(S, F2), X2) /\ (c # 0 => c \in DOMAIN X)
<1> USE DEF Proc
<1>r. /\ DOMAIN X2 = DOMAIN X /\ \A d \in DOMAIN X \ {c} : X2[d] = X[d]
      /\ c # 0 => X2[c].type = X[c].type
  BY DEF Rethrown
<1> PICK g : g = Flight(c, phase, Len(S), 0)
  OBVIOUS
<1>0. 0 \notin DOMAIN X /\ DOMAIN X \subseteq Nat
  BY DEF TypedExceptions
<1>n. (\A i \in DOMAIN S : S[i].mode # "pad") /\ Pads(S) = {} /\ PadExcs(S) = {}
  BY NoneCatching
<1>k. DOMAIN HandlersOf(S) \subseteq 1 .. Len(S) /\ HandlersOK(HandlersOf(S), F, {}, X, c)
  BY <1>n, HandlersAt
<1>c. c # 0 => c \in DOMAIN X
  BY <1>k, LatestIn DEF HandlersOK
<1>1. g \in Flights /\ g.exc = c /\ g.phase = phase /\ phase \in {"search", "terminate"} /\ g.at = Len(S)
  BY <1>c, <1>0 DEF Flight, Flights, Phases
<1>2. /\ F2 \in Seq(Flights) /\ IsAppended(F, g, F2) /\ Walk(S, F2, X2) /\ Shape(S, F2)
  <2>1. \A d \in DOMAIN X : d \in DOMAIN X2 /\ X2[d].type = X[d].type
    <3> TAKE d \in DOMAIN X
    <3>1. CASE d = c
      BY <3>1, <1>0, <1>r
    <3>2. CASE d # c
      BY <3>2, <1>r
    <3> QED BY <3>1, <3>2
  <2>2. g.exc \in DOMAIN X2 \/ (g.exc = 0 /\ g.phase = "terminate")
    BY <1>1, <1>c, <1>r
  <2>3. TakesOff(S, g, X, X2)
    BY <1>1, <2>1, <2>2 DEF TakesOff
  <2> QED BY <1>1, <2>3, FlightAdded
<1>4. HandlersOK(HandlersOf(S), F2, {}, X2, c) /\ (c # 0 => \E i \in DOMAIN HandlersOf(S) : HandlersOf(S)[i] = c)
  <2> PICK k : k = HandlersOf(S)
    OBVIOUS
  <2> PICK n \in Nat : n = Len(S)
    OBVIOUS
  <2>1. DOMAIN k \subseteq 1 .. n /\ HandlersOK(k, F, {}, X, c)
    BY <1>k
  <2>2. Rethrown(X, c, X2)
    BY DEF Rethrown
  <2>3. g.phase # "landed"
    BY <1>1
  <2>4. HandlersOK(k, F2, {}, X2, c)
    BY <2>1, <2>2, <2>3, <1>0, <1>1, RethrowingKeeps
  <2>5. c # 0 => \E i \in DOMAIN k : k[i] = c
    BY <2>1, LatestIn DEF HandlersOK
  <2> QED BY <2>4, <2>5
<1>5. Len(F2) = Len(F) + 1
  BY <1>2 DEF IsAppended
<1>6. UpSet(F2, {}) = UpSet(F, {}) \cup {c}
  BY <1>1, <1>2 DEF UpSet, IsAppended
<1>7. Held(S, F2) = Held(S, F) \cup {c} /\ (c # 0 => c \in Held(S, F))
  BY <1>n, <1>4, <1>6 DEF Held
<1>8. Change(Held(S, F), X, Held(S, F2), X2)
  BY <1>7, <1>0, <1>r DEF Change
<1> QED BY <1>2, <1>n, <1>4, <1>5, <1>8, <1>c

\* The handler in the innermost frame is left, with or without the frame.
Shed(S, S2) ==
    /\ S # <<>> /\ S[Len(S)].mode = "catch"
    /\ \A i \in 1 .. Len(S) - 1 : i \in DOMAIN S2 /\ S2[i] = S[i]
    /\ DOMAIN S2 \subseteq DOMAIN S
    /\ Len(S) \in DOMAIN S2 => S2[Len(S)].mode = "body"
LEMMA HandlerGone ==
    ASSUME NEW S \in Seq(Frames), NEW S2 \in Seq(Frames), Shed(S, S2), NEW F \in Seq(Flights), Shape(S, F),
           NEW X, NEW c, HandlersOK(HandlersOf(S), F, PadExcs(S), X, c), TypedExceptions(X), NEW X2, NEW c2, Ended(X, c, X2, c2),
           Below(F, Len(S))
    PROVE  /\ HandlersOK(HandlersOf(S2), F, PadExcs(S2), X2, c2)
           /\ Pads(S) = {} /\ Pads(S2) = {} /\ c \in DOMAIN X
           /\ Change(Held(S, F), X, Held(S2, F), X2)
           /\ Lasting(UpSet(F, {}), X, X2)
<1> PICK n \in Nat : n = Len(S)
  OBVIOUS
<1>s. /\ n > 0 /\ DOMAIN S = 1 .. n /\ n \in DOMAIN S /\ S[n].mode = "catch"
      /\ \A i \in 1 .. n - 1 : i \in DOMAIN S2 /\ S2[i] = S[i]
      /\ DOMAIN S2 \subseteq DOMAIN S
      /\ n \in DOMAIN S2 => S2[n].mode = "body"
  BY DEF Shed
<1>1. (\A i \in DOMAIN S : S[i].mode # "pad") /\ Pads(S) = {} /\ PadExcs(S) = {}
  <2>1. S[Len(S)].mode # "pad"
    BY <1>s
  <2> QED BY <2>1, NoneCatching
<1>2. \A i \in DOMAIN S2 : (i = n /\ S2[i].mode = "body") \/ (i # n /\ i \in DOMAIN S /\ S2[i] = S[i])
  <2> TAKE i \in DOMAIN S2
  <2>1. i = n \/ i \in 1 .. n - 1
    BY <1>s
  <2>2. CASE i = n
    BY <2>2, <1>s
  <2>3. CASE i \in 1 .. n - 1
    BY <2>3, <1>s
  <2> QED BY <2>1, <2>2, <2>3
<1>3. Pads(S2) = {} /\ PadExcs(S2) = {}
  <2>1. \A i \in DOMAIN S2 : S2[i].mode # "pad"
    BY <1>1, <1>2
  <2> QED BY <2>1, NoPads
<1> PICK k : k = HandlersOf(S)
  OBVIOUS
<1> PICK k2 : k2 = HandlersOf(S2)
  OBVIOUS
<1>4. Shrunk(n, k, k2)
  <2>1. /\ \A i : i \in DOMAIN k <=> i \in DOMAIN S /\ S[i].mode = "catch"
        /\ \A i \in DOMAIN k : k[i] = S[i].exc
        /\ DOMAIN k \subseteq 1 .. n
    BY HandlersAt
  <2>2. /\ \A i : i \in DOMAIN k2 <=> i \in DOMAIN S2 /\ S2[i].mode = "catch"
        /\ \A i \in DOMAIN k2 : k2[i] = S2[i].exc
    BY HandlersAt
  <2>3. n \in DOMAIN k
    BY <1>s, <2>1
  <2>4. \A i : i \in DOMAIN k2 <=> i \in DOMAIN k /\ i # n
    <3> TAKE i
    <3>0. i \in DOMAIN S /\ i # n => i \in 1 .. n - 1
      BY ONLY <1>s, n \in Nat
    <3>1. i \in DOMAIN S /\ i # n => i \in DOMAIN S2 /\ S2[i] = S[i]
      BY ONLY <3>0, <1>s
    <3> QED BY ONLY <3>1, <2>1, <2>2, <1>2
  <2>5. \A i \in DOMAIN k2 : k2[i] = k[i]
    BY <2>1, <2>2, <2>4, <1>2
  <2> QED BY <2>1, <2>3, <2>4, <2>5 DEF Shrunk
<1>5. HandlersOK(k, F, {}, X, c) /\ 0 \notin DOMAIN X
  BY <1>1 DEF TypedExceptions
<1>6. Below(F, n)
  OBVIOUS
<1> PICK up : up = UpSet(F, {})
  OBVIOUS
<1>7. HandlersOK(k2, F, {}, X2, c2) /\ c \in DOMAIN X /\ k[n] = c /\ (c \in DOMAIN X2 <=> Needed(k2, up, c))
  BY <1>4, <1>5, <1>6, LeavingKeeps
<1>8. /\ DOMAIN k2 = DOMAIN k \ {n} /\ \A i \in DOMAIN k2 : k2[i] = k[i]
      /\ n \in DOMAIN k
  BY <1>4 DEF Shrunk
<1>9. /\ \A d \in DOMAIN X \ {c} : d \in DOMAIN X2 /\ X2[d] = X[d]
      /\ \A d \in DOMAIN X2 : d \in DOMAIN X
      /\ c \in DOMAIN X2 => X2[c].type = X[c].type
  <2> DEFINE left == IF X[c].count < 0 THEN X[c].count + 1 ELSE X[c].count - 1
  <2>1. /\ left = 0 /\ X[c].count > 0 => DOMAIN X2 = DOMAIN X \ {c}
        /\ left # 0 \/ ~(X[c].count > 0) => DOMAIN X2 = DOMAIN X /\ X2[c].type = X[c].type
        /\ \A d \in DOMAIN X \ {c} : X2[d] = X[d]
    BY Zenon DEF Ended
  <2> HIDE DEF left
  <2> QED BY <2>1
<1>10. \A e : Needed(k2, up, e) <=> Needed(k, up, e) /\ (e # c \/ Needed(k2, up, c))
  BY <1>7, <1>8 DEF Needed
<1>11. \A e : e \in Held(S, F) <=> Needed(k, up, e)
  BY <1>1, HeldNeeded
<1>12. \A e : e \in Held(S2, F) <=> Needed(k2, up, e)
  BY <1>3, HeldNeeded
<1>13. Needed(k, up, c)
  BY <1>7, <1>8 DEF Needed
<1>14. Change(Held(S, F), X, Held(S2, F), X2)
  <2>1. \A e \in DOMAIN X2 : e \in Held(S2, F) \/ (e \in DOMAIN X /\ e \notin Held(S, F))
    <3> TAKE e \in DOMAIN X2
    <3>1. CASE e = c
      BY <3>1, <1>7, <1>12
    <3>2. CASE e # c
      BY <3>2, <1>9, <1>10, <1>11, <1>12
    <3> QED BY <3>1, <3>2
  <2>2. \A e \in DOMAIN X : e \notin Held(S, F) => e \in DOMAIN X2 /\ X2[e] = X[e]
    BY <1>9, <1>11, <1>13
  <2> QED BY <2>1, <2>2, <1>10, <1>11, <1>12 DEF Change
<1>15. \A e \in DOMAIN X : e \in UpSet(F, {}) => e \in DOMAIN X2 /\ X2[e].type = X[e].type
  <2> TAKE e \in DOMAIN X
  <2> HAVE e \in UpSet(F, {})
  <2>1. CASE e = c
    BY <2>1, <1>7, <1>9 DEF Needed
  <2>2. CASE e # c
    BY <2>2, <1>9
  <2> QED BY <2>1, <2>2
<1> QED BY <1>1, <1>3, <1>7, <1>14, <1>15 DEF Lasting

LEMMA EndCatchKeeps ==
    ASSUME NEW S, NEW F, NEW X, NEW c, NEW u, Proc(S, F, X, c, u), Landed(F), S # <<>>, S[Len(S)].mode = "catch", TypedExceptions(X),
           NEW X2, NEW c2, Ended(X, c, X2, c2), NEW f \in Frames, f.mode = "body", NEW S2, S2 = Topped(S, f)
    PROVE  Proc(S2, F, X2, c2, u) /\ Change(Held(S, F), X, Held(S2, F), X2)
<1> USE DEF Proc
<1>1. S2 \in Seq(Frames) /\ IsTopped(S, f, S2)
  BY Topping
<1>2. Len(S2) = Len(S) /\ DOMAIN S2 = DOMAIN S /\ S2[Len(S)] = f /\ \A i \in 1 .. Len(S) - 1 : i \in DOMAIN S2 /\ S2[i] = S[i]
  BY <1>1 DEF IsTopped
<1>3. Shed(S, S2)
  BY <1>2 DEF Shed
<1>4. Below(F, Len(S))
  BY LandedBelow DEF Below
<1>5. /\ HandlersOK(HandlersOf(S2), F, PadExcs(S2), X2, c2)
      /\ Pads(S) = {} /\ Pads(S2) = {}
      /\ Change(Held(S, F), X, Held(S2, F), X2)
      /\ Lasting(UpSet(F, {}), X, X2)
  BY <1>1, <1>3, <1>4, HandlerGone
<1>6. Walk(S2, F, X2) /\ Shape(S2, F)
  <2>1. TopMoves(S, S2)
    BY <1>2 DEF TopMoves
  <2> QED BY <2>1, <1>1, <1>5, TopChanges
<1> QED BY <1>1, <1>5, <1>6

\* A handler begins.
Begun(X, c, e, X2) ==
    /\ DOMAIN X2 = DOMAIN X /\ \A d \in DOMAIN X \ {e} : X2[d] = X[d]
    /\ X2[e].count = BeginCount(X[e].count) /\ X2[e].type = X[e].type
    /\ X2[e].next = IF c # e THEN c ELSE X[e].next
LEMMA BeginCatchKeeps ==
    ASSUME NEW S, NEW F, NEW X, NEW c, NEW u, Proc(S, F, X, c, u), S # <<>>, S[Len(S)].mode = "pad", TypedExceptions(X),
           NEW e, e = S[Len(S)].exc, NEW X2, Begun(X, c, e, X2),
           NEW f \in Frames, f.mode = "catch", f.exc = e, NEW S2, S2 = Topped(S, f)
    PROVE  Proc(S2, F, X2, e, u - 1) /\ Change(Held(S, F), X, Held(S2, F), X2) /\ e \in DOMAIN X
<1> USE DEF Proc
<1> PICK n \in Nat : n = Len(S)
  OBVIOUS
<1>0. n \in DOMAIN S /\ S[n].mode = "pad" /\ S[n].exc = e /\ DOMAIN S = 1 .. n
  OBVIOUS
<1>1. S2 \in Seq(Frames) /\ IsTopped(S, f, S2)
  BY Topping
<1>2. Len(S2) = n /\ DOMAIN S2 = DOMAIN S /\ S2[n] = f /\ \A i \in DOMAIN S \ {n} : S2[i] = S[i]
  BY <1>1 DEF IsTopped
<1>3. Landed(F) /\ \A i \in DOMAIN S : S[i].mode = "pad" => i = n
  BY <1>0 DEF Shape
<1>4. Pads(S) = {n} /\ PadExcs(S) = {e}
  BY <1>0, <1>3, OnePad
<1>5. Pads(S2) = {} /\ PadExcs(S2) = {}
  <2>1. \A i \in DOMAIN S2 : S2[i].mode # "pad"
    BY <1>2, <1>3
  <2> QED BY <2>1, NoPads
<1>6. e \in DOMAIN X
  BY <1>4 DEF HandlersOK, Distinct
<1>7. Walk(S2, F, X2) /\ Shape(S2, F) /\ \A i \in DOMAIN F : F[i].phase = "landed" /\ F[i].at \in 0 .. n - 1
  <2>1. \A d \in DOMAIN X : d \in DOMAIN X2 /\ X2[d].type = X[d].type
    <3> TAKE d \in DOMAIN X
    <3>1. CASE d = e
      BY <3>1, <1>6 DEF Begun
    <3>2. CASE d # e
      BY <3>2 DEF Begun
    <3> QED BY <3>1, <3>2
  <2>2. \A i \in 1 .. Len(S) - 1 : S2[i] = S[i]
    BY <1>2
  <2>3. Len(S2) = Len(S) /\ S2[Len(S)].mode # "cleanup" /\ S[Len(S)].mode # "cleanup"
    BY <1>2
  <2>4. TopMoves(S, S2)
    BY <2>2, <2>3 DEF TopMoves
  <2>5. Lasting(UpSet(F, {}), X, X2)
    BY <2>1 DEF Lasting
  <2> QED BY <2>4, <2>5, <1>1, <1>3, TopChanges
<1>8. HandlersOK(HandlersOf(S2), F, {}, X2, e) /\ DOMAIN HandlersOf(S2) = DOMAIN HandlersOf(S) \cup {n} /\ HandlersOf(S2)[n] = e
      /\ \A i \in DOMAIN HandlersOf(S) : HandlersOf(S2)[i] = HandlersOf(S)[i]
  <2> PICK k : k = HandlersOf(S)
    OBVIOUS
  <2> PICK k2 : k2 = HandlersOf(S2)
    OBVIOUS
  <2>1. /\ \A i : i \in DOMAIN k <=> i \in DOMAIN S /\ S[i].mode = "catch"
        /\ \A i \in DOMAIN k : k[i] = S[i].exc
    BY HandlersAt
  <2>2. /\ \A i : i \in DOMAIN k2 <=> i \in DOMAIN S2 /\ S2[i].mode = "catch"
        /\ \A i \in DOMAIN k2 : k2[i] = S2[i].exc
    BY <1>1, HandlersAt
  <2>3. n \notin DOMAIN k /\ DOMAIN k \subseteq 1 .. n - 1
    BY <2>1, <1>0
  <2>4. \A i : i \in DOMAIN k2 <=> i \in DOMAIN k \/ i = n
    BY <2>1, <2>2, <1>0, <1>2
  <2>5. DOMAIN k2 = DOMAIN k \cup {n}
    BY <2>4
  <2>6. k2[n] = e /\ \A i \in DOMAIN k : k2[i] = k[i]
    <3>1. k2[n] = e
      BY <2>2, <2>4, <1>2
    <3>2. ASSUME NEW i \in DOMAIN k PROVE k2[i] = k[i]
      BY ONLY <3>2, <2>1, <2>2, <2>3, <2>4, <1>2
    <3> QED BY <3>1, <3>2
  <2>7. HandlersOK(k, F, {e}, X, c) /\ 0 \notin DOMAIN X
    BY <1>4 DEF TypedExceptions
  <2>8. /\ DOMAIN X2 = DOMAIN X /\ X2[e].count = BeginCount(X[e].count) /\ X2[e].next = (IF c # e THEN c ELSE X[e].next)
        /\ \A d \in DOMAIN X \ {e} : X2[d] = X[d]
    BY DEF Begun
  <2>9. HandlersOK(k2, F, {}, X2, e)
    BY <2>3, <2>5, <2>6, <2>7, <2>8, <1>7, TakingKeeps
  <2> QED BY <2>5, <2>6, <2>9
<1>9. \A d : d \in Held(S2, F) <=> d \in Held(S, F)
  BY <1>4, <1>5, <1>8 DEF Held, UpSet
<1>10. e \in Held(S, F)
  BY <1>4 DEF Held, UpSet
<1>11. Change(Held(S, F), X, Held(S2, F), X2)
  <2>1. \A d \in DOMAIN X : d \notin Held(S, F) => d \in DOMAIN X2 /\ X2[d] = X[d]
    BY <1>10 DEF Begun
  <2>2. DOMAIN X2 = DOMAIN X
    BY DEF Begun
  <2> QED BY <2>1, <2>2, <1>9 DEF Change
<1>12. u = Len(F) + 1
  BY <1>4
<1> QED BY <1>1, <1>5, <1>6, <1>7, <1>8, <1>11, <1>12

\* The earlier flights are suspended, each in a cleanup.
Suspended(S, F) == \A i \in 1 .. Len(F) - 1 :
    i \in DOMAIN F /\ F[i].phase = "landed" /\ F[i].at \in DOMAIN S /\ S[F[i].at].mode = "cleanup" /\ Above(F[Len(F)], F[i])
LEMMA EarlierSuspended ==
    ASSUME NEW S \in Seq(Frames), NEW F \in Seq(Flights), NEW X, Walk(S, F, X)
    PROVE  Suspended(S, F)
<1> SUFFICES ASSUME NEW i \in 1 .. Len(F) - 1
             PROVE  i \in DOMAIN F /\ F[i].phase = "landed" /\ F[i].at \in DOMAIN S /\ S[F[i].at].mode = "cleanup" /\ Above(F[Len(F)], F[i])
  BY DEF Suspended
<1>1. i \in DOMAIN F /\ Len(F) \in DOMAIN F /\ i < Len(F)
  OBVIOUS
<1>2. F[i].phase = "landed" /\ Walking(S, F[i], X) /\ Above(F[Len(F)], F[i])
  BY <1>1 DEF Walk
<1> QED BY <1>1, <1>2 DEF Walking

\* The last flight goes on as g, above the frames up to b, which stay.
Turns(S, S2, F, g, X, X2, b) ==
    /\ b \in Nat /\ \A i \in Nat : i <= b => (i \in DOMAIN S <=> i \in DOMAIN S2)
    /\ \A i \in DOMAIN S : i <= b => S2[i] = S[i]
    /\ \A i \in 1 .. Len(F) - 1 : F[i].at <= b /\ Above(g, F[i])
    /\ Walking(S2, g, X2)
LEMMA FlightTurns ==
    ASSUME NEW S \in Seq(Frames), NEW S2 \in Seq(Frames), NEW F \in Seq(Flights), F # <<>>, NEW X, NEW X2, Walk(S, F, X),
           NEW g \in Flights, NEW F2 \in Seq(Flights), IsTopped(F, g, F2), NEW b, Turns(S, S2, F, g, X, X2, b), Lasting(UpSet(F, {}), X, X2)
    PROVE  Walk(S2, F2, X2)
<1> PICK m \in Nat : m + 1 = Len(F)
  <2>1. Len(F) - 1 \in Nat /\ (Len(F) - 1) + 1 = Len(F)
    OBVIOUS
  <2> QED BY <2>1
<1>0. \A i \in 1 .. m : i \in DOMAIN F \ {Len(F)}
  OBVIOUS
<1>1. /\ Len(F2) = m + 1 /\ F2[m + 1] = g
      /\ \A i \in 1 .. m : F2[i] = F[i]
  BY <1>0 DEF IsTopped
<1>2. \A i \in 1 .. m : i \in 1 .. Len(F) - 1 /\ i \in DOMAIN F
  OBVIOUS
<1>3. \A i \in 1 .. m : F[i].phase = "landed"
  BY <1>2, EarlierSuspended DEF Suspended
<1>4. \A e \in DOMAIN X : (\E i \in 1 .. m : F[i].exc = e) => e \in DOMAIN X2 /\ X2[e].type = X[e].type
  BY <1>2 DEF Lasting, UpSet
<1>5. Kept(S, S2, F, F2, X, X2, b, m)
  BY <1>1, <1>2, <1>3, <1>4 DEF Kept, Turns
<1> QED BY <1>5, WalkKept

\* The steps of the search: nobody takes the exception, this frame does, the next.
OnlyMarked(e, X, X2) ==
    /\ DOMAIN X2 = DOMAIN X /\ \A d \in DOMAIN X \ {e} : X2[d] = X[d]
    /\ X2[e].type = X[e].type /\ X2[e].count = X[e].count /\ X2[e].next = X[e].next
Searched(S, f, X, g) ==
    \/ g = Flight(f.exc, "terminate", f.at, 0)
    \/ /\ f.at # 0 /\ S[f.at].mode # "cleanup" /\ Takes(S[f.at], X[f.exc].type)
       /\ g = Flight(f.exc, "cleanup", f.at, f.at)
    \/ /\ f.at # 0 /\ S[f.at].mode # "cleanup" /\ ~Takes(S[f.at], X[f.exc].type)
       /\ g = Flight(f.exc, "search", f.at - 1, 0)

LEMMA SearchWalk ==
    ASSUME NEW S \in Seq(Frames), NEW F \in Seq(Flights), F # <<>>, NEW X, Walk(S, F, X), NEW f, f = F[Len(F)], f.phase = "search",
           NEW X2, OnlyMarked(f.exc, X, X2), NEW g, Searched(S, f, X, g)
    PROVE  g \in Flights /\ g.exc = f.exc /\ g.phase # "landed" /\ f.exc \in DOMAIN X /\ Turns(S, S, F, g, X, X2, Len(S))
<1> PICK n \in Nat : n = Len(S)
  OBVIOUS
<1>1. Len(F) \in DOMAIN F /\ f \in Flights /\ Walking(S, f, X)
  BY DEF Walk
<1>2. f.exc \in DOMAIN X /\ f.exc \in Nat /\ f.at \in 0 .. n /\ DOMAIN S = 1 .. n
  BY <1>1 DEF Walking, Flights
<1> PICK t : t = X[f.exc].type
  OBVIOUS
<1>3. \A j \in DOMAIN S : j > f.at => ~Takes(S[j], t)
  BY <1>1 DEF Walking
<1>4. f.exc \in DOMAIN X2 /\ X2[f.exc].type = t
  BY <1>2 DEF OnlyMarked
<1>5. \A i \in 1 .. Len(F) - 1 : F[i].at \in DOMAIN S /\ S[F[i].at].mode = "cleanup" /\ F[i].at <= f.at
  BY EarlierSuspended DEF Suspended, Above
<1>6. CASE g = Flight(f.exc, "terminate", f.at, 0)
  <2>1. g \in Flights /\ g.exc = f.exc /\ g.phase = "terminate"
    BY <1>6, <1>2 DEF Flight, Flights, Phases
  <2>2. Walking(S, g, X2)
    BY <2>1, <1>4 DEF Walking
  <2> QED BY <2>1, <2>2, <1>2, <1>5 DEF Turns, Above
<1>7. CASE /\ f.at # 0 /\ S[f.at].mode # "cleanup" /\ Takes(S[f.at], t)
           /\ g = Flight(f.exc, "cleanup", f.at, f.at)
  <2>1. g \in Flights /\ g.exc = f.exc /\ g.phase = "cleanup" /\ g.at = f.at /\ g.target = f.at
    BY <1>7, <1>2 DEF Flight, Flights, Phases
  <2>2. Chosen(S, n + 1, g.target, t)
    BY <2>1, <1>2, <1>3, <1>7 DEF Chosen
  <2>3. Walking(S, g, X2)
    BY <2>1, <2>2, <1>4 DEF Walking
  <2>4. \A i \in 1 .. Len(F) - 1 : Above(g, F[i]) /\ F[i].at <= n
    <3> TAKE i \in 1 .. Len(F) - 1
    <3>1. F[i].at # f.at
      BY <1>5, <1>7
    <3>2. F[i].at < f.at /\ F[i].at <= n
      BY <3>1, <1>5, <1>2
    <3> QED BY <3>2, <2>1 DEF Above
  <2> QED BY <2>1, <2>3, <2>4, <1>2 DEF Turns
<1>8. CASE /\ f.at # 0 /\ S[f.at].mode # "cleanup" /\ ~Takes(S[f.at], t)
           /\ g = Flight(f.exc, "search", f.at - 1, 0)
  <2>1. g \in Flights /\ g.exc = f.exc /\ g.phase = "search" /\ g.at = f.at - 1
    BY <1>8, <1>2 DEF Flight, Flights, Phases
  <2>2. \A j \in DOMAIN S : j > g.at => ~Takes(S[j], t)
    <3> TAKE j \in DOMAIN S
    <3> HAVE j > g.at
    <3>1. j = f.at \/ j > f.at
      BY <2>1, <1>2
    <3> QED BY <3>1, <1>3, <1>8
  <2>3. Walking(S, g, X2)
    BY <2>1, <2>2, <1>2, <1>4 DEF Walking
  <2>4. \A i \in 1 .. Len(F) - 1 : Above(g, F[i]) /\ F[i].at <= n
    <3> TAKE i \in 1 .. Len(F) - 1
    <3>1. F[i].at # f.at
      BY <1>5, <1>8
    <3>2. F[i].at <= f.at - 1 /\ F[i].at <= n
      BY <3>1, <1>5, <1>2
    <3> QED BY <3>2, <2>1 DEF Above
  <2> QED BY <2>1, <2>3, <2>4, <1>2 DEF Turns
<1> QED BY <1>6, <1>7, <1>8 DEF Searched

\* The shape of the stack, when the last flight turns.
LEMMA ShapeTurns ==
    ASSUME NEW S \in Seq(Frames), NEW F \in Seq(Flights), F # <<>>, F[Len(F)].phase # "landed", Shape(S, F),
           NEW g, NEW F2, IsTopped(F, g, F2), NEW X, Walk(S, F, X)
    PROVE  Shape(S, F2) /\ Pads(S) = {} /\ PadExcs(S) = {} /\ \A i \in DOMAIN S : S[i].mode # "pad"
<1>1. ~Landed(F) /\ Len(F) \in DOMAIN F
  BY DEF Landed
<1>2. (\A i \in DOMAIN S : S[i].mode # "pad") /\ Pads(S) = {} /\ PadExcs(S) = {}
  BY <1>1, NoneCatching
<1>3. ASSUME NEW i \in DOMAIN S, S[i].mode = "cleanup" PROVE \E j \in DOMAIN F2 : F2[j].phase = "landed" /\ F2[j].at = i
  <2>1. PICK j \in DOMAIN F : F[j].phase = "landed" /\ F[j].at = i
    BY <1>3 DEF Shape
  <2>2. j # Len(F)
    BY <2>1
  <2> QED BY <2>1, <2>2 DEF IsTopped
<1> QED BY <1>2, <1>3 DEF Shape

LEMMA SearchKeeps ==
    ASSUME NEW S, NEW F, NEW X, NEW c, NEW u, Proc(S, F, X, c, u), F # <<>>, NEW f, f = F[Len(F)], f.phase = "search",
           NEW X2, OnlyMarked(f.exc, X, X2), NEW g, Searched(S, f, X, g), NEW F2, F2 = Topped(F, g)
    PROVE  Proc(S, F2, X2, c, u) /\ Change(Held(S, F), X, Held(S, F2), X2) /\ f.exc \in DOMAIN X
<1> USE DEF Proc
<1>1. g \in Flights /\ g.exc = f.exc /\ g.phase # "landed" /\ f.exc \in DOMAIN X /\ Turns(S, S, F, g, X, X2, Len(S))
  <2>1. S \in Seq(Frames) /\ F \in Seq(Flights) /\ Walk(S, F, X)
    OBVIOUS
  <2> QED
    BY ONLY <2>1, F # <<>>, f = F[Len(F)], f.phase = "search", OnlyMarked(f.exc, X, X2), Searched(S, f, X, g), SearchWalk
<1>2. F2 \in Seq(Flights) /\ IsTopped(F, g, F2)
  BY <1>1, Topping
<1>3. Lasting(UpSet(F, {}), X, X2)
  <2> SUFFICES ASSUME NEW d \in DOMAIN X PROVE d \in DOMAIN X2 /\ X2[d].type = X[d].type
    BY DEF Lasting
  <2>1. CASE d = f.exc
    BY <2>1 DEF OnlyMarked
  <2>2. CASE d # f.exc
    BY <2>2 DEF OnlyMarked
  <2> QED BY <2>1, <2>2
<1>4. Walk(S, F2, X2)
  <2> PICK b : b = Len(S)
    OBVIOUS
  <2> QED BY <1>1, <1>2, <1>3, FlightTurns
<1>5. Shape(S, F2) /\ Pads(S) = {} /\ PadExcs(S) = {}
  BY <1>2, ShapeTurns
<1> PICK k : k = HandlersOf(S)
  OBVIOUS
<1>6. HandlersOK(k, F2, {}, X, c)
  <2> PICK b \in Nat : b = Len(S) + 1
    OBVIOUS
  <2>1. DOMAIN k \subseteq 1 .. b - 1
    BY HandlersAt
  <2>2. HandlersOK(k, F, {}, X, c) /\ F[Len(F)].phase # "landed"
    BY <1>5
  <2> QED BY <2>1, <2>2, <1>1, FlightMoves
<1>7. HandlersOK(k, F2, {}, X2, c)
  <2>1. \A e \in DOMAIN X : X2[e].count = X[e].count /\ X2[e].next = X[e].next
    BY DEF OnlyMarked
  <2>2. DOMAIN X2 = DOMAIN X
    BY DEF OnlyMarked
  <2> QED BY <2>1, <2>2, <1>6, OthersChange
<1>8. Len(F2) = Len(F)
  BY <1>2 DEF IsTopped
<1>9. UpSet(F2, {}) = UpSet(F, {}) /\ f.exc \in UpSet(F, {})
  <2>1. Len(F) \in DOMAIN F /\ f = F[Len(F)] /\ g.exc = f.exc
    BY <1>1
  <2>2. DOMAIN F2 = DOMAIN F /\ \A i \in DOMAIN F : F2[i].exc = F[i].exc
    BY ONLY <2>1, <1>2 DEF IsTopped
  <2> QED BY ONLY <2>1, <2>2 DEF UpSet
<1>10. Held(S, F2) = Held(S, F) /\ f.exc \in Held(S, F)
  BY <1>5, <1>9 DEF Held
<1>11. Change(Held(S, F), X, Held(S, F2), X2)
  BY <1>10 DEF Change, OnlyMarked
<1> QED BY <1>1, <1>2, <1>4, <1>5, <1>7, <1>8, <1>11

\* The second walk: the innermost frame is at or above the one that takes the
\* exception, and all suspended flights are below that.
LEMMA Landing ==
    ASSUME NEW S \in Seq(Frames), NEW F \in Seq(Flights), F # <<>>, NEW X, Walk(S, F, X), NEW f, f = F[Len(F)], f.phase = "cleanup"
    PROVE  /\ f \in Flights /\ f.exc \in DOMAIN X /\ S # <<>> /\ Len(S) \in DOMAIN S /\ f.target \in 1 .. Len(S)
           /\ \A i \in 1 .. Len(F) - 1 : F[i].phase = "landed" /\ F[i].at < f.target /\ F[i].at <= Len(S) - 1
           /\ Below(F, Len(S))
           /\ Chosen(S, Len(S) + 1, f.target, X[f.exc].type)
           /\ ~Takes(S[Len(S)], X[f.exc].type) => f.target < Len(S) /\ Chosen(S, Len(S), f.target, X[f.exc].type)
<1> PICK n \in Nat : n = Len(S)
  OBVIOUS
<1> PICK t : t = X[f.exc].type
  OBVIOUS
<1>1. Len(F) \in DOMAIN F /\ f \in Flights /\ Walking(S, f, X) /\ DOMAIN S = 1 .. n /\ f.target \in Nat
  <2>1. Len(F) \in DOMAIN F /\ f \in Flights
    OBVIOUS
  <2>2. f.target \in Nat
    BY <2>1 DEF Flights
  <2> QED BY <2>1, <2>2 DEF Walk
<1>2. f.exc \in DOMAIN X /\ Chosen(S, n + 1, f.target, t)
  BY <1>1 DEF Walking
<1>3. f.target \in 1 .. n
  BY <1>1, <1>2 DEF Chosen
<1>4. ASSUME NEW i \in 1 .. Len(F) - 1 PROVE F[i].phase = "landed" /\ F[i].at < f.target /\ F[i].at <= n - 1 /\ F[i].at \in Nat
  <2>1. F[i].phase = "landed" /\ F[i].at \in DOMAIN S /\ Above(f, F[i])
    BY EarlierSuspended DEF Suspended
  <2>2. F[i].at < f.target
    BY <2>1 DEF Above
  <2> QED BY <2>1, <2>2, <1>1, <1>3
<1>5. Below(F, n)
  <2> SUFFICES ASSUME NEW i \in DOMAIN F, F[i].phase = "landed" PROVE F[i].at \in 0 .. n - 1
    BY DEF Below
  <2>1. i \in 1 .. Len(F) - 1
    <3>1. i # Len(F)
      OBVIOUS
    <3> QED BY <3>1
  <2> QED BY <2>1, <1>4, <1>3
<1>6. ASSUME ~Takes(S[n], t) PROVE f.target < n /\ Chosen(S, n, f.target, t)
  <2>1. f.target # n
    BY <1>6, <1>2 DEF Chosen
  <2>2. f.target < n
    BY <2>1, <1>3
  <2>3. \A j \in DOMAIN S : j > f.target /\ j < n => ~Takes(S[j], t)
    BY <1>1, <1>2 DEF Chosen
  <2> QED BY <2>2, <2>3, <1>2 DEF Chosen
<1> QED BY <1>1, <1>2, <1>3, <1>4, <1>5, <1>6

\* The frame takes it.
LEMMA LandTakes ==
    ASSUME NEW S, NEW F, NEW X, NEW c, NEW u, Proc(S, F, X, c, u), F # <<>>, NEW f, f = F[Len(F)], f.phase = "cleanup",
           S[Len(S)].mode = "body", NEW x \in Frames, x.mode = "pad", x.exc = f.exc, NEW S2, S2 = Topped(S, x), NEW F2, F2 = Popped(F)
    PROVE  Proc(S2, F2, X, c, u) /\ Change(Held(S, F), X, Held(S2, F2), X)
<1> USE DEF Proc
<1> PICK n \in Nat : n = Len(S)
  OBVIOUS
<1>1. /\ f.exc \in DOMAIN X /\ S # <<>> /\ n \in DOMAIN S /\ DOMAIN S = 1 .. n /\ f.target \in 1 .. n
      /\ \A i \in 1 .. Len(F) - 1 : F[i].phase = "landed" /\ F[i].at <= n - 1
  BY Landing
<1>2. S2 \in Seq(Frames) /\ IsTopped(S, x, S2)
  BY <1>1, Topping
<1>3. Len(S2) = n /\ DOMAIN S2 = DOMAIN S /\ S2[n] = x /\ \A i \in DOMAIN S \ {n} : S2[i] = S[i]
  BY <1>2 DEF IsTopped
<1>4. F2 \in Seq(Flights) /\ IsPopped(F, F2)
  BY Popping
<1>5. Len(F2) = Len(F) - 1 /\ DOMAIN F2 = DOMAIN F \ {Len(F)} /\ Len(F) \in DOMAIN F /\ \A i \in DOMAIN F2 : F2[i] = F[i]
  BY <1>4 DEF IsPopped
<1>6. Walk(S2, F2, X)
  <2>0. Len(F) - 1 \in Nat
    OBVIOUS
  <2> PICK m \in Nat : m = Len(F) - 1
    BY <2>0
  <2>b. n - 1 \in Nat
    BY <1>1
  <2> PICK b \in Nat : b = n - 1
    BY <2>b
  <2>1. \A i \in 1 .. m : i \in 1 .. Len(F) - 1 /\ i \in DOMAIN F2
    BY <1>5
  <2>2. \A i \in DOMAIN S : i <= b => i # n
    OBVIOUS
  <2>3. /\ m <= Len(F) /\ Len(F2) = m /\ \A i \in Nat : i <= b => (i \in DOMAIN S <=> i \in DOMAIN S2)
        /\ \A i \in DOMAIN S : i <= b => S2[i] = S[i]
    BY <2>2, <1>3, <1>5
  <2>4. \A i \in 1 .. m : F2[i] = F[i] /\ F[i].phase = "landed" /\ F[i].at <= b
    BY <2>1, <1>1, <1>5
  <2>5. Kept(S, S2, F, F2, X, X, b, m)
    BY <2>3, <2>4 DEF Kept
  <2> QED BY <2>5, <1>2, <1>4, WalkKept
<1>7. ~Landed(F)
  BY <1>5 DEF Landed
<1>8. (\A i \in DOMAIN S : S[i].mode # "pad") /\ Pads(S) = {} /\ PadExcs(S) = {}
  BY <1>7, NoneCatching
<1>9. Pads(S2) = {n} /\ PadExcs(S2) = {f.exc} /\ \A i \in DOMAIN S2 : S2[i].mode = "pad" => i = n
  <2>1. \A i \in DOMAIN S2 : S2[i].mode = "pad" => i = n
    BY <1>3, <1>8
  <2>2. n \in DOMAIN S2 /\ S2[n].mode = "pad" /\ S2[n].exc = f.exc
    BY <1>1, <1>3
  <2>3. Pads(S2) = {n} /\ PadExcs(S2) = {S2[n].exc}
    BY <2>1, <2>2, OnePad
  <2> QED BY <2>1, <2>2, <2>3
<1>10. Landed(F2)
  <2>1. \A i \in DOMAIN F2 : i \in 1 .. Len(F) - 1
    BY <1>5
  <2> QED BY <2>1, <1>1, <1>5 DEF Landed
<1>11. Shape(S2, F2)
  <2>1. ASSUME NEW i \in DOMAIN S2, S2[i].mode = "cleanup" PROVE \E j \in DOMAIN F2 : F2[j].phase = "landed" /\ F2[j].at = i
    <3>1. i \in DOMAIN S /\ S[i].mode = "cleanup"
      BY <2>1, <1>3
    <3>2. PICK j \in DOMAIN F : F[j].phase = "landed" /\ F[j].at = i
      BY <3>1 DEF Shape
    <3>3. j # Len(F)
      BY <3>2
    <3> QED BY <3>2, <3>3, <1>5
  <2> QED BY <2>1, <1>3, <1>9, <1>10 DEF Shape
<1>12. HandlersOf(S2) = HandlersOf(S)
  <2>1. \A i : i \in DOMAIN S /\ S[i].mode = "catch" <=> i \in DOMAIN S2 /\ S2[i].mode = "catch"
    BY <1>3
  <2>2. \A i \in DOMAIN S : S[i].mode = "catch" => S2[i].exc = S[i].exc
    BY <1>3
  <2> QED BY <2>1, <2>2, <1>2, SameHandlers
<1>13. HandlersOK(HandlersOf(S2), F2, PadExcs(S2), X, c)
  <2> PICK k : k = HandlersOf(S)
    OBVIOUS
  <2> PICK e : e = f.exc
    OBVIOUS
  <2>1. HandlersOK(k, F, {}, X, c) /\ F[Len(F)].phase # "landed" /\ F[Len(F)].exc \in DOMAIN X
    BY <1>1, <1>8
  <2>2. HandlersOK(k, F2, {e}, X, c)
    BY <2>1, FlightEnds
  <2> QED BY <2>2, <1>9, <1>12
<1>14. UpSet(F2, PadExcs(S2)) = UpSet(F, PadExcs(S))
  BY <1>5, <1>8, <1>9 DEF UpSet
<1>15. Held(S2, F2) = Held(S, F)
  BY <1>12, <1>14, SameHeld
<1>16. u = Len(F2) + 1
  BY <1>5, <1>8
<1> QED BY <1>2, <1>4, <1>6, <1>9, <1>11, <1>13, <1>15, <1>16, NoChange

\* The frame runs its cleanup.
LEMMA LandCleans ==
    ASSUME NEW S, NEW F, NEW X, NEW c, NEW u, Proc(S, F, X, c, u), F # <<>>, NEW f, f = F[Len(F)], f.phase = "cleanup",
           S[Len(S)].mode = "body", ~Takes(S[Len(S)], X[f.exc].type), NEW x \in Frames, x.mode = "cleanup", NEW S2, S2 = Topped(S, x),
           NEW F2, F2 = Topped(F, Flight(f.exc, "landed", Len(S), f.target))
    PROVE  Proc(S2, F2, X, c, u) /\ Change(Held(S, F), X, Held(S2, F2), X)
<1> USE DEF Proc
<1> PICK n \in Nat : n = Len(S)
  OBVIOUS
<1> PICK t : t = X[f.exc].type
  OBVIOUS
<1> PICK g : g = Flight(f.exc, "landed", n, f.target)
  OBVIOUS
<1>1. /\ f.exc \in DOMAIN X /\ S # <<>> /\ n \in DOMAIN S /\ f \in Flights
      /\ \A i \in 1 .. Len(F) - 1 : F[i].phase = "landed" /\ F[i].at < f.target /\ F[i].at <= n - 1
      /\ f.target < n /\ Chosen(S, n, f.target, t) /\ DOMAIN S = 1 .. n /\ f.target \in 1 .. n
  BY Landing
<1>g. g \in Flights /\ g.exc = f.exc /\ g.phase = "landed" /\ g.at = n /\ g.target = f.target
  BY <1>1 DEF Flight, Flights, Phases
<1>2. S2 \in Seq(Frames) /\ IsTopped(S, x, S2)
  BY <1>1, Topping
<1>3. Len(S2) = n /\ DOMAIN S2 = DOMAIN S /\ S2[n] = x /\ \A i \in DOMAIN S \ {n} : S2[i] = S[i]
  BY <1>2 DEF IsTopped
<1>4. F2 \in Seq(Flights) /\ IsTopped(F, g, F2)
  BY <1>g, Topping
<1>5. Len(F2) = Len(F) /\ DOMAIN F2 = DOMAIN F /\ Len(F) \in DOMAIN F /\ F2[Len(F)] = g /\ \A i \in DOMAIN F \ {Len(F)} : F2[i] = F[i]
  BY <1>4 DEF IsTopped
<1>6. Walk(S2, F2, X)
  <2>b. n - 1 \in Nat
    BY <1>1
  <2> PICK b \in Nat : b = n - 1
    BY <2>b
  <2>1. \A i \in DOMAIN S : i <= b => i # n
    OBVIOUS
  <2>2. Chosen(S2, n, f.target, t)
    <3>1. f.target # n
      BY <1>1
    <3>2. S2[f.target] = S[f.target] /\ f.target \in DOMAIN S2
      BY <3>1, <1>1, <1>3
    <3>3. \A j \in DOMAIN S2 : j < n => j \in DOMAIN S /\ S2[j] = S[j]
      BY <1>1, <1>3
    <3> QED BY <3>2, <3>3, <1>1 DEF Chosen
  <2>3. Walking(S2, g, X)
    BY <2>2, <1>1, <1>g, <1>3 DEF Walking
  <2>4. \A i \in 1 .. Len(F) - 1 : Above(g, F[i]) /\ F[i].at <= b
    BY <1>1, <1>g DEF Above
  <2>5. Turns(S, S2, F, g, X, X, b)
    BY <2>1, <2>3, <2>4, <1>3 DEF Turns
  <2>6. Lasting(UpSet(F, {}), X, X)
    BY DEF Lasting
  <2> QED BY <2>5, <2>6, <1>2, <1>4, <1>g, FlightTurns
<1>7. ~Landed(F)
  BY <1>5 DEF Landed
<1>8. (\A i \in DOMAIN S : S[i].mode # "pad") /\ Pads(S) = {} /\ PadExcs(S) = {}
  BY <1>7, NoneCatching
<1>9. (\A i \in DOMAIN S2 : S2[i].mode # "pad") /\ Pads(S2) = {} /\ PadExcs(S2) = {}
  <2>1. \A i \in DOMAIN S2 : S2[i].mode # "pad"
    BY <1>3, <1>8
  <2> QED BY <2>1, NoPads
<1>10. Shape(S2, F2)
  <2>1. ASSUME NEW i \in DOMAIN S2, S2[i].mode = "cleanup" PROVE \E j \in DOMAIN F2 : F2[j].phase = "landed" /\ F2[j].at = i
    <3>1. CASE i = n
      BY <3>1, <1>5, <1>g
    <3>2. CASE i # n
      <4>1. i \in DOMAIN S /\ S[i].mode = "cleanup"
        BY <2>1, <3>2, <1>3
      <4>2. PICK j \in DOMAIN F : F[j].phase = "landed" /\ F[j].at = i
        BY <4>1 DEF Shape
      <4>3. j # Len(F)
        BY <4>2
      <4> QED BY <4>2, <4>3, <1>5
    <3> QED BY <3>1, <3>2
  <2> QED BY <2>1, <1>9 DEF Shape
<1>11. HandlersOf(S2) = HandlersOf(S)
  <2>1. \A i : i \in DOMAIN S /\ S[i].mode = "catch" <=> i \in DOMAIN S2 /\ S2[i].mode = "catch"
    BY <1>3
  <2>2. \A i \in DOMAIN S : S[i].mode = "catch" => S2[i].exc = S[i].exc
    BY <1>3
  <2> QED BY <2>1, <2>2, <1>2, SameHandlers
<1>12. HandlersOK(HandlersOf(S2), F2, PadExcs(S2), X, c)
  <2> PICK k : k = HandlersOf(S)
    OBVIOUS
  <2>1. HandlersOK(k, F, {}, X, c) /\ F[Len(F)].phase # "landed"
    BY <1>8
  <2>2. DOMAIN k \subseteq 1 .. n - 1
    <3>1. \A i : i \in DOMAIN k <=> i \in DOMAIN S /\ S[i].mode = "catch"
      BY HandlersAt
    <3>2. \A i \in DOMAIN k : i \in 1 .. n /\ i # n
      BY <3>1, <1>1
    <3> QED BY <3>2
  <2>3. HandlersOK(k, F2, {}, X, c)
    BY <2>1, <2>2, <1>g, FlightMoves
  <2> QED BY <2>3, <1>9, <1>11
<1>13. UpSet(F2, {}) = UpSet(F, {})
  BY <1>5, <1>g DEF UpSet
<1>14. Held(S2, F2) = Held(S, F)
  <2>1. UpSet(F2, PadExcs(S2)) = UpSet(F, PadExcs(S))
    BY <1>8, <1>9, <1>13
  <2> QED BY <2>1, <1>11, SameHeld
<1>15. u = Len(F2)
  BY <1>5, <1>8
<1> QED BY <1>2, <1>4, <1>6, <1>9, <1>10, <1>12, <1>14, <1>15, NoChange

\* The walk and the shape when a frame that does not answer is left.
LEMMA PassingWalk ==
    ASSUME NEW S \in Seq(Frames), NEW F \in Seq(Flights), F # <<>>, NEW X, Walk(S, F, X), Shape(S, F), NEW f, f = F[Len(F)], f.phase = "cleanup",
           ~Takes(S[Len(S)], X[f.exc].type), NEW S2 \in Seq(Frames), IsPopped(S, S2), NEW X2, Lasting(UpSet(F, {}), X, X2)
    PROVE  Walk(S2, F, X2) /\ Shape(S2, F)
<1> PICK n \in Nat : n = Len(S)
  OBVIOUS
<1> PICK t : t = X[f.exc].type
  OBVIOUS
<1>1. /\ f.exc \in DOMAIN X /\ S # <<>> /\ n \in DOMAIN S /\ f \in Flights /\ DOMAIN S = 1 .. n
      /\ \A i \in 1 .. Len(F) - 1 : F[i].phase = "landed" /\ F[i].at <= n - 1
      /\ f.target < n /\ Chosen(S, n, f.target, t)
  BY Landing
<1>2. Len(S2) = n - 1 /\ DOMAIN S2 = DOMAIN S \ {n} /\ \A i \in DOMAIN S2 : S2[i] = S[i]
  BY DEF IsPopped
<1>3. Walk(S2, F, X2)
  <2>0. Len(F) - 1 \in Nat /\ n - 1 \in Nat
    BY <1>1
  <2> PICK m \in Nat : m = Len(F) - 1
    BY <2>0
  <2> PICK b \in Nat : b = n - 1
    BY <2>0
  <2>1. \A i \in 1 .. m : i \in 1 .. Len(F) - 1 /\ i \in DOMAIN F
    OBVIOUS
  <2>2. f.exc \in DOMAIN X2 /\ X2[f.exc].type = t
    <3>1. f.exc \in UpSet(F, {})
      BY DEF UpSet
    <3> QED BY <3>1, <1>1 DEF Lasting
  <2>3. Chosen(S2, Len(S2) + 1, f.target, t)
    <3>1. f.target \in DOMAIN S2 /\ Len(S2) + 1 = n /\ \A j \in DOMAIN S2 : j \in DOMAIN S /\ S2[j] = S[j]
      BY <1>1, <1>2 DEF Chosen
    <3> QED BY <3>1, <1>1 DEF Chosen
  <2>4. Walking(S2, f, X2)
    BY <2>2, <2>3 DEF Walking
  <2>5. \A e \in DOMAIN X : (\E i \in 1 .. m : F[i].exc = e) => e \in DOMAIN X2 /\ X2[e].type = X[e].type
    BY <2>1 DEF Lasting, UpSet
  <2>6. \A i \in 1 .. m : Above(f, F[i])
    BY <2>1, EarlierSuspended DEF Suspended
  <2>7. /\ \A i \in Nat : i <= b => (i \in DOMAIN S <=> i \in DOMAIN S2)
        /\ \A i \in DOMAIN S : i <= b => S2[i] = S[i]
    BY <1>1, <1>2
  <2>8. Kept(S, S2, F, F, X, X2, b, m)
    BY <2>1, <2>4, <2>5, <2>6, <2>7, <1>1 DEF Kept
  <2> QED BY <2>8, WalkKept
<1>4. Shape(S2, F)
  <2>1. ~Landed(F)
    BY DEF Landed
  <2>2. \A i \in DOMAIN S : S[i].mode # "pad"
    BY <2>1, NoneCatching
  <2>3. \A i \in DOMAIN S2 : i \in DOMAIN S /\ S2[i] = S[i]
    BY <1>2
  <2> QED BY <2>2, <2>3 DEF Shape
<1> QED BY <1>3, <1>4

\* Its handler is left with it, ...
LEMMA PassHandler ==
    ASSUME NEW S, NEW F, NEW X, NEW c, NEW u, Proc(S, F, X, c, u), F # <<>>, NEW f, f = F[Len(F)], f.phase = "cleanup",
           S[Len(S)].mode = "catch", ~Takes(S[Len(S)], X[f.exc].type), TypedExceptions(X), NEW X2, NEW c2, Ended(X, c, X2, c2), NEW S2, S2 = Popped(S)
    PROVE  Proc(S2, F, X2, c2, u) /\ Change(Held(S, F), X, Held(S2, F), X2)
<1> USE DEF Proc
<1>1. S # <<>> /\ Below(F, Len(S))
  BY Landing
<1>2. S2 \in Seq(Frames) /\ IsPopped(S, S2)
  BY <1>1, Popping
<1>3. Shed(S, S2)
  <2>1. \A i \in 1 .. Len(S) - 1 : i \in DOMAIN S /\ i # Len(S)
    OBVIOUS
  <2> QED BY <2>1, <1>1, <1>2 DEF Shed, IsPopped
<1>4. /\ HandlersOK(HandlersOf(S2), F, PadExcs(S2), X2, c2)
      /\ Pads(S) = {} /\ Pads(S2) = {}
      /\ Change(Held(S, F), X, Held(S2, F), X2)
      /\ Lasting(UpSet(F, {}), X, X2)
  BY <1>1, <1>2, <1>3, HandlerGone
<1>5. Walk(S2, F, X2) /\ Shape(S2, F)
  BY <1>2, <1>4, PassingWalk
<1> QED BY <1>2, <1>4, <1>5

\* ... or it has none.
LEMMA PassFrame ==
    ASSUME NEW S, NEW F, NEW X, NEW c, NEW u, Proc(S, F, X, c, u), F # <<>>, NEW f, f = F[Len(F)], f.phase = "cleanup",
           S[Len(S)].mode # "catch", ~Takes(S[Len(S)], X[f.exc].type), NEW S2, S2 = Popped(S)
    PROVE  Proc(S2, F, X, c, u) /\ Change(Held(S, F), X, Held(S2, F), X)
<1> USE DEF Proc
<1>1. S # <<>>
  BY Landing
<1>2. S2 \in Seq(Frames) /\ IsPopped(S, S2)
  BY <1>1, Popping
<1>3. Walk(S2, F, X) /\ Shape(S2, F)
  <2>1. Lasting(UpSet(F, {}), X, X)
    BY DEF Lasting
  <2> QED BY <2>1, <1>2, PassingWalk
<1>4. ~Landed(F)
  BY DEF Landed
<1>5. (\A i \in DOMAIN S : S[i].mode # "pad")
  BY <1>4, NoneCatching
<1>6. DOMAIN S2 = DOMAIN S \ {Len(S)} /\ \A i \in DOMAIN S2 : S2[i] = S[i]
  BY <1>2 DEF IsPopped
<1>7. HandlersOf(S2) = HandlersOf(S)
  <2>1. \A i : i \in DOMAIN S /\ S[i].mode = "catch" <=> i \in DOMAIN S2 /\ S2[i].mode = "catch"
    BY <1>6
  <2>2. \A i \in DOMAIN S : S[i].mode = "catch" => S2[i].exc = S[i].exc
    BY <1>6
  <2> QED BY <2>1, <2>2, <1>2, SameHandlers
<1>8. Pads(S2) = Pads(S) /\ PadExcs(S2) = PadExcs(S)
  <2>1. \A i : i \in DOMAIN S /\ S[i].mode = "pad" <=> i \in DOMAIN S2 /\ S2[i].mode = "pad"
    BY <1>5, <1>6
  <2> QED BY <2>1, <1>2, <1>5, SamePads
<1>9. Held(S2, F) = Held(S, F)
  BY <1>7, <1>8, SameHeld
<1> QED BY <1>2, <1>3, <1>7, <1>8, <1>9, NoChange

\* A cleanup ends and the last flight goes on from it.
LEMMA ResumeKeeps ==
    ASSUME NEW S, NEW F, NEW X, NEW c, NEW u, Proc(S, F, X, c, u), F # <<>>, NEW f, f = F[Len(F)], f.phase = "landed",
           S # <<>>, S[Len(S)].mode = "cleanup", NEW S2, S2 = Popped(S), NEW F2, F2 = Topped(F, Flight(f.exc, "cleanup", f.at, f.target))
    PROVE  Proc(S2, F2, X, c, u) /\ Change(Held(S, F), X, Held(S2, F2), X)
<1> USE DEF Proc
<1> PICK n \in Nat : n = Len(S)
  OBVIOUS
<1> PICK t : t = X[f.exc].type
  OBVIOUS
<1>0. n \in DOMAIN S /\ DOMAIN S = 1 .. n /\ Len(F) \in DOMAIN F /\ f \in Flights /\ Len(F) - 1 \in Nat /\ n - 1 \in Nat
  OBVIOUS
<1>1. f.exc \in DOMAIN X /\ f.at \in DOMAIN S /\ Chosen(S, f.at, f.target, t)
  <2>1. Walking(S, f, X)
    BY <1>0 DEF Walk
  <2> QED BY <2>1 DEF Walking
<1>2. f.at = n
  <2>1. PICK j \in DOMAIN F : F[j].phase = "landed" /\ F[j].at = n
    BY <1>0 DEF Shape
  <2>2. j = Len(F) \/ j \in 1 .. Len(F) - 1
    OBVIOUS
  <2>3. j \in 1 .. Len(F) - 1 => n < f.target
    BY <2>1, EarlierSuspended DEF Suspended, Above
  <2>4. f.target < f.at /\ f.target \in 1 .. n /\ f.at \in 1 .. n
    BY <1>0, <1>1 DEF Chosen
  <2> QED BY <2>1, <2>2, <2>3, <2>4
<1>3. \A i \in 1 .. Len(F) - 1 : i \in DOMAIN F /\ i # Len(F) /\ F[i].phase = "landed" /\ F[i].at < f.target /\ F[i].at <= n - 1 /\ F[i].at # n
  <2> TAKE i \in 1 .. Len(F) - 1
  <2>1. F[i].phase = "landed" /\ F[i].at \in DOMAIN S /\ Above(f, F[i])
    BY EarlierSuspended DEF Suspended
  <2>2. F[i].at < f.target /\ f.target < n /\ f.target \in 1 .. n
    BY <2>1, <1>0, <1>1, <1>2 DEF Above, Chosen
  <2> QED BY <2>1, <2>2, <1>0
<1> PICK g : g = Flight(f.exc, "cleanup", f.at, f.target)
  OBVIOUS
<1>g. g \in Flights /\ g.exc = f.exc /\ g.phase = "cleanup" /\ g.at = n /\ g.target = f.target
  BY <1>0, <1>2 DEF Flight, Flights, Phases
<1>4. S2 \in Seq(Frames) /\ IsPopped(S, S2)
  BY Popping
<1>5. Len(S2) = n - 1 /\ DOMAIN S2 = DOMAIN S \ {n} /\ \A i \in DOMAIN S2 : S2[i] = S[i]
  BY <1>4 DEF IsPopped
<1>6. F2 \in Seq(Flights) /\ IsTopped(F, g, F2)
  BY <1>g, Topping
<1>7. Len(F2) = Len(F) /\ DOMAIN F2 = DOMAIN F /\ F2[Len(F)] = g /\ \A i \in DOMAIN F \ {Len(F)} : F2[i] = F[i]
  BY <1>6 DEF IsTopped
<1>8. Walk(S2, F2, X)
  <2> PICK b \in Nat : b = n - 1
    BY <1>0
  <2>1. Chosen(S2, Len(S2) + 1, f.target, t)
    <3>1. f.target \in DOMAIN S2 /\ Len(S2) + 1 = n /\ \A j \in DOMAIN S2 : j \in DOMAIN S /\ S2[j] = S[j]
      BY <1>0, <1>1, <1>2, <1>5 DEF Chosen
    <3> QED BY <3>1, <1>1, <1>2 DEF Chosen
  <2>2. Walking(S2, g, X)
    BY <2>1, <1>1, <1>g DEF Walking
  <2>3. \A i \in 1 .. Len(F) - 1 : F[i].at <= b /\ Above(g, F[i])
    BY <1>3, <1>g DEF Above
  <2>4. /\ \A i \in Nat : i <= b => (i \in DOMAIN S <=> i \in DOMAIN S2)
        /\ \A i \in DOMAIN S : i <= b => S2[i] = S[i]
    BY <1>0, <1>5
  <2>5. Turns(S, S2, F, g, X, X, b)
    BY <2>2, <2>3, <2>4 DEF Turns
  <2>6. Lasting(UpSet(F, {}), X, X)
    BY DEF Lasting
  <2> QED BY <2>5, <2>6, <1>4, <1>6, <1>g, FlightTurns
<1>9. (\A i \in DOMAIN S : S[i].mode # "pad") /\ Pads(S) = {} /\ PadExcs(S) = {}
  <2>1. S[Len(S)].mode # "pad"
    OBVIOUS
  <2> QED BY <2>1, NoneCatching
<1>10. (\A i \in DOMAIN S2 : S2[i].mode # "pad") /\ Pads(S2) = {} /\ PadExcs(S2) = {}
  <2>1. \A i \in DOMAIN S2 : S2[i].mode # "pad"
    BY <1>5, <1>9
  <2> QED BY <2>1, NoPads
<1>11. Shape(S2, F2)
  <2>1. ASSUME NEW i \in DOMAIN S2, S2[i].mode = "cleanup" PROVE \E j \in DOMAIN F2 : F2[j].phase = "landed" /\ F2[j].at = i
    <3>1. i \in DOMAIN S /\ S[i].mode = "cleanup" /\ i # n
      BY <2>1, <1>5
    <3>2. PICK j \in DOMAIN F : F[j].phase = "landed" /\ F[j].at = i
      BY <3>1 DEF Shape
    <3>3. j # Len(F)
      BY <3>1, <3>2, <1>2
    <3> QED BY <3>2, <3>3, <1>7
  <2> QED BY <2>1, <1>10 DEF Shape
<1>12. HandlersOf(S2) = HandlersOf(S)
  <2>1. \A i : i \in DOMAIN S /\ S[i].mode = "catch" <=> i \in DOMAIN S2 /\ S2[i].mode = "catch"
    BY <1>5
  <2>2. \A i \in DOMAIN S : S[i].mode = "catch" => S2[i].exc = S[i].exc
    BY <1>5
  <2> QED BY <2>1, <2>2, <1>4, SameHandlers
<1>13. HandlersOK(HandlersOf(S2), F2, PadExcs(S2), X, c)
  <2> PICK k : k = HandlersOf(S)
    OBVIOUS
  <2>1. HandlersOK(k, F, {}, X, c) /\ F[Len(F)].phase = "landed" /\ F[Len(F)].at = n
    BY <1>2, <1>9
  <2>2. DOMAIN k \subseteq 1 .. n - 1
    <3>1. \A i : i \in DOMAIN k <=> i \in DOMAIN S /\ S[i].mode = "catch"
      BY HandlersAt
    <3>2. \A i \in DOMAIN k : i \in 1 .. n /\ i # n
      BY <3>1, <1>0
    <3> QED BY <3>2
  <2>3. HandlersOK(k, F2, {}, X, c)
    BY <2>1, <2>2, <1>g, FlightMoves
  <2> QED BY <2>3, <1>10, <1>12
<1>14. UpSet(F2, {}) = UpSet(F, {})
  BY <1>7, <1>g DEF UpSet
<1>15. Held(S2, F2) = Held(S, F)
  <2>1. UpSet(F2, PadExcs(S2)) = UpSet(F, PadExcs(S))
    BY <1>9, <1>10, <1>14
  <2> QED BY <2>1, <1>12, SameHeld
<1>16. u = Len(F2)
  BY <1>7, <1>9
<1> QED BY <1>4, <1>6, <1>8, <1>10, <1>11, <1>13, <1>15, <1>16, NoChange

LEMMA HeldExists ==
    ASSUME NEW S, NEW F, NEW X, NEW c, NEW u, Proc(S, F, X, c, u), NEW e \in Held(S, F)
    PROVE  e = 0 \/ e \in DOMAIN X
<1>1. \A i \in DOMAIN F : F[i].exc = 0 \/ F[i].exc \in DOMAIN X
  BY DEF Proc, Walk, Walking
<1>2. \A d \in PadExcs(S) : d \in DOMAIN X
  BY DEF Proc, HandlersOK, Distinct
<1>3. \A i \in DOMAIN HandlersOf(S) : HandlersOf(S)[i] \in DOMAIN X
  BY DEF Proc, HandlersOK, Linked
<1> QED BY <1>1, <1>2, <1>3 DEF Held, UpSet

\* A process whose exceptions stay as they are.
LEMMA OtherKeeps ==
    ASSUME NEW S, NEW F, NEW X, NEW c, NEW u, Proc(S, F, X, c, u), NEW X2,
           \A e \in Held(S, F) : (e \in DOMAIN X <=> e \in DOMAIN X2) /\ (e \in DOMAIN X => X2[e] = X[e])
    PROVE  Proc(S, F, X2, c, u)
<1> USE DEF Proc
<1>1. Walk(S, F, X2)
  <2>1. ASSUME NEW i \in DOMAIN F PROVE Walking(S, F[i], X2)
    <3>1. F[i].exc \in Held(S, F)
      BY DEF Held, UpSet
    <3>2. Walking(S, F[i], X)
      BY DEF Walk
    <3>3. F[i].exc \in DOMAIN X => F[i].exc \in DOMAIN X2 /\ X2[F[i].exc] = X[F[i].exc]
      BY <3>1
    <3>4. CASE F[i].exc \in DOMAIN X
      BY <3>2, <3>3, <3>4 DEF Walking
    <3>5. CASE F[i].exc \notin DOMAIN X
      BY <3>2, <3>5 DEF Walking
    <3> QED BY <3>4, <3>5
  <2> QED BY <2>1 DEF Walk
<1>2. HandlersOK(HandlersOf(S), F, PadExcs(S), X2, c)
  <2> PICK k : k = HandlersOf(S)
    OBVIOUS
  <2> PICK pad : pad = PadExcs(S)
    OBVIOUS
  <2>1. \A e : Needed(k, UpSet(F, pad), e) => (e \in DOMAIN X <=> e \in DOMAIN X2)
    BY HeldNeeded
  <2>2. \A e \in DOMAIN X : Needed(k, UpSet(F, pad), e) => X2[e].count = X[e].count /\ X2[e].next = X[e].next
    BY HeldNeeded
  <2>3. HandlersOK(k, F, pad, X, c)
    OBVIOUS
  <2> QED BY <2>1, <2>2, <2>3, OthersChange
<1> QED BY <1>1, <1>2

-----------------------------------------------------------------------------
(* All processes                                                           *)
ExcTypes ==
    /\ xStack \in [XProcs -> Seq(Frames)] /\ xFly \in [XProcs -> Seq(Flights)]
    /\ xEh \in [XProcs -> [caught : Nat, uncaught : Int]]
    /\ xThrows \in Nat /\ DOMAIN xExc \subseteq 1 .. xThrows /\ TypedExceptions(xExc)
    /\ xSkipped = FALSE /\ xJunk = FALSE
HeldBy(p) == Held(xStack[p], xFly[p])
\* Inductive: each process by itself, exceptions shared by none and held by one.
ExcInv ==
    /\ ExcTypes
    /\ \A p \in XProcs : Proc(xStack[p], xFly[p], xExc, xEh[p].caught, xEh[p].uncaught)
    /\ \A p, q \in XProcs : p # q => \A e \in HeldBy(p) : e \in HeldBy(q) => e = 0
    /\ \A e \in DOMAIN xExc : \E p \in XProcs : e \in HeldBy(p)

\* A step of p alone.
Moves(p, S2, F2, X2, c2, u2) ==
    /\ xStack'[p] = S2 /\ xFly'[p] = F2 /\ xExc' = X2 /\ xEh'[p].caught = c2 /\ xEh'[p].uncaught = u2
    /\ \A q \in XProcs \ {p} : xStack'[q] = xStack[q] /\ xFly'[q] = xFly[q] /\ xEh'[q] = xEh[q]

LEMMA StepKeeps ==
    ASSUME ExcInv, ExcTypes', NEW p \in XProcs, NEW S2, NEW F2, NEW X2, NEW c2, NEW u2, Moves(p, S2, F2, X2, c2, u2),
           Proc(S2, F2, X2, c2, u2), Change(HeldBy(p), xExc, Held(S2, F2), X2)
    PROVE  ExcInv'
<1> PICK X : X = xExc
  OBVIOUS
<1>1. /\ xStack'[p] = S2 /\ xFly'[p] = F2 /\ xExc' = X2 /\ xEh'[p].caught = c2 /\ xEh'[p].uncaught = u2
      /\ \A q \in XProcs : q # p => xStack'[q] = xStack[q] /\ xFly'[q] = xFly[q] /\ xEh'[q] = xEh[q]
  BY DEF Moves
<1>2. HeldBy(p)' = Held(S2, F2) /\ \A q \in XProcs : q # p => HeldBy(q)' = HeldBy(q)
  BY <1>1 DEF HeldBy
<1>3. \A q \in XProcs : \A e : e \in HeldBy(q) => e = 0 \/ e \in DOMAIN X
  BY HeldExists DEF ExcInv, HeldBy
<1>4. /\ \A e \in Held(S2, F2) : e \in HeldBy(p) \/ e = 0 \/ e \notin DOMAIN X
      /\ \A e \in DOMAIN X2 : e \in Held(S2, F2) \/ (e \in DOMAIN X /\ e \notin HeldBy(p))
      /\ \A e \in DOMAIN X : e \notin HeldBy(p) => e \in DOMAIN X2 /\ X2[e] = X[e]
  BY DEF Change
<1>5. 0 \notin DOMAIN X /\ 0 \notin DOMAIN X2
  BY <1>1 DEF ExcInv, ExcTypes, TypedExceptions
<1>6. \A q, r \in XProcs : q # r => \A e \in HeldBy(q) : e \in HeldBy(r) => e = 0
  BY DEF ExcInv
<1>7. ASSUME NEW q \in XProcs PROVE Proc(xStack'[q], xFly'[q], xExc', xEh'[q].caught, xEh'[q].uncaught)
  <2>1. CASE q = p
    BY <2>1, <1>1
  <2>2. CASE q # p
    <3> PICK S : S = xStack[q]
      OBVIOUS
    <3> PICK F : F = xFly[q]
      OBVIOUS
    <3> PICK c : c = xEh[q].caught
      OBVIOUS
    <3> PICK u : u = xEh[q].uncaught
      OBVIOUS
    <3>1. Proc(S, F, X, c, u) /\ Held(S, F) = HeldBy(q)
      BY DEF ExcInv, HeldBy
    <3>2. \A e \in Held(S, F) : (e \in DOMAIN X <=> e \in DOMAIN X2) /\ (e \in DOMAIN X => X2[e] = X[e])
      <4> TAKE e \in Held(S, F)
      <4>1. CASE e \in DOMAIN X
        <5>1. e \notin HeldBy(p)
          BY <4>1, <3>1, <2>2, <1>5, <1>6
        <5> QED BY <5>1, <4>1, <1>4
      <4>2. CASE e \notin DOMAIN X
        BY <4>2, <3>1, <1>3, <1>5
      <4> QED BY <4>1, <4>2
    <3>3. Proc(S, F, X2, c, u)
      BY <3>1, <3>2, OtherKeeps
    <3> QED BY <3>3, <2>2, <1>1
  <2> QED BY <2>1, <2>2
<1>8. ASSUME NEW q \in XProcs, NEW r \in XProcs, q # r, NEW e, e \in HeldBy(q)', e \in HeldBy(r)' PROVE e = 0
  <2>1. \A s \in XProcs : s # p /\ e \in Held(S2, F2) /\ e \in HeldBy(s) => e = 0
    BY <1>3, <1>4, <1>6
  <2>2. CASE q = p
    BY <2>1, <2>2, <1>2, <1>8
  <2>3. CASE r = p
    BY <2>1, <2>3, <1>2, <1>8
  <2>4. CASE q # p /\ r # p
    BY <2>4, <1>2, <1>6, <1>8
  <2> QED BY <2>2, <2>3, <2>4
<1>9. ASSUME NEW e \in DOMAIN X2 PROVE \E q \in XProcs : e \in HeldBy(q)'
  <2>1. CASE e \in Held(S2, F2)
    BY <2>1, <1>2
  <2>2. CASE e \notin Held(S2, F2)
    <3>1. e \in DOMAIN X /\ e \notin HeldBy(p)
      BY <2>2, <1>4
    <3>2. PICK q \in XProcs : e \in HeldBy(q)
      BY <3>1 DEF ExcInv
    <3> QED BY <3>1, <3>2, <1>2
  <2> QED BY <2>1, <2>2
<1> QED BY <1>1, <1>7, <1>8, <1>9 DEF ExcInv

LEMMA RunningLanded ==
    ASSUME ExcInv, NEW p \in XProcs, Running(p)
    PROVE  Landed(xFly[p])
<1> PICK F \in Seq(Flights) : F = xFly[p]
  BY DEF ExcInv, ExcTypes
<1>1. \A i \in DOMAIN F : i < Len(F) => F[i].phase = "landed"
  BY DEF ExcInv, Proc, Walk
<1>2. F # <<>> => F[Len(F)].phase = "landed"
  BY DEF Running, Flying
<1>3. \A i \in DOMAIN F : F # <<>> /\ (i < Len(F) \/ i = Len(F))
  OBVIOUS
<1> QED BY <1>1, <1>2, <1>3 DEF Landed

LEMMA EnterStep ==
    ASSUME ExcInv, NEW p \in XProcs, UNCHANGED xJunk, NEW l \in Lsdas, NEW ip \in CallIps, Enter(p, l, ip)
    PROVE  ExcInv'
<1> PICK S : S = xStack[p]
  OBVIOUS
<1> PICK F : F = xFly[p]
  OBVIOUS
<1> PICK X : X = xExc
  OBVIOUS
<1> PICK c : c = xEh[p].caught
  OBVIOUS
<1> PICK u : u = xEh[p].uncaught
  OBVIOUS
<1> PICK f : f = Body(l, ip)
  OBVIOUS
<1>1. f \in Frames /\ f.mode = "body"
  BY DEF Frames, Modes, Body
<1> PICK S2 : S2 = Append(S, f)
  OBVIOUS
<1>2. Proc(S, F, X, c, u) /\ Landed(F) /\ Idle(S)
  BY RunningLanded DEF ExcInv, Enter, Top, Idle
<1>3. Proc(S2, F, X, c, u) /\ Change(Held(S, F), X, Held(S2, F), X)
  BY ONLY <1>1, <1>2, S2 = Append(S, f), EnterKeeps
<1>4. S2 \in Seq(Frames)
  BY <1>3 DEF Proc
<1>5. /\ xStack' = [xStack EXCEPT ![p] = S2]
      /\ UNCHANGED <<xFly, xExc, xEh, xSkipped, xThrows, xJunk>>
  BY DEF Enter
<1>6. ExcTypes' /\ Moves(p, S2, F, X, c, u)
  BY <1>4, <1>5 DEF ExcInv, ExcTypes, Moves
<1>7. Change(HeldBy(p), xExc, Held(S2, F), X)
  BY <1>3 DEF HeldBy
<1> QED BY <1>3, <1>6, <1>7, StepKeeps

LEMMA LeaveStep ==
    ASSUME ExcInv, NEW p \in XProcs, UNCHANGED xJunk, Leave(p)
    PROVE  ExcInv'
<1> PICK S : S = xStack[p]
  OBVIOUS
<1> PICK F : F = xFly[p]
  OBVIOUS
<1> PICK X : X = xExc
  OBVIOUS
<1> PICK c : c = xEh[p].caught
  OBVIOUS
<1> PICK u : u = xEh[p].uncaught
  OBVIOUS
<1> PICK S2 : S2 = Popped(S)
  OBVIOUS
<1>2. Proc(S, F, X, c, u) /\ Landed(F) /\ S # <<>> /\ S[Len(S)].mode = "body"
  BY RunningLanded DEF ExcInv, Leave, Top
<1>3. Proc(S2, F, X, c, u) /\ Change(Held(S, F), X, Held(S2, F), X)
  BY <1>2, LeaveKeeps
<1>4. S2 \in Seq(Frames)
  BY <1>3 DEF Proc
<1>5. /\ xStack' = [xStack EXCEPT ![p] = S2]
      /\ UNCHANGED <<xFly, xExc, xEh, xSkipped, xThrows, xJunk>>
  BY DEF Leave, PopFrame
<1>6. ExcTypes' /\ Moves(p, S2, F, X, c, u)
  BY <1>4, <1>5 DEF ExcInv, ExcTypes, Moves
<1>7. Change(HeldBy(p), xExc, Held(S2, F), X)
  BY <1>3 DEF HeldBy
<1> QED BY <1>3, <1>6, <1>7, StepKeeps

LEMMA ThrowStep ==
    ASSUME ExcInv, NEW p \in XProcs, UNCHANGED xJunk, NEW t \in ThrowTypes, Throw(p, t)
    PROVE  ExcInv'
<1> PICK S : S = xStack[p]
  OBVIOUS
<1> PICK F : F = xFly[p]
  OBVIOUS
<1> PICK X : X = xExc
  OBVIOUS
<1> PICK c : c = xEh[p].caught
  OBVIOUS
<1> PICK u : u = xEh[p].uncaught
  OBVIOUS
<1> PICK e : e = xThrows + 1
  OBVIOUS
<1> PICK X2 : X2 = [i \in DOMAIN X \cup {e} |-> IF i = e THEN NewExc(t) ELSE X[i]]
  OBVIOUS
<1> PICK F2 : F2 = Append(F, Flight(e, "search", Len(S), 0))
  OBVIOUS
<1>t. xThrows \in Nat /\ DOMAIN X \subseteq 1 .. xThrows /\ TypedExceptions(X)
  BY DEF ExcInv, ExcTypes
<1>e. e \in Nat \ {0} /\ e \notin DOMAIN X /\ xThrows' = e
  BY <1>t DEF Throw
<1>1. DOMAIN X2 = DOMAIN X \cup {e} /\ X2[e] = NewExc(t) /\ \A d \in DOMAIN X : X2[d] = X[d]
  BY <1>e
<1>n. NewExc(t) \in ExcObjects /\ NewExc(t).count = 0
  BY DEF NewExc, ExcObjects
<1>2. Proc(S, F, X, c, u) /\ Landed(F) /\ S # <<>> /\ S[Len(S)].mode # "pad"
  BY RunningLanded DEF ExcInv, Throw, Top
<1>3. Proc(S, F2, X2, c, u + 1) /\ Change(Held(S, F), X, Held(S, F2), X2)
  <2>1. Thrown(X, e, X2)
    BY <1>1, <1>n DEF Thrown
  <2> QED BY ONLY <2>1, <1>2, <1>e, F2 = Append(F, Flight(e, "search", Len(S), 0)), ThrowKeeps
<1>4. F2 \in Seq(Flights)
  BY <1>3 DEF Proc
<1>5. /\ xFly' = [xFly EXCEPT ![p] = F2]
      /\ xExc' = X2
      /\ xEh' = [xEh EXCEPT ![p].uncaught = @ + 1]
      /\ UNCHANGED <<xStack, xSkipped, xJunk>>
  BY Zenon DEF Throw, Globals
<1>6. TypedExceptions(X2) /\ DOMAIN X2 \subseteq 1 .. e
  BY <1>1, <1>t, <1>e, <1>n DEF TypedExceptions
<1>7. xEh' \in [XProcs -> [caught : Nat, uncaught : Int]] /\ xEh'[p].caught = c /\ xEh'[p].uncaught = u + 1
      /\ \A q \in XProcs : q # p => xEh'[q] = xEh[q]
  BY <1>5 DEF ExcInv, ExcTypes
<1>8. ExcTypes'
  BY <1>4, <1>5, <1>6, <1>7, <1>e DEF ExcInv, ExcTypes
<1>9. Moves(p, S, F2, X2, c, u + 1)
  BY <1>5, <1>7 DEF ExcInv, ExcTypes, Moves
<1>10. Change(HeldBy(p), xExc, Held(S, F2), X2)
  BY <1>3 DEF HeldBy
<1> QED BY <1>3, <1>8, <1>9, <1>10, StepKeeps

\* Writing the count of one exception.
Recount(X, c, n, X2) ==
    /\ TypedExceptions(X2) /\ DOMAIN X2 = DOMAIN X /\ \A d \in DOMAIN X \ {c} : X2[d] = X[d]
    /\ X2[c].count = n /\ X2[c].next = X[c].next /\ X2[c].type = X[c].type
LEMMA Recounted ==
    ASSUME NEW X, TypedExceptions(X), NEW c, c \in DOMAIN X, NEW n, n \in Int, NEW X2, X2 = [X EXCEPT ![c].count = n]
    PROVE  Recount(X, c, n, X2)
<1> PICK x \in ExcObjects : x = X[c]
  BY DEF TypedExceptions
<1>1. DOMAIN X2 = DOMAIN X /\ X2[c] = [x EXCEPT !.count = n] /\ \A d \in DOMAIN X \ {c} : X2[d] = X[d]
  OBVIOUS
<1>2. [x EXCEPT !.count = n] \in ExcObjects
  BY DEF ExcObjects
<1>3. [x EXCEPT !.count = n].count = n /\ [x EXCEPT !.count = n].next = x.next /\ [x EXCEPT !.count = n].type = x.type
  BY DEF ExcObjects
<1> QED BY <1>1, <1>2, <1>3 DEF TypedExceptions, Recount

LEMMA RethrowStep ==
    ASSUME ExcInv, NEW p \in XProcs, UNCHANGED xJunk, Rethrow(p)
    PROVE  ExcInv'
<1> PICK S : S = xStack[p]
  OBVIOUS
<1> PICK F : F = xFly[p]
  OBVIOUS
<1> PICK X : X = xExc
  OBVIOUS
<1> PICK c : c = xEh[p].caught
  OBVIOUS
<1> PICK u : u = xEh[p].uncaught
  OBVIOUS
<1> PICK phase : phase = IF c = 0 THEN "terminate" ELSE "search"
  OBVIOUS
<1> PICK F2 : F2 = Append(F, Flight(c, phase, Len(S), 0))
  OBVIOUS
<1> PICK X2 : X2 = xExc'
  OBVIOUS
<1>t. xThrows \in Nat /\ DOMAIN X \subseteq 1 .. xThrows /\ TypedExceptions(X)
  BY DEF ExcInv, ExcTypes
<1>2. Proc(S, F, X, c, u) /\ Landed(F) /\ S # <<>> /\ S[Len(S)].mode # "pad"
  BY RunningLanded DEF ExcInv, Rethrow, Top
<1>5. /\ xFly' = [xFly EXCEPT ![p] = F2]
      /\ X2 = IF c = 0 THEN X ELSE [X EXCEPT ![c].count = -@]
      /\ xEh' = [xEh EXCEPT ![p].uncaught = @ + 1]
      /\ xThrows' = xThrows + 1
      /\ UNCHANGED <<xStack, xSkipped, xJunk>>
      /\ \A i \in DOMAIN F : F[i].exc # c
  BY Zenon DEF Rethrow, Globals
<1>c. c # 0 => c \in DOMAIN X
  BY <1>2, LatestIn DEF Proc, HandlersOK
<1>6. TypedExceptions(X2) /\ DOMAIN X2 = DOMAIN X /\ Rethrown(X, c, X2)
  <2>1. CASE c = 0
    BY <2>1, <1>5, <1>t DEF Rethrown
  <2>2. CASE c # 0
    <3>1. X[c].count \in Int
      BY <2>2, <1>c, <1>t DEF TypedExceptions, ExcObjects
    <3> PICK n \in Int : n = -X[c].count
      BY <3>1
    <3>2. X2 = [X EXCEPT ![c].count = n] /\ c \in DOMAIN X
      BY <2>2, <1>5, <1>c
    <3>3. Recount(X, c, n, X2)
      BY ONLY <3>2, <1>t, n \in Int, Recounted
    <3> QED BY <3>3 DEF Rethrown, Recount
  <2> QED BY <2>1, <2>2
<1>3. Proc(S, F2, X2, c, u + 1) /\ Change(Held(S, F), X, Held(S, F2), X2)
  BY <1>2, <1>t, <1>5, <1>6, RethrowKeeps
<1>4. F2 \in Seq(Flights)
  BY <1>3 DEF Proc
<1>7. xEh' \in [XProcs -> [caught : Nat, uncaught : Int]] /\ xEh'[p].caught = c /\ xEh'[p].uncaught = u + 1
      /\ \A q \in XProcs : q # p => xEh'[q] = xEh[q]
  BY <1>5 DEF ExcInv, ExcTypes
<1>8. ExcTypes'
  BY <1>4, <1>5, <1>6, <1>7, <1>t DEF ExcInv, ExcTypes
<1>9. Moves(p, S, F2, X2, c, u + 1)
  BY <1>5, <1>7 DEF ExcInv, ExcTypes, Moves
<1>10. Change(HeldBy(p), xExc, Held(S, F2), X2)
  BY <1>3 DEF HeldBy
<1> QED BY <1>3, <1>8, <1>9, <1>10, StepKeeps

LEMMA CatchExists ==
    ASSUME NEW S, NEW F, NEW X, NEW c, NEW u, Proc(S, F, X, c, u), S # <<>>, S[Len(S)].mode = "catch"
    PROVE  c \in DOMAIN X
<1>1. Len(S) \in DOMAIN HandlersOf(S)
  BY HandlersAt DEF Proc
<1>2. Latest(HandlersOf(S), c) /\ Linked(HandlersOf(S), X)
  BY DEF Proc, HandlersOK
<1> QED BY <1>1, <1>2 DEF Latest, Linked

LEMMA PadExists ==
    ASSUME NEW S, NEW F, NEW X, NEW c, NEW u, Proc(S, F, X, c, u), S # <<>>, S[Len(S)].mode = "pad"
    PROVE  S[Len(S)].exc \in DOMAIN X
<1>1. Len(S) \in Pads(S)
  BY DEF Proc, Pads
<1>2. S[Len(S)].exc \in PadExcs(S)
  BY <1>1 DEF PadExcs
<1> QED BY <1>2 DEF Proc, HandlersOK, Distinct

\* __cxa_end_catch on its exception and the globals.
EndsAt(p, c, X2, c2) ==
    /\ TypedExceptions(X2) /\ DOMAIN X2 \subseteq DOMAIN xExc /\ Ended(xExc, c, X2, c2)
    /\ xEh' \in [XProcs -> [caught : Nat, uncaught : Int]]
    /\ xEh'[p].caught = c2 /\ xEh'[p].uncaught = xEh[p].uncaught
    /\ \A q \in XProcs : q # p => xEh'[q] = xEh[q]
LEMMA EndEffectEnds ==
    ASSUME ExcTypes, NEW p \in XProcs, EndEffect(p), NEW c \in DOMAIN xExc, c = xEh[p].caught, NEW X2, X2 = xExc', NEW c2, c2 = xEh'[p].caught
    PROVE  EndsAt(p, c, X2, c2)
<1> PICK X : X = xExc
  OBVIOUS
<1>t. TypedExceptions(X) /\ c \in DOMAIN X /\ X[c] \in ExcObjects /\ xEh \in [XProcs -> [caught : Nat, uncaught : Int]]
  BY DEF ExcTypes, TypedExceptions
<1>i. X[c].count \in Int /\ X[c].next \in Nat
  BY <1>t DEF ExcObjects
<1> PICK m \in Int : m = X[c].count
  BY <1>i
<1>l. (IF m < 0 THEN m + 1 ELSE m - 1) \in Int
  OBVIOUS
<1> PICK left \in Int : left = IF m < 0 THEN m + 1 ELSE m - 1
  BY <1>l
<1>1. /\ xEh' = IF left = 0 THEN [xEh EXCEPT ![p].caught = X[c].next] ELSE xEh
      /\ X2 = IF left = 0 /\ m > 0
              THEN [i \in DOMAIN X \ {c} |-> X[i]]
              ELSE [X EXCEPT ![c].count = left]
  BY Zenon DEF EndEffect, Globals
<1>2. /\ xEh' \in [XProcs -> [caught : Nat, uncaught : Int]]
      /\ xEh'[p].caught = (IF left = 0 THEN X[c].next ELSE c) /\ xEh'[p].uncaught = xEh[p].uncaught
      /\ \A q \in XProcs : q # p => xEh'[q] = xEh[q]
  <2>1. CASE left = 0
    BY <2>1, <1>1, <1>t, <1>i
  <2>2. CASE left # 0
    BY <2>2, <1>1, <1>t, <1>i
  <2> QED BY <2>1, <2>2
<1>3. CASE left = 0 /\ m > 0
  <2>1. DOMAIN X2 = DOMAIN X \ {c} /\ \A d \in DOMAIN X \ {c} : X2[d] = X[d]
    BY <1>1, <1>3
  <2>2. TypedExceptions(X2)
    BY <2>1, <1>t DEF TypedExceptions
  <2>3. Ended(X, c, X2, c2)
    BY <2>1, <1>2, <1>3 DEF Ended
  <2> QED BY <2>1, <2>2, <2>3, <1>2 DEF EndsAt
<1>4. CASE ~(left = 0 /\ m > 0)
  <2>1. X2 = [X EXCEPT ![c].count = left]
    BY <1>1, <1>4
  <2>2. Recount(X, c, left, X2)
    BY ONLY <2>1, <1>t, left \in Int, Recounted
  <2>3. Ended(X, c, X2, c2)
    BY <2>2, <1>2, <1>4 DEF Ended, Recount
  <2> QED BY <2>2, <2>3, <1>2 DEF EndsAt, Recount
<1> QED BY <1>3, <1>4

LEMMA EndCatchStep ==
    ASSUME ExcInv, NEW p \in XProcs, UNCHANGED xJunk, NEW ip \in CallIps, EndCatch(p, ip)
    PROVE  ExcInv'
<1> PICK S : S = xStack[p]
  OBVIOUS
<1> PICK F : F = xFly[p]
  OBVIOUS
<1> PICK X : X = xExc
  OBVIOUS
<1> PICK c : c = xEh[p].caught
  OBVIOUS
<1> PICK u : u = xEh[p].uncaught
  OBVIOUS
<1> PICK X2 : X2 = xExc'
  OBVIOUS
<1> PICK c2 : c2 = xEh'[p].caught
  OBVIOUS
<1> PICK f : f = Body(S[Len(S)].lsda, ip)
  OBVIOUS
<1> PICK S2 : S2 = Topped(S, f)
  OBVIOUS
<1>2. Proc(S, F, X, c, u) /\ Landed(F) /\ S # <<>> /\ S[Len(S)].mode = "catch" /\ S \in Seq(Frames)
  BY RunningLanded DEF ExcInv, EndCatch, Top, Proc
<1>1. f \in Frames /\ f.mode = "body"
  <2>1. S[Len(S)] \in Frames
    BY <1>2
  <2>2. S[Len(S)].lsda \in Lsdas
    BY <2>1 DEF Frames
  <2> QED BY <2>2 DEF Frames, Modes, Body
<1>c. c \in DOMAIN X
  BY <1>2, CatchExists
<1>e. EndsAt(p, c, X2, c2)
  BY <1>c, EndEffectEnds DEF EndCatch, ExcInv
<1>t. TypedExceptions(X) /\ Ended(X, c, X2, c2)
  BY <1>e DEF ExcInv, ExcTypes, EndsAt
<1>3. Proc(S2, F, X2, c2, u) /\ Change(Held(S, F), X, Held(S2, F), X2)
  BY ONLY <1>1, <1>2, <1>t, S2 = Topped(S, f), EndCatchKeeps
<1>4. S2 \in Seq(Frames)
  BY <1>3 DEF Proc
<1>5. /\ xStack' = [xStack EXCEPT ![p] = S2]
      /\ UNCHANGED <<xFly, xSkipped, xThrows, xJunk>>
  BY DEF EndCatch, Top
<1>6. ExcTypes' /\ Moves(p, S2, F, X2, c2, u)
  BY <1>4, <1>5, <1>e DEF ExcInv, ExcTypes, Moves, EndsAt
<1>7. Change(HeldBy(p), xExc, Held(S2, F), X2)
  BY <1>3 DEF HeldBy
<1> QED BY <1>3, <1>6, <1>7, StepKeeps

LEMMA BeginCatchStep ==
    ASSUME ExcInv, NEW p \in XProcs, UNCHANGED xJunk, BeginCatch(p)
    PROVE  ExcInv'
<1> PICK S : S = xStack[p]
  OBVIOUS
<1> PICK F : F = xFly[p]
  OBVIOUS
<1> PICK X : X = xExc
  OBVIOUS
<1> PICK c : c = xEh[p].caught
  OBVIOUS
<1> PICK u : u = xEh[p].uncaught
  OBVIOUS
<1> PICK X2 : X2 = xExc'
  OBVIOUS
<1> PICK e : e = S[Len(S)].exc
  OBVIOUS
<1> PICK f : f = Turned(S[Len(S)], "catch", e)
  OBVIOUS
<1> PICK S2 : S2 = Topped(S, f)
  OBVIOUS
<1>t. TypedExceptions(X) /\ DOMAIN X \subseteq Nat /\ c \in Nat /\ u \in Int
  BY DEF ExcInv, ExcTypes, TypedExceptions
<1>2. Proc(S, F, X, c, u) /\ S # <<>> /\ S[Len(S)].mode = "pad" /\ S \in Seq(Frames)
  BY DEF ExcInv, BeginCatch, Top, Proc
<1>e. e \in DOMAIN X /\ e \in Nat
  BY <1>2, <1>t, PadExists
<1>1. f \in Frames /\ f.mode = "catch" /\ f.exc = e
  <2>1. S[Len(S)] \in Frames
    BY <1>2
  <2>2. S[Len(S)].lsda \in Lsdas /\ S[Len(S)].ip \in CallIps
    BY <2>1 DEF Frames
  <2> QED BY <2>2, <1>e DEF Frames, Modes, Turned
<1> PICK x \in ExcObjects : x = X[e]
  BY <1>e, <1>t DEF TypedExceptions
<1> PICK y : y = [type |-> x.type, count |-> BeginCount(x.count), adjusted |-> x.adjusted,
                  next |-> IF c # e THEN c ELSE x.next]
  OBVIOUS
<1>y. y \in ExcObjects /\ y.type = x.type /\ y.count = BeginCount(x.count) /\ y.next = IF c # e THEN c ELSE x.next
  <2>1. x.type \in ThrowTypes /\ BeginCount(x.count) \in Int /\ x.next \in Nat /\ x.adjusted \in {"unset", "object"}
    BY DEF ExcObjects, BeginCount
  <2>2. (IF c # e THEN c ELSE x.next) \in Nat
    BY <2>1, <1>t
  <2> QED BY <2>1, <2>2 DEF ExcObjects
<1>5. /\ X2 = [X EXCEPT ![e] = y]
      /\ xEh' = [xEh EXCEPT ![p] = [caught |-> e, uncaught |-> @.uncaught - 1]]
      /\ xStack' = [xStack EXCEPT ![p] = S2]
      /\ UNCHANGED <<xFly, xSkipped, xThrows, xJunk>>
  BY Zenon DEF BeginCatch, Globals, Top
<1>6. DOMAIN X2 = DOMAIN X /\ X2[e] = y /\ \A d \in DOMAIN X \ {e} : X2[d] = X[d]
  BY <1>5, <1>e
<1>7. Begun(X, c, e, X2) /\ TypedExceptions(X2)
  BY <1>6, <1>y, <1>t DEF Begun, TypedExceptions
<1>3. Proc(S2, F, X2, e, u - 1) /\ Change(Held(S, F), X, Held(S2, F), X2)
  BY ONLY <1>1, <1>2, <1>t, <1>7, e = S[Len(S)].exc, S2 = Topped(S, f), BeginCatchKeeps
<1>4. S2 \in Seq(Frames)
  BY <1>3 DEF Proc
<1>8. /\ xEh' \in [XProcs -> [caught : Nat, uncaught : Int]] /\ xEh'[p].caught = e /\ xEh'[p].uncaught = u - 1
      /\ \A q \in XProcs : q # p => xEh'[q] = xEh[q]
  BY <1>5, <1>e, <1>t DEF ExcInv, ExcTypes
<1>9. ExcTypes'
  BY <1>4, <1>5, <1>6, <1>7, <1>8 DEF ExcInv, ExcTypes
<1>10. Moves(p, S2, F, X2, e, u - 1)
  BY <1>5, <1>8 DEF ExcInv, ExcTypes, Moves
<1>11. Change(HeldBy(p), xExc, Held(S2, F), X2)
  BY <1>3 DEF HeldBy
<1> QED BY <1>3, <1>9, <1>10, <1>11, StepKeeps

LEMMA ResumeStep ==
    ASSUME ExcInv, NEW p \in XProcs, UNCHANGED xJunk, Resume(p), xStack[p] # <<>>
    PROVE  ExcInv'
<1> PICK S : S = xStack[p]
  OBVIOUS
<1> PICK F : F = xFly[p]
  OBVIOUS
<1> PICK X : X = xExc
  OBVIOUS
<1> PICK c : c = xEh[p].caught
  OBVIOUS
<1> PICK u : u = xEh[p].uncaught
  OBVIOUS
<1> PICK f : f = F[Len(F)]
  OBVIOUS
<1> PICK S2 : S2 = Popped(S)
  OBVIOUS
<1> PICK F2 : F2 = Topped(F, Flight(f.exc, "cleanup", f.at, f.target))
  OBVIOUS
<1>2. Proc(S, F, X, c, u) /\ F # <<>> /\ f.phase = "landed" /\ S # <<>> /\ S[Len(S)].mode = "cleanup"
  BY DEF ExcInv, Resume, Flying, Top
<1>3. Proc(S2, F2, X, c, u) /\ Change(Held(S, F), X, Held(S2, F2), X)
  BY ONLY <1>2, f = F[Len(F)], S2 = Popped(S), F2 = Topped(F, Flight(f.exc, "cleanup", f.at, f.target)), ResumeKeeps
<1>4. S2 \in Seq(Frames) /\ F2 \in Seq(Flights)
  BY <1>3 DEF Proc
<1>5. /\ xStack' = [xStack EXCEPT ![p] = S2] /\ xFly' = [xFly EXCEPT ![p] = F2]
      /\ UNCHANGED <<xExc, xEh, xSkipped, xThrows, xJunk>>
  BY Zenon DEF Resume, PopFrame, SetFly, Flying
<1>6. ExcTypes' /\ Moves(p, S2, F2, X, c, u)
  BY <1>4, <1>5 DEF ExcInv, ExcTypes, Moves
<1>7. Change(HeldBy(p), xExc, Held(S2, F2), X)
  BY <1>3 DEF HeldBy
<1> QED BY <1>3, <1>6, <1>7, StepKeeps

\* What is known of a flight that has not ended.
LEMMA FlightFacts ==
    ASSUME NEW S, NEW F, NEW X, NEW c, NEW u, Proc(S, F, X, c, u), F # <<>>, NEW f, f = F[Len(F)], TypedExceptions(X)
    PROVE  /\ S \in Seq(Frames) /\ F \in Seq(Flights) /\ f \in Flights
           /\ f.phase # "terminate" => f.exc \in DOMAIN X /\ X[f.exc] \in ExcObjects
           /\ f.phase = "search" => f.at \in 0 .. Len(S)
           /\ f.phase = "landed" => S # <<>>
<1>1. Len(F) \in DOMAIN F /\ f \in Flights /\ Walking(S, f, X)
  BY DEF Proc, Walk
<1>2. f.at \in Nat
  BY <1>1 DEF Flights
<1> QED BY <1>1, <1>2 DEF Proc, Walking, TypedExceptions

LEMMA SearchStep ==
    ASSUME XCareful = TRUE, ExcInv, NEW p \in XProcs, UNCHANGED xJunk, Search(p)
    PROVE  ExcInv'
<1> PICK S : S = xStack[p]
  OBVIOUS
<1> PICK F : F = xFly[p]
  OBVIOUS
<1> PICK X : X = xExc
  OBVIOUS
<1> PICK c : c = xEh[p].caught
  OBVIOUS
<1> PICK u : u = xEh[p].uncaught
  OBVIOUS
<1> PICK X2 : X2 = xExc'
  OBVIOUS
<1> PICK f : f = F[Len(F)]
  OBVIOUS
<1> PICK t : t = X[f.exc].type
  OBVIOUS
<1>t. TypedExceptions(X) /\ ~xJunk
  BY DEF ExcInv, ExcTypes
<1>2. Proc(S, F, X, c, u) /\ F # <<>> /\ f.phase = "search"
  BY DEF ExcInv, Search, Flying
<1>f. S \in Seq(Frames) /\ F \in Seq(Flights) /\ f \in Flights /\ f.exc \in DOMAIN X /\ X[f.exc] \in ExcObjects /\ f.at \in 0 .. Len(S)
  BY <1>2, <1>t, FlightFacts
<1>a. t \in ThrowTypes
  BY <1>f DEF ExcObjects
<1> PICK x \in ExcObjects : x = X[f.exc]
  BY <1>f
<1>5. /\ UNCHANGED <<xStack, xEh, xSkipped, xThrows, xJunk>>
      /\ IF f.at = 0 \/ S[f.at].mode = "cleanup"
         THEN xFly' = [xFly EXCEPT ![p] = Topped(F, Flight(f.exc, "terminate", f.at, 0))] /\ X2 = X
         ELSE IF Answers(S[f.at], t, "search") = "handler"
         THEN /\ xFly' = [xFly EXCEPT ![p] = Topped(F, Flight(f.exc, "cleanup", f.at, f.at))]
              /\ X2 = [X EXCEPT ![f.exc].adjusted = AdjustedPtr(t)]
         ELSE xFly' = [xFly EXCEPT ![p] = Topped(F, Flight(f.exc, "search", f.at - 1, 0))] /\ X2 = X
  BY Zenon DEF Search, SetFly, Flying
<1>6. \E g : xFly' = [xFly EXCEPT ![p] = Topped(F, g)] /\ Searched(S, f, X, g) /\ OnlyMarked(f.exc, X, X2) /\ TypedExceptions(X2)
  <2>s. OnlyMarked(f.exc, X, X) /\ TypedExceptions(X)
    BY <1>t DEF OnlyMarked
  <2>1. CASE f.at = 0 \/ S[f.at].mode = "cleanup"
    BY <2>1, <2>s, <1>5 DEF Searched
  <2>2. CASE ~(f.at = 0 \/ S[f.at].mode = "cleanup")
    <3>1. S[f.at] \in Frames
      BY <2>2, <1>f
    <3>2. /\ Takes(S[f.at], t) => Answers(S[f.at], t, "search") = "handler"
          /\ ~Takes(S[f.at], t) => Answers(S[f.at], t, "search") = "continue"
      BY <3>1, <1>a, <1>t, Answering
    <3>3. CASE Takes(S[f.at], t)
      <4> PICK g : g = Flight(f.exc, "cleanup", f.at, f.at)
        OBVIOUS
      <4>1. xFly' = [xFly EXCEPT ![p] = Topped(F, g)] /\ X2 = [X EXCEPT ![f.exc].adjusted = AdjustedPtr(t)]
        BY <2>2, <3>2, <3>3, <1>5
      <4>2. DOMAIN X2 = DOMAIN X /\ X2[f.exc] = [x EXCEPT !.adjusted = "object"] /\ \A d \in DOMAIN X \ {f.exc} : X2[d] = X[d]
        BY <4>1, <1>f DEF AdjustedPtr
      <4> PICK y : y = [x EXCEPT !.adjusted = "object"]
        OBVIOUS
      <4>3. y \in ExcObjects /\ y.type = x.type /\ y.count = x.count /\ y.next = x.next
        BY DEF ExcObjects
      <4>4. OnlyMarked(f.exc, X, X2) /\ TypedExceptions(X2)
        BY <4>2, <4>3, <1>t DEF OnlyMarked, TypedExceptions
      <4>5. Searched(S, f, X, g)
        BY <2>2, <3>3 DEF Searched
      <4> QED BY <4>1, <4>4, <4>5
    <3>4. CASE ~Takes(S[f.at], t)
      <4> PICK g : g = Flight(f.exc, "search", f.at - 1, 0)
        OBVIOUS
      <4>1. xFly' = [xFly EXCEPT ![p] = Topped(F, g)] /\ X2 = X
        BY <2>2, <3>2, <3>4, <1>5
      <4>2. Searched(S, f, X, g)
        BY <2>2, <3>4 DEF Searched
      <4> QED BY <4>1, <4>2, <2>s
    <3> QED BY <3>3, <3>4
  <2> QED BY <2>1, <2>2
<1> PICK g : xFly' = [xFly EXCEPT ![p] = Topped(F, g)] /\ Searched(S, f, X, g) /\ OnlyMarked(f.exc, X, X2) /\ TypedExceptions(X2)
  BY <1>6
<1> PICK F2 : F2 = Topped(F, g)
  OBVIOUS
<1>3. Proc(S, F2, X2, c, u) /\ Change(Held(S, F), X, Held(S, F2), X2)
  BY ONLY <1>2, f = F[Len(F)], Searched(S, f, X, g), OnlyMarked(f.exc, X, X2), F2 = Topped(F, g), SearchKeeps
<1>4. F2 \in Seq(Flights) /\ DOMAIN X2 = DOMAIN X
  BY <1>3 DEF Proc, OnlyMarked
<1>7. ExcTypes' /\ Moves(p, S, F2, X2, c, u)
  BY <1>4, <1>5 DEF ExcInv, ExcTypes, Moves
<1>8. Change(HeldBy(p), xExc, Held(S, F2), X2)
  BY <1>3 DEF HeldBy
<1> QED BY <1>3, <1>7, <1>8, StepKeeps

LEMMA LandStep ==
    ASSUME XCareful = TRUE, ExcInv, NEW p \in XProcs, UNCHANGED xJunk, Land(p)
    PROVE  ExcInv'
<1> PICK S : S = xStack[p]
  OBVIOUS
<1> PICK F : F = xFly[p]
  OBVIOUS
<1> PICK X : X = xExc
  OBVIOUS
<1> PICK c : c = xEh[p].caught
  OBVIOUS
<1> PICK u : u = xEh[p].uncaught
  OBVIOUS
<1> PICK X2 : X2 = xExc'
  OBVIOUS
<1> PICK f : f = F[Len(F)]
  OBVIOUS
<1> PICK t : t = X[f.exc].type
  OBVIOUS
<1> PICK r : r = S[Len(S)]
  OBVIOUS
<1>t. TypedExceptions(X) /\ ~xJunk
  BY DEF ExcInv, ExcTypes
<1>2. Proc(S, F, X, c, u) /\ F # <<>> /\ f.phase = "cleanup"
  BY DEF ExcInv, Land, Flying
<1>f. S \in Seq(Frames) /\ F \in Seq(Flights) /\ f \in Flights /\ f.exc \in DOMAIN X /\ X[f.exc] \in ExcObjects /\ f.exc \in Nat
  <2>1. S \in Seq(Frames) /\ F \in Seq(Flights) /\ f \in Flights /\ f.exc \in DOMAIN X /\ X[f.exc] \in ExcObjects
    BY <1>2, <1>t, FlightFacts
  <2> QED BY <2>1 DEF Flights
<1>a. t \in ThrowTypes
  BY <1>f DEF ExcObjects
<1>s. S # <<>> /\ r \in Frames
  <2>1. S # <<>>
    BY <1>2, Landing DEF Proc
  <2> QED BY <2>1, <1>f
<1>r. r.lsda \in Lsdas /\ r.ip \in CallIps
  BY <1>s DEF Frames
<1>b. /\ Answers(r, t, "cleanup") # "handler" => ~Takes(r, t)
      /\ Answers(r, t, "cleanup") # "continue" => r.mode = "body"
      /\ Answers(r, t, "cleanup") = "continue" => ~HasCleanup(r)
  BY <1>s, <1>a, <1>t, Answering
<1>5. UNCHANGED <<xThrows, xJunk>>
  BY DEF Land
<1>6. \/ /\ Answers(r, t, "cleanup") = "handler"
         /\ xStack' = [xStack EXCEPT ![p] = Topped(S, Turned(r, "pad", f.exc))]
         /\ xFly' = [xFly EXCEPT ![p] = Popped(F)]
         /\ UNCHANGED <<xEh, xExc, xSkipped>>
      \/ /\ Answers(r, t, "cleanup") = "cleanup"
         /\ xStack' = [xStack EXCEPT ![p] = Topped(S, Turned(r, "cleanup", f.exc))]
         /\ xFly' = [xFly EXCEPT ![p] = Topped(F, Flight(f.exc, "landed", Len(S), f.target))]
         /\ UNCHANGED <<xEh, xExc, xSkipped>>
      \/ /\ Answers(r, t, "cleanup") = "continue" /\ r.mode = "catch"
         /\ EndEffect(p)
         /\ xStack' = [xStack EXCEPT ![p] = Popped(S)]
         /\ UNCHANGED <<xFly, xSkipped>>
      \/ /\ Answers(r, t, "cleanup") = "continue" /\ r.mode # "catch"
         /\ xStack' = [xStack EXCEPT ![p] = Popped(S)]
         /\ xSkipped' = (xSkipped \/ HasCleanup(r))
         /\ UNCHANGED <<xFly, xEh, xExc>>
  BY Zenon DEF Land, SetTop, SetFly, PopFrame, Flying, Top
<1>7. CASE /\ Answers(r, t, "cleanup") = "handler"
           /\ xStack' = [xStack EXCEPT ![p] = Topped(S, Turned(r, "pad", f.exc))]
           /\ xFly' = [xFly EXCEPT ![p] = Popped(F)]
           /\ UNCHANGED <<xEh, xExc, xSkipped>>
  <2> PICK x : x = Turned(r, "pad", f.exc)
    OBVIOUS
  <2> PICK S2 : S2 = Topped(S, x)
    OBVIOUS
  <2> PICK F2 : F2 = Popped(F)
    OBVIOUS
  <2>1. x \in Frames /\ x.mode = "pad" /\ x.exc = f.exc
    BY <1>r, <1>f DEF Frames, Modes, Turned
  <2>2. S[Len(S)].mode = "body"
    BY <1>7, <1>b
  <2>3. Proc(S2, F2, X, c, u) /\ Change(Held(S, F), X, Held(S2, F2), X)
    BY ONLY <1>2, <2>1, <2>2, f = F[Len(F)], S2 = Topped(S, x), F2 = Popped(F), LandTakes
  <2>4. S2 \in Seq(Frames) /\ F2 \in Seq(Flights)
    BY <2>3 DEF Proc
  <2>5. ExcTypes' /\ Moves(p, S2, F2, X, c, u)
    BY <2>4, <1>5, <1>7 DEF ExcInv, ExcTypes, Moves
  <2>6. Change(HeldBy(p), xExc, Held(S2, F2), X)
    BY <2>3 DEF HeldBy
  <2> QED BY <2>3, <2>5, <2>6, StepKeeps
<1>8. CASE /\ Answers(r, t, "cleanup") = "cleanup"
           /\ xStack' = [xStack EXCEPT ![p] = Topped(S, Turned(r, "cleanup", f.exc))]
           /\ xFly' = [xFly EXCEPT ![p] = Topped(F, Flight(f.exc, "landed", Len(S), f.target))]
           /\ UNCHANGED <<xEh, xExc, xSkipped>>
  <2> PICK x : x = Turned(r, "cleanup", f.exc)
    OBVIOUS
  <2> PICK S2 : S2 = Topped(S, x)
    OBVIOUS
  <2> PICK F2 : F2 = Topped(F, Flight(f.exc, "landed", Len(S), f.target))
    OBVIOUS
  <2>1. x \in Frames /\ x.mode = "cleanup"
    BY <1>r, <1>f DEF Frames, Modes, Turned
  <2>2. S[Len(S)].mode = "body" /\ ~Takes(S[Len(S)], X[f.exc].type)
    BY <1>8, <1>b
  <2>3. Proc(S2, F2, X, c, u) /\ Change(Held(S, F), X, Held(S2, F2), X)
    BY ONLY <1>2, <2>1, <2>2, f = F[Len(F)], S2 = Topped(S, x), F2 = Topped(F, Flight(f.exc, "landed", Len(S), f.target)), LandCleans
  <2>4. S2 \in Seq(Frames) /\ F2 \in Seq(Flights)
    BY <2>3 DEF Proc
  <2>5. ExcTypes' /\ Moves(p, S2, F2, X, c, u)
    BY <2>4, <1>5, <1>8 DEF ExcInv, ExcTypes, Moves
  <2>6. Change(HeldBy(p), xExc, Held(S2, F2), X)
    BY <2>3 DEF HeldBy
  <2> QED BY <2>3, <2>5, <2>6, StepKeeps
<1> PICK S2 : S2 = Popped(S)
  OBVIOUS
<1>9. CASE /\ Answers(r, t, "cleanup") = "continue" /\ r.mode = "catch"
           /\ EndEffect(p)
           /\ xStack' = [xStack EXCEPT ![p] = Popped(S)]
           /\ UNCHANGED <<xFly, xSkipped>>
  <2> PICK c2 : c2 = xEh'[p].caught
    OBVIOUS
  <2>1. S[Len(S)].mode = "catch" /\ ~Takes(S[Len(S)], X[f.exc].type)
    BY <1>9, <1>b
  <2>2. c \in DOMAIN X
    BY <2>1, <1>2, <1>s, CatchExists
  <2>e. EndsAt(p, c, X2, c2)
    BY <2>2, <1>9, EndEffectEnds DEF ExcInv
  <2>t. TypedExceptions(X) /\ Ended(X, c, X2, c2)
    BY <2>e, <1>t DEF EndsAt
  <2>3. Proc(S2, F, X2, c2, u) /\ Change(Held(S, F), X, Held(S2, F), X2)
    BY ONLY <1>2, <2>1, <2>t, f = F[Len(F)], S2 = Popped(S), PassHandler
  <2>4. S2 \in Seq(Frames)
    BY <2>3 DEF Proc
  <2>5. ExcTypes' /\ Moves(p, S2, F, X2, c2, u)
    BY <2>4, <2>e, <1>5, <1>9 DEF ExcInv, ExcTypes, Moves, EndsAt
  <2>6. Change(HeldBy(p), xExc, Held(S2, F), X2)
    BY <2>3 DEF HeldBy
  <2> QED BY <2>3, <2>5, <2>6, StepKeeps
<1>10. CASE /\ Answers(r, t, "cleanup") = "continue" /\ r.mode # "catch"
            /\ xStack' = [xStack EXCEPT ![p] = Popped(S)]
            /\ xSkipped' = (xSkipped \/ HasCleanup(r))
            /\ UNCHANGED <<xFly, xEh, xExc>>
  <2>1. S[Len(S)].mode # "catch" /\ ~Takes(S[Len(S)], X[f.exc].type)
    BY <1>10, <1>b
  <2>2. xSkipped' = FALSE
    <3>1. ~HasCleanup(r) /\ xSkipped = FALSE
      BY <1>10, <1>b DEF ExcInv, ExcTypes
    <3> QED BY <3>1, <1>10, Zenon
  <2>3. Proc(S2, F, X, c, u) /\ Change(Held(S, F), X, Held(S2, F), X)
    BY ONLY <1>2, <2>1, f = F[Len(F)], S2 = Popped(S), PassFrame
  <2>4. S2 \in Seq(Frames)
    BY <2>3 DEF Proc
  <2>5. ExcTypes' /\ Moves(p, S2, F, X, c, u)
    BY <2>2, <2>4, <1>5, <1>10 DEF ExcInv, ExcTypes, Moves
  <2>6. Change(HeldBy(p), xExc, Held(S2, F), X)
    BY <2>3 DEF HeldBy
  <2> QED BY <2>3, <2>5, <2>6, StepKeeps
<1> QED BY <1>6, <1>7, <1>8, <1>9, <1>10

LEMMA ExcStart == ASSUME XCareful = TRUE, ExcInit PROVE ExcInv
<1> USE DEF ExcInit
<1>1. ExcTypes
  BY DEF ExcTypes, TypedExceptions
<1>2. HandlersOf(<<>>) = <<>> /\ DOMAIN HandlersOf(<<>>) = {}
  BY DEF HandlersOf
<1>3. Pads(<<>>) = {} /\ PadExcs(<<>>) = {}
  BY NoPads
<1>4. Proc(<<>>, <<>>, xExc, 0, 0)
  <2>1. HandlersOK(HandlersOf(<<>>), <<>>, {}, xExc, 0)
    BY <1>2 DEF HandlersOK, Latest, Linked, Counted, UpSet, Bounded, Distinct
  <2>2. <<>> \in Seq(Frames) /\ <<>> \in Seq(Flights) /\ Len(<<>>) = 0 /\ DOMAIN <<>> = {}
    OBVIOUS
  <2>3. Walk(<<>>, <<>>, xExc) /\ Shape(<<>>, <<>>)
    BY <2>2 DEF Walk, Shape
  <2>4. 0 = Len(<<>>) + (IF Pads(<<>>) = {} THEN 0 ELSE 1)
    BY <2>2, <1>3
  <2> QED BY <2>1, <2>2, <2>3, <2>4, <1>3, Zenon DEF Proc
<1>5. \A p \in XProcs : Proc(xStack[p], xFly[p], xExc, xEh[p].caught, xEh[p].uncaught)
  BY <1>4
<1>6. \A p \in XProcs : HeldBy(p) = {}
  BY <1>2, <1>3 DEF HeldBy, Held, UpSet
<1> QED BY <1>1, <1>5, <1>6 DEF ExcInv

LEMMA ExcStutters == ASSUME ExcInv, UNCHANGED excVars PROVE ExcInv'
<1>1. UNCHANGED <<xStack, xFly, xExc, xEh, xSkipped, xThrows, xJunk>>
  BY DEF excVars
<1>2. ExcTypes'
  BY <1>1 DEF ExcInv, ExcTypes
<1>3. \A p \in XProcs : HeldBy(p)' = HeldBy(p)
  BY <1>1 DEF HeldBy
<1> QED BY <1>1, <1>2, <1>3 DEF ExcInv

LEMMA ExcStep == ASSUME XCareful = TRUE, ExcInv, [ExcNext]_excVars PROVE ExcInv'
<1>1. CASE UNCHANGED excVars
  BY <1>1, ExcStutters
<1>2. ASSUME NEW p \in XProcs, UNCHANGED xJunk, NEW t \in ThrowTypes, Throw(p, t) PROVE ExcInv'
  BY <1>2, ThrowStep
<1>3. ASSUME NEW p \in XProcs, UNCHANGED xJunk, Rethrow(p) PROVE ExcInv'
  BY <1>3, RethrowStep
<1>4. ASSUME NEW p \in XProcs, UNCHANGED xJunk, BeginCatch(p) PROVE ExcInv'
  BY <1>4, BeginCatchStep
<1>5. ASSUME NEW p \in XProcs, UNCHANGED xJunk, Search(p) PROVE ExcInv'
  BY <1>5, SearchStep
<1>6. ASSUME NEW p \in XProcs, UNCHANGED xJunk, Land(p) PROVE ExcInv'
  BY <1>6, LandStep
<1>7. ASSUME NEW p \in XProcs, UNCHANGED xJunk, Resume(p) PROVE ExcInv'
  <2>1. xStack[p] # <<>>
    <3> PICK S : S = xStack[p]
      OBVIOUS
    <3> PICK F : F = xFly[p]
      OBVIOUS
    <3> PICK X : X = xExc
      OBVIOUS
    <3> PICK c : c = xEh[p].caught
      OBVIOUS
    <3> PICK u : u = xEh[p].uncaught
      OBVIOUS
    <3> PICK f : f = F[Len(F)]
      OBVIOUS
    <3>1. Proc(S, F, X, c, u) /\ F # <<>> /\ f.phase = "landed" /\ TypedExceptions(X)
      BY <1>7 DEF ExcInv, ExcTypes, Resume, Flying
    <3> QED BY <3>1, FlightFacts
  <2> QED BY <2>1, <1>7, ResumeStep
<1>8. ASSUME NEW p \in XProcs, UNCHANGED xJunk, Leave(p) PROVE ExcInv'
  BY <1>8, LeaveStep
<1>9. ASSUME NEW p \in XProcs, UNCHANGED xJunk, NEW ip \in CallIps, EndCatch(p, ip) PROVE ExcInv'
  BY <1>9, EndCatchStep
<1>10. ASSUME NEW p \in XProcs, UNCHANGED xJunk, NEW l \in Lsdas, NEW ip \in CallIps, Enter(p, l, ip) PROVE ExcInv'
  BY <1>10, EnterStep
<1> QED BY <1>1, <1>2, <1>3, <1>4, <1>5, <1>6, <1>7, <1>8, <1>9, <1>10 DEF ExcNext

\* What the invariant says of handlers.
LEMMA InvInnermost == ASSUME ExcInv PROVE HandlersInnermost
<1>1. ASSUME NEW p \in XProcs, NEW i \in DOMAIN xFly[p]
      PROVE  LET f == xFly[p][i]
             IN f.phase \in {"cleanup", "landed"} /\ f.exc \in DOMAIN xExc =>
                   /\ Len(xStack[p]) >= f.target
                   /\ f.phase = "cleanup" /\ i = Len(xFly[p]) =>
                         /\ Takes(xStack[p][f.target], xExc[f.exc].type)
                         /\ \A j \in f.target + 1 .. Len(xStack[p]) : ~Takes(xStack[p][j], xExc[f.exc].type)
  <2> PICK S \in Seq(Frames) : S = xStack[p]
    BY DEF ExcInv, ExcTypes
  <2> PICK f : f = xFly[p][i]
    OBVIOUS
  <2> PICK n \in Nat : n = Len(S)
    OBVIOUS
  <2> PICK t : t = xExc[f.exc].type
    OBVIOUS
  <2>1. Walking(S, f, xExc) /\ f \in Flights
    <3>1. xFly[p] \in Seq(Flights) /\ Walk(S, xFly[p], xExc)
      BY DEF ExcInv, Proc
    <3> QED BY <3>1 DEF Walk
  <2>2. CASE f.phase = "cleanup"
    <3>1. Chosen(S, n + 1, f.target, t)
      BY <2>1, <2>2 DEF Walking
    <3>2. f.target \in 1 .. n /\ Takes(S[f.target], t)
      BY <3>1 DEF Chosen
    <3>3. \A j \in f.target + 1 .. n : ~Takes(S[j], t)
      <4> TAKE j \in f.target + 1 .. n
      <4>1. j \in DOMAIN S /\ j > f.target /\ j < n + 1
        BY <3>2
      <4> QED BY <4>1, <3>1 DEF Chosen
    <3> QED BY <3>2, <3>3
  <2>3. CASE f.phase = "landed"
    <3>1. f.at \in 1 .. n /\ f.target \in 1 .. n
      BY <2>1, <2>3 DEF Walking, Chosen
    <3> QED BY <3>1, <2>3
  <2> QED BY <2>2, <2>3
<1> QED BY <1>1 DEF HandlersInnermost, ExcInv, ExcTypes

\* The innermost of all handlers is the innermost up to the last frame.
LEMMA LatestInnermost ==
    ASSUME NEW k, NEW n \in Nat, DOMAIN k \subseteq 1 .. n, NEW c, Latest(k, c)
    PROVE  Innermost(k, n, c)
<1>1. \A i \in DOMAIN k : i <= n
  OBVIOUS
<1> QED BY <1>1 DEF Latest, Innermost

LEMMA InvOrder == ASSUME ExcInv, NEW p \in XProcs PROVE InOrder(p)
<1> PICK S \in Seq(Frames) : S = xStack[p]
  BY DEF ExcInv, ExcTypes
<1> PICK k : k = HandlersOf(S)
  OBVIOUS
<1> PICK c : c = xEh[p].caught
  OBVIOUS
<1>1. DOMAIN k \subseteq 1 .. Len(S)
  BY HandlersAt
<1>2. Latest(k, c) /\ Linked(k, xExc)
  BY DEF ExcInv, Proc, HandlersOK
<1>3. Innermost(k, Len(S), c)
  <2> PICK n \in Nat : n = Len(S)
    OBVIOUS
  <2>1. Innermost(k, n, c)
    BY <1>1, <1>2, LatestInnermost
  <2> QED BY <2>1
<1>4. \A i \in DOMAIN k : Innermost(k, i - 1, k[i]) \/ Innermost(k, i - 1, xExc[k[i]].next)
  BY <1>2 DEF Linked
<1> QED BY <1>3, <1>4, Zenon DEF InOrder, Globals

\* Who holds an exception, in the words of the property.
LEMMA Holders ==
    ASSUME ExcInv, NEW p \in XProcs, NEW e \in DOMAIN xExc
    PROVE  /\ Uses(p, e) \in Nat /\ Uses(p, e) = UsesIn(HandlersOf(xStack[p]), e)
           /\ Uses(p, e) > 0 <=> \E i \in DOMAIN HandlersOf(xStack[p]) : HandlersOf(xStack[p])[i] = e
           /\ e \in FlyingIn(p) \/ e \in Padded(p) <=> e \in UpSet(xFly[p], PadExcs(xStack[p]))
           /\ Uses(p, e) > 0 \/ e \in FlyingIn(p) \/ e \in Padded(p) <=> e \in HeldBy(p)
<1> PICK S \in Seq(Frames) : S = xStack[p]
  BY DEF ExcInv, ExcTypes
<1> PICK k : k = HandlersOf(S)
  OBVIOUS
<1> PICK n \in Nat : n = Len(S)
  OBVIOUS
<1>0. e # 0
  BY DEF ExcInv, ExcTypes, TypedExceptions
<1>1. UsesIn(k, e) \in Nat /\ (UsesIn(k, e) = 0 <=> \A i \in DOMAIN k : k[i] # e)
  <2>1. DOMAIN k \subseteq 1 .. n
    BY HandlersAt
  <2> QED BY <2>1, NoUses
<1>2. Uses(p, e) = UsesIn(k, e)
  BY Zenon DEF Uses, UsesIn
<1>3. Uses(p, e) > 0 <=> \E i \in DOMAIN k : k[i] = e
  <2> PICK v \in Nat : v = UsesIn(k, e)
    BY <1>1
  <2>1. v > 0 <=> ~(v = 0)
    OBVIOUS
  <2> QED BY <2>1, <1>1, <1>2
<1>4. e \in FlyingIn(p) <=> \E i \in DOMAIN xFly[p] : xFly[p][i].exc = e
  BY <1>0 DEF FlyingIn
<1>5. Padded(p) = PadExcs(S)
  BY Zenon DEF Padded, PadExcs, Pads
<1>6. e \in FlyingIn(p) \/ e \in Padded(p) <=> e \in UpSet(xFly[p], PadExcs(S))
  BY <1>4, <1>5 DEF UpSet
<1>7. Uses(p, e) > 0 \/ e \in FlyingIn(p) \/ e \in Padded(p) <=> e \in HeldBy(p)
  BY <1>3, <1>6 DEF HeldBy, Held
<1> QED BY <1>1, <1>2, <1>3, <1>6, <1>7

LEMMA InvOwned == ASSUME ExcInv PROVE ExceptionsOwned
<1>1. ASSUME NEW e \in DOMAIN xExc
      PROVE  /\ Cardinality({p \in XProcs : Uses(p, e) > 0} \cup {p \in XProcs : e \in FlyingIn(p)} \cup {p \in XProcs : e \in Padded(p)}) = 1
             /\ \A p \in {q \in XProcs : Uses(q, e) > 0} : xExc[e].count \in {Uses(p, e), -Uses(p, e)}
             /\ \A p \in {q \in XProcs : Uses(q, e) > 0} : xExc[e].count < 0 => e \in FlyingIn(p) \cup Padded(p)
  <2>0. e # 0
    BY DEF ExcInv, ExcTypes, TypedExceptions
  <2>1. PICK p \in XProcs : e \in HeldBy(p)
    BY DEF ExcInv
  <2>2. \A q \in XProcs : e \in HeldBy(q) => q = p
    BY <2>0, <2>1 DEF ExcInv
  <2>3. {q \in XProcs : Uses(q, e) > 0} \cup {q \in XProcs : e \in FlyingIn(q)} \cup {q \in XProcs : e \in Padded(q)} = {p}
    <3>1. \A q \in XProcs : (Uses(q, e) > 0 \/ e \in FlyingIn(q) \/ e \in Padded(q)) <=> q = p
      BY <2>1, <2>2, Holders
    <3> QED BY <3>1, Zenon
  <2>4. Cardinality({p}) = 1
    BY FS_Singleton
  <2>5. ASSUME NEW q \in XProcs, Uses(q, e) > 0
        PROVE  xExc[e].count \in {Uses(q, e), -Uses(q, e)} /\ (xExc[e].count < 0 => e \in FlyingIn(q) \cup Padded(q))
    <3> PICK k : k = HandlersOf(xStack[q])
      OBVIOUS
    <3> PICK up : up = UpSet(xFly[q], PadExcs(xStack[q]))
      OBVIOUS
    <3>1. /\ Uses(q, e) \in Nat /\ Uses(q, e) = UsesIn(k, e)
          /\ \E i \in DOMAIN k : k[i] = e
          /\ e \in FlyingIn(q) \/ e \in Padded(q) <=> e \in up
      BY <2>5, Holders
    <3>2. Counted(k, up, xExc)
      BY DEF ExcInv, Proc, HandlersOK
    <3>3. CASE e \in up
      BY <3>1, <3>2, <3>3 DEF Counted
    <3>4. CASE e \notin up
      <4>1. xExc[e].count = Uses(q, e)
        BY <3>1, <3>2, <3>4 DEF Counted
      <4> QED BY <4>1, <3>1
    <3> QED BY <3>3, <3>4
  <2> QED BY <2>3, <2>4, <2>5
<1>2. ASSUME NEW p \in XProcs
      PROVE  /\ \A i \in DOMAIN xStack[p] : xStack[p][i].mode \in {"catch", "pad"} => xStack[p][i].exc \in DOMAIN xExc
             /\ FlyingIn(p) \subseteq DOMAIN xExc
             /\ xEh[Globals(p)].uncaught = Len(xFly[p]) + Cardinality({i \in DOMAIN xStack[p] : xStack[p][i].mode = "pad"})
             /\ InOrder(p)
  <2> PICK S \in Seq(Frames) : S = xStack[p]
    BY DEF ExcInv, ExcTypes
  <2> PICK F \in Seq(Flights) : F = xFly[p]
    BY DEF ExcInv, ExcTypes
  <2>1. Walk(S, F, xExc) /\ Shape(S, F) /\ HandlersOK(HandlersOf(S), F, PadExcs(S), xExc, xEh[p].caught)
        /\ xEh[p].uncaught = Len(F) + (IF Pads(S) = {} THEN 0 ELSE 1)
    BY DEF ExcInv, Proc
  <2>2. ASSUME NEW i \in DOMAIN S, S[i].mode = "catch" PROVE S[i].exc \in DOMAIN xExc
    <3>1. i \in DOMAIN HandlersOf(S) /\ HandlersOf(S)[i] = S[i].exc
      BY <2>2, HandlersAt
    <3> QED BY <3>1, <2>1 DEF HandlersOK, Linked
  <2>3. ASSUME NEW i \in DOMAIN S, S[i].mode = "pad" PROVE S[i].exc \in DOMAIN xExc
    <3>1. S[i].exc \in PadExcs(S)
      BY <2>3 DEF PadExcs, Pads
    <3> QED BY <3>1, <2>1 DEF HandlersOK, Distinct
  <2>4. FlyingIn(p) \subseteq DOMAIN xExc
    BY <2>1 DEF Walk, Walking, FlyingIn
  <2>5. Cardinality(Pads(S)) = (IF Pads(S) = {} THEN 0 ELSE 1)
    <3>1. CASE Pads(S) = {}
      BY <3>1, FS_EmptySet
    <3>2. CASE Pads(S) # {}
      <4>1. PICK n \in DOMAIN S : S[n].mode = "pad"
        BY <3>2 DEF Pads
      <4>2. \A i \in DOMAIN S : S[i].mode = "pad" => i = n
        BY <4>1, <2>1 DEF Shape
      <4>3. Pads(S) = {n}
        BY <4>1, <4>2, OnePad
      <4>4. Cardinality({n}) = 1
        BY FS_Singleton
      <4> QED BY <4>3, <4>4
    <3> QED BY <3>1, <3>2
  <2>6. Pads(S) = {i \in DOMAIN S : S[i].mode = "pad"}
    BY DEF Pads
  <2>7. xEh[Globals(p)].uncaught = Len(F) + Cardinality({i \in DOMAIN S : S[i].mode = "pad"})
    <3>1. xEh[p].uncaught = Len(F) + Cardinality(Pads(S))
      BY <2>1, <2>5
    <3> QED BY <3>1, <2>6, Zenon DEF Globals
  <2> QED BY <2>2, <2>3, <2>4, <2>7, InvOrder
<1> QED BY <1>1, <1>2, Zenon DEF ExceptionsOwned

LEMMA ExcInvariant == ASSUME XCareful = TRUE PROVE ExcSpec => []ExcInv
<1>1. ExcInit => ExcInv
  BY ExcStart
<1>2. ExcInv /\ [ExcNext]_excVars => ExcInv'
  BY ExcStep
<1> QED BY <1>1, <1>2, PTL DEF ExcSpec

\* Unwinding ends in the innermost frame that takes the exception: the search
\* phase of __cxa_personality and the walk of the cleanup phase agree, whatever
\* handlers and cleanups run in between, and no frame is left without its cleanup.
THEOREM HandlersAreInnermost == ASSUME XCareful = TRUE PROVE ExcSpec => []HandlersInnermost
<1>1. ExcInv => HandlersInnermost
  BY InvInnermost
<1> QED BY <1>1, ExcInvariant, PTL

\* Every exception object is in flight, about to be caught or being handled;
\* handlerCount counts its handlers, negative while it flies, and the globals
\* chain the caught ones and count the others: __cxa_end_catch deletes an
\* exception when, and only when, nobody needs it any more.
THEOREM EveryExceptionOwned == ASSUME XCareful = TRUE PROVE ExcSpec => []ExceptionsOwned
<1>1. ExcInv => ExceptionsOwned
  BY InvOwned
<1> QED BY <1>1, ExcInvariant, PTL

-----------------------------------------------------------------------------
(* The codes of the keys                                                   *)
\* A code as the decoder sees it: its first bytes ask for more, the whole does not.
IsCode(q) ==
    /\ Len(q) \in 1 .. 8
    /\ q = [i \in 1 .. Len(q) |-> q[i]]
    /\ ~GoesOn(q)
    /\ \A n \in 1 .. Len(q) - 1 : GoesOn([i \in 1 .. n |-> q[i]])

\* get_response and read_code_sc2 take exactly one code from the controller.
LEMMA CodeRead ==
    ASSUME NEW q, IsCode(q), kQueue = q
    PROVE  Bytes8(CodeLength) = q
<1>0. Len(q) \in 1 .. 8 /\ q = [i \in 1 .. Len(q) |-> q[i]]
  BY DEF IsCode
<1>1. \A n \in 1 .. Len(q) : Bytes8(n) = [i \in 1 .. n |-> q[i]]
  BY <1>0 DEF Bytes8, Byte
<1>2. Bytes8(Len(q)) = q
  <2>1. Len(q) \in 1 .. Len(q)
    BY <1>0
  <2> QED BY <1>0, <1>1, <2>1, Zenon
<1>3. /\ ~GoesOn(Bytes8(Len(q)))
      /\ \A j \in 1 .. Len(q) - 1 : GoesOn(Bytes8(j))
  <2>1. \A j \in 1 .. Len(q) - 1 : j \in 1 .. Len(q)
    BY <1>0
  <2> QED BY <1>1, <1>2, <2>1, Zenon DEF IsCode
<1>4. ASSUME NEW n \in 1 .. 8, ~GoesOn(Bytes8(n)), \A j \in 1 .. n - 1 : GoesOn(Bytes8(j))
      PROVE  n = Len(q)
  <2>1. n < Len(q) => n \in 1 .. Len(q) - 1
    BY <1>0
  <2>2. Len(q) < n => Len(q) \in 1 .. n - 1
    BY <1>0
  <2>3. ~(n < Len(q)) /\ ~(Len(q) < n)
    BY <1>3, <1>4, <2>1, <2>2, Zenon
  <2> QED BY <1>0, <2>3
<1>5. CodeLength = Len(q)
  BY <1>0, <1>3, <1>4, Zenon DEF CodeLength
<1> QED BY <1>2, <1>5

LEMMA BasicCodes ==
    ASSUME NEW j \in BasicKeys, NEW k \in BasicKeys, MakeCode[j] = MakeCode[k] PROVE j = k
BY DEF BasicKeys, MakeCode

LEMMA BasicBytes ==
    ASSUME NEW k \in BasicKeys
    PROVE  \E b : MakeCode[k] = <<b>> /\ b \notin {"E0", "F0", "E1"}
<1>1. CASE k = "a"
  <2>1. MakeCode[k] = <<"1C">> /\ "1C" \notin {"E0", "F0", "E1"}
    BY <1>1 DEF MakeCode
  <2> QED BY <2>1, Zenon
<1>2. CASE k = "k1"
  <2>1. MakeCode[k] = <<"69">> /\ "69" \notin {"E0", "F0", "E1"}
    BY <1>2 DEF MakeCode
  <2> QED BY <2>1, Zenon
<1>3. CASE k = "enter"
  <2>1. MakeCode[k] = <<"5A">> /\ "5A" \notin {"E0", "F0", "E1"}
    BY <1>3 DEF MakeCode
  <2> QED BY <2>1, Zenon
<1>4. CASE k = "lshift"
  <2>1. MakeCode[k] = <<"12">> /\ "12" \notin {"E0", "F0", "E1"}
    BY <1>4 DEF MakeCode
  <2> QED BY <2>1, Zenon
<1>5. CASE k = "lctrl"
  <2>1. MakeCode[k] = <<"14">> /\ "14" \notin {"E0", "F0", "E1"}
    BY <1>5 DEF MakeCode
  <2> QED BY <2>1, Zenon
<1>6. CASE k = "capslock"
  <2>1. MakeCode[k] = <<"58">> /\ "58" \notin {"E0", "F0", "E1"}
    BY <1>6 DEF MakeCode
  <2> QED BY <2>1, Zenon
<1>7. CASE k = "numlock"
  <2>1. MakeCode[k] = <<"77">> /\ "77" \notin {"E0", "F0", "E1"}
    BY <1>7 DEF MakeCode
  <2> QED BY <2>1, Zenon
<1> QED BY <1>1, <1>2, <1>3, <1>4, <1>5, <1>6, <1>7 DEF BasicKeys

LEMMA BasicKnown ==
    ASSUME NEW k \in BasicKeys, NEW b, MakeCode[k] = <<b>>
    PROVE  Sc2Basic(b) = k
<1>1. \A j \in BasicKeys : MakeCode[j] = <<b>> => j = k
  BY BasicCodes
<1> QED BY <1>1, Zenon DEF Sc2Basic

LEMMA MakeUp ==
    ASSUME NEW q, q = <<"E0", "75">>
    PROVE  IsCode(q) /\ DecodeSc2(q) = [key |-> "uarrow", down |-> TRUE]
<1>1. Len(q) = 2 /\ q = [i \in 1 .. 2 |-> q[i]]
  OBVIOUS
<1>2. GoesOn([i \in 1 .. 1 |-> q[i]])
  <2>1. [i \in 1 .. 1 |-> q[i]] = <<"E0">>
    OBVIOUS
  <2> QED BY <2>1 DEF GoesOn
<1>3. ~GoesOn(q)
  BY DEF GoesOn
<1>4. \A j \in 1 .. 2 - 1 : j = 1
  OBVIOUS
<1>5. \A j \in 1 .. 2 - 1 : GoesOn([i \in 1 .. j |-> q[i]])
  BY ONLY <1>2, <1>4, Zenon
<1>6. 2 \in 1 .. 8
  OBVIOUS
<1>7. IsCode(q)
  BY ONLY <1>1, <1>3, <1>5, <1>6, Zenon DEF IsCode
<1>8. DecodeSc2(q) = [key |-> "uarrow", down |-> TRUE]
  BY DEF DecodeSc2, MakeCode, BreakCode, Sc2Extended
<1> QED BY <1>7, <1>8

LEMMA MakePrint ==
    ASSUME NEW q, q = <<"E0", "12", "E0", "7C">>
    PROVE  IsCode(q) /\ DecodeSc2(q) = [key |-> "prtscrn", down |-> TRUE]
<1>1. Len(q) = 4 /\ q = [i \in 1 .. 4 |-> q[i]]
  OBVIOUS
<1>2. GoesOn([i \in 1 .. 1 |-> q[i]])
  <2>1. [i \in 1 .. 1 |-> q[i]] = <<"E0">>
    OBVIOUS
  <2> QED BY <2>1 DEF GoesOn
<1>3. GoesOn([i \in 1 .. 2 |-> q[i]])
  <2>1. [i \in 1 .. 2 |-> q[i]] = <<"E0", "12">>
    OBVIOUS
  <2> QED BY <2>1 DEF GoesOn
<1>4. GoesOn([i \in 1 .. 3 |-> q[i]])
  <2>1. [i \in 1 .. 3 |-> q[i]] = <<"E0", "12", "E0">>
    OBVIOUS
  <2> QED BY <2>1 DEF GoesOn
<1>5. ~GoesOn(q)
  BY DEF GoesOn
<1>6. \A j \in 1 .. 4 - 1 : j = 1 \/ j = 2 \/ j = 3
  OBVIOUS
<1>7. \A j \in 1 .. 4 - 1 : GoesOn([i \in 1 .. j |-> q[i]])
  BY ONLY <1>2, <1>3, <1>4, <1>6, Zenon
<1>8. 4 \in 1 .. 8
  OBVIOUS
<1>9. IsCode(q)
  BY ONLY <1>1, <1>5, <1>7, <1>8, Zenon DEF IsCode
<1>10. DecodeSc2(q) = [key |-> "prtscrn", down |-> TRUE]
  BY DEF DecodeSc2, MakeCode, BreakCode, Sc2Extended
<1> QED BY <1>9, <1>10

LEMMA MakePause ==
    ASSUME NEW q, q = <<"E1", "14", "77", "E1", "F0", "14", "F0", "77">>
    PROVE  IsCode(q) /\ DecodeSc2(q) = [key |-> "pause", down |-> TRUE]
<1>1. Len(q) = 8 /\ q = [i \in 1 .. 8 |-> q[i]]
  OBVIOUS
<1>2. GoesOn([i \in 1 .. 1 |-> q[i]])
  <2>1. [i \in 1 .. 1 |-> q[i]] = <<"E1">>
    OBVIOUS
  <2> QED BY <2>1 DEF GoesOn
<1>3. GoesOn([i \in 1 .. 2 |-> q[i]])
  <2>1. [i \in 1 .. 2 |-> q[i]] = <<"E1", "14">>
    OBVIOUS
  <2> QED BY <2>1 DEF GoesOn
<1>4. GoesOn([i \in 1 .. 3 |-> q[i]])
  <2>1. [i \in 1 .. 3 |-> q[i]] = <<"E1", "14", "77">>
    OBVIOUS
  <2> QED BY <2>1 DEF GoesOn
<1>5. GoesOn([i \in 1 .. 4 |-> q[i]])
  <2>1. [i \in 1 .. 4 |-> q[i]] = <<"E1", "14", "77", "E1">>
    OBVIOUS
  <2> QED BY <2>1 DEF GoesOn
<1>6. GoesOn([i \in 1 .. 5 |-> q[i]])
  <2>1. [i \in 1 .. 5 |-> q[i]] = <<"E1", "14", "77", "E1", "F0">>
    OBVIOUS
  <2> QED BY <2>1 DEF GoesOn
<1>7. GoesOn([i \in 1 .. 6 |-> q[i]])
  <2>1. [i \in 1 .. 6 |-> q[i]] = <<"E1", "14", "77", "E1", "F0", "14">>
    OBVIOUS
  <2> QED BY <2>1 DEF GoesOn
<1>8. GoesOn([i \in 1 .. 7 |-> q[i]])
  <2>1. [i \in 1 .. 7 |-> q[i]] = <<"E1", "14", "77", "E1", "F0", "14", "F0">>
    OBVIOUS
  <2> QED BY <2>1 DEF GoesOn
<1>9. ~GoesOn(q)
  BY DEF GoesOn
<1>10. \A j \in 1 .. 8 - 1 : j = 1 \/ j = 2 \/ j = 3 \/ j = 4 \/ j = 5 \/ j = 6 \/ j = 7
  OBVIOUS
<1>11. \A j \in 1 .. 8 - 1 : GoesOn([i \in 1 .. j |-> q[i]])
  BY ONLY <1>2, <1>3, <1>4, <1>5, <1>6, <1>7, <1>8, <1>10, Zenon
<1>12. 8 \in 1 .. 8
  OBVIOUS
<1>13. IsCode(q)
  BY ONLY <1>1, <1>9, <1>11, <1>12, Zenon DEF IsCode
<1>14. DecodeSc2(q) = [key |-> "pause", down |-> TRUE]
  BY DEF DecodeSc2, MakeCode, BreakCode, Sc2Extended
<1> QED BY <1>13, <1>14

LEMMA BreakUp ==
    ASSUME NEW q, q = <<"E0", "F0", "75">>
    PROVE  IsCode(q) /\ DecodeSc2(q) = [key |-> "uarrow", down |-> FALSE]
<1>1. Len(q) = 3 /\ q = [i \in 1 .. 3 |-> q[i]]
  OBVIOUS
<1>2. GoesOn([i \in 1 .. 1 |-> q[i]])
  <2>1. [i \in 1 .. 1 |-> q[i]] = <<"E0">>
    OBVIOUS
  <2> QED BY <2>1 DEF GoesOn
<1>3. GoesOn([i \in 1 .. 2 |-> q[i]])
  <2>1. [i \in 1 .. 2 |-> q[i]] = <<"E0", "F0">>
    OBVIOUS
  <2> QED BY <2>1 DEF GoesOn
<1>4. ~GoesOn(q)
  BY DEF GoesOn
<1>5. \A j \in 1 .. 3 - 1 : j = 1 \/ j = 2
  OBVIOUS
<1>6. \A j \in 1 .. 3 - 1 : GoesOn([i \in 1 .. j |-> q[i]])
  BY ONLY <1>2, <1>3, <1>5, Zenon
<1>7. 3 \in 1 .. 8
  OBVIOUS
<1>8. IsCode(q)
  BY ONLY <1>1, <1>4, <1>6, <1>7, Zenon DEF IsCode
<1>9. /\ Len(q) # 1 /\ Len(q) # 2 /\ SubSeq(q, 1, 2) = <<"E0", "F0">> /\ q[3] = "75"
      /\ q # MakeCode["prtscrn"] /\ q # MakeCode["pause"] /\ q # BreakCode("prtscrn")
  <2>1. SubSeq(q, 1, 2) = <<"E0", "F0">>
    <3>1. q \in Seq({"E0", "F0", "75"}) /\ Len(q) = 3 /\ q[1] = "E0" /\ q[2] = "F0"
      OBVIOUS
    <3>2. PICK B, s, t : B = {"E0", "F0", "75"} /\ s = SubSeq(q, 1, 2) /\ t = <<"E0", "F0">>
      OBVIOUS
    <3>3. \A i \in 1 .. 2 : q[i] \in B
      BY <3>1, <3>2
    <3>4. s \in Seq(B) /\ Len(s) = 2 /\ \A i \in 1 .. 2 : s[i] = q[i]
      <4>1. /\ SubSeq(q, 1, 2) \in Seq(B) /\ Len(SubSeq(q, 1, 2)) = 2 - 1 + 1
            /\ \A i \in 1 .. 2 - 1 + 1 : SubSeq(q, 1, 2)[i] = q[1 + i - 1]
        BY <3>3, SubSeqProperties
      <4> QED BY ONLY <4>1, <3>2
    <3>5. t \in Seq(B) /\ Len(t) = 2 /\ t[1] = "E0" /\ t[2] = "F0"
      BY ONLY <3>2
    <3>6. \A i \in 1 .. Len(s) : s[i] = t[i]
      BY ONLY <3>1, <3>4, <3>5
    <3> QED BY ONLY <3>2, <3>4, <3>5, <3>6, SeqEqual
  <2>2. Len(q) # 1 /\ Len(q) # 2 /\ q[3] = "75"
    BY <1>1
  <2>3. q # MakeCode["prtscrn"] /\ q # MakeCode["pause"]
    BY DEF MakeCode
  <2>4. q # BreakCode("prtscrn")
    BY DEF BreakCode
  <2> QED BY <2>1, <2>2, <2>3, <2>4
<1>10. DecodeSc2(q) = [key |-> "uarrow", down |-> FALSE]
  BY <1>1, <1>9, Zenon DEF DecodeSc2, Sc2Extended
<1> QED BY <1>8, <1>10

LEMMA BreakPrint ==
    ASSUME NEW q, q = <<"E0", "F0", "7C", "E0", "F0", "12">>
    PROVE  IsCode(q) /\ DecodeSc2(q) = [key |-> "prtscrn", down |-> FALSE]
<1>1. Len(q) = 6 /\ q = [i \in 1 .. 6 |-> q[i]]
  OBVIOUS
<1>2. GoesOn([i \in 1 .. 1 |-> q[i]])
  <2>1. [i \in 1 .. 1 |-> q[i]] = <<"E0">>
    OBVIOUS
  <2> QED BY <2>1 DEF GoesOn
<1>3. GoesOn([i \in 1 .. 2 |-> q[i]])
  <2>1. [i \in 1 .. 2 |-> q[i]] = <<"E0", "F0">>
    OBVIOUS
  <2> QED BY <2>1 DEF GoesOn
<1>4. GoesOn([i \in 1 .. 3 |-> q[i]])
  <2>1. [i \in 1 .. 3 |-> q[i]] = <<"E0", "F0", "7C">>
    OBVIOUS
  <2> QED BY <2>1 DEF GoesOn
<1>5. GoesOn([i \in 1 .. 4 |-> q[i]])
  <2>1. [i \in 1 .. 4 |-> q[i]] = <<"E0", "F0", "7C", "E0">>
    OBVIOUS
  <2> QED BY <2>1 DEF GoesOn
<1>6. GoesOn([i \in 1 .. 5 |-> q[i]])
  <2>1. [i \in 1 .. 5 |-> q[i]] = <<"E0", "F0", "7C", "E0", "F0">>
    OBVIOUS
  <2> QED BY <2>1 DEF GoesOn
<1>7. ~GoesOn(q)
  BY DEF GoesOn
<1>8. \A j \in 1 .. 6 - 1 : j = 1 \/ j = 2 \/ j = 3 \/ j = 4 \/ j = 5
  OBVIOUS
<1>9. \A j \in 1 .. 6 - 1 : GoesOn([i \in 1 .. j |-> q[i]])
  BY ONLY <1>2, <1>3, <1>4, <1>5, <1>6, <1>8, Zenon
<1>10. 6 \in 1 .. 8
  OBVIOUS
<1>11. IsCode(q)
  BY ONLY <1>1, <1>7, <1>9, <1>10, Zenon DEF IsCode
<1>12. /\ q # MakeCode["prtscrn"] /\ q = BreakCode("prtscrn") /\ q # MakeCode["pause"]
       /\ Len(q) # 1 /\ Len(q) # 2 /\ Len(q) # 3
  <2>1. MakeCode["prtscrn"] = <<"E0", "12", "E0", "7C">>
    BY DEF MakeCode
  <2>2. Len(MakeCode["prtscrn"]) = 4
    BY <2>1
  <2>3. q = BreakCode("prtscrn")
    BY DEF BreakCode
  <2>4. MakeCode["pause"] = <<"E1", "14", "77", "E1", "F0", "14", "F0", "77">>
    BY DEF MakeCode
  <2>5. Len(MakeCode["pause"]) = 8
    BY <2>4
  <2> QED BY <1>1, <2>2, <2>3, <2>5
<1>13. DecodeSc2(q) = [key |-> "prtscrn", down |-> FALSE]
  BY <1>12, Zenon DEF DecodeSc2
<1> QED BY <1>11, <1>13

LEMMA Makes ==
    ASSUME NEW k \in DOMAIN MakeCode
    PROVE  IsCode(MakeCode[k]) /\ DecodeSc2(MakeCode[k]) = [key |-> k, down |-> TRUE]
<1>1. CASE k \in BasicKeys
  <2>1. PICK b : MakeCode[k] = <<b>> /\ b \notin {"E0", "F0", "E1"}
    BY <1>1, BasicBytes
  <2>2. PICK q : q = <<b>>
    OBVIOUS
  <2>3. IsCode(q)
    BY <2>1, <2>2 DEF IsCode, GoesOn
  <2>4. DecodeSc2(q) = [key |-> Sc2Basic(b), down |-> TRUE]
    BY <2>2 DEF DecodeSc2, MakeCode, BreakCode
  <2>5. Sc2Basic(b) = k
    BY <1>1, <2>1, BasicKnown
  <2> QED BY ONLY <2>1, <2>2, <2>3, <2>4, <2>5, Zenon
<1>2. CASE k = "uarrow"
  <2>1. MakeCode[k] = <<"E0", "75">>
    BY <1>2 DEF MakeCode
  <2> QED BY <1>2, <2>1, MakeUp, Zenon
<1>3. CASE k = "prtscrn"
  <2>1. MakeCode[k] = <<"E0", "12", "E0", "7C">>
    BY <1>3 DEF MakeCode
  <2> QED BY <1>3, <2>1, MakePrint, Zenon
<1>4. CASE k = "pause"
  <2>1. MakeCode[k] = <<"E1", "14", "77", "E1", "F0", "14", "F0", "77">>
    BY <1>4 DEF MakeCode
  <2> QED BY <1>4, <2>1, MakePause, Zenon
<1> QED BY <1>1, <1>2, <1>3, <1>4 DEF MakeCode, BasicKeys

LEMMA Breaks ==
    ASSUME NEW k \in DOMAIN MakeCode, k # "pause"
    PROVE  IsCode(BreakCode(k)) /\ DecodeSc2(BreakCode(k)) = [key |-> k, down |-> FALSE]
<1>1. CASE k \in BasicKeys
  <2>1. PICK b : MakeCode[k] = <<b>> /\ b \notin {"E0", "F0", "E1"}
    BY <1>1, BasicBytes
  <2>2. PICK q : q = <<"F0", b>>
    OBVIOUS
  <2>3. BreakCode(k) = <<"F0">> \o <<b>>
    BY <1>1, <2>1 DEF BreakCode, BasicKeys
  <2>4. <<"F0">> \o <<b>> = <<"F0", b>>
    <3>1. /\ <<"F0">> \in Seq({"F0", b}) /\ <<b>> \in Seq({"F0", b})
          /\ <<"F0", b>> \in Seq({"F0", b})
      OBVIOUS
    <3>2. <<"F0">> \o <<b>> = Append(<<"F0">>, b)
      BY <3>1, AppendIsConcat
    <3>3. /\ Append(<<"F0">>, b) \in Seq({"F0", b}) /\ Len(Append(<<"F0">>, b)) = 2
          /\ Append(<<"F0">>, b)[1] = "F0" /\ Append(<<"F0">>, b)[2] = b
      <4>1. Len(<<"F0">>) = 1 /\ <<"F0">>[1] = "F0"
        OBVIOUS
      <4>2. PICK s : s = <<"F0">>
        OBVIOUS
      <4>3. /\ Append(s, b) \in Seq({"F0", b}) /\ Len(Append(s, b)) = Len(s) + 1
            /\ Append(s, b)[1] = s[1] /\ Append(s, b)[Len(s) + 1] = b
        BY <3>1, <4>1, <4>2, AppendProperties
      <4> QED BY <4>1, <4>2, <4>3
    <3>4. Append(<<"F0">>, b) = <<"F0", b>>
      <4>1. PICK s, t : s = Append(<<"F0">>, b) /\ t = <<"F0", b>>
        OBVIOUS
      <4>2. s \in Seq({"F0", b}) /\ t \in Seq({"F0", b}) /\ Len(s) = 2 /\ Len(t) = 2
            /\ s[1] = t[1] /\ s[2] = t[2]
        BY <3>1, <3>3, <4>1
      <4>3. \A i \in 1 .. Len(s) : s[i] = t[i]
        BY <4>2
      <4> QED BY <4>1, <4>2, <4>3, SeqEqual
    <3> QED BY <3>2, <3>4
  <2>5. IsCode(q)
    <3>1. Len(q) = 2 /\ q = [i \in 1 .. 2 |-> q[i]] /\ [i \in 1 .. 1 |-> q[i]] = <<"F0">>
      BY <2>2
    <3>2. GoesOn(<<"F0">>) /\ ~GoesOn(q)
      BY <2>1, <2>2 DEF GoesOn
    <3>3. \A j \in 1 .. 2 - 1 : j = 1
      OBVIOUS
    <3>4. 2 \in 1 .. 8
      OBVIOUS
    <3> QED BY ONLY <3>1, <3>2, <3>3, <3>4, Zenon DEF IsCode
  <2>6. DecodeSc2(q) = [key |-> Sc2Basic(b), down |-> FALSE]
    BY <2>2 DEF DecodeSc2, MakeCode, BreakCode
  <2>7. Sc2Basic(b) = k
    BY <1>1, <2>1, BasicKnown
  <2> QED BY ONLY <2>2, <2>3, <2>4, <2>5, <2>6, <2>7, Zenon
<1>2. CASE k = "uarrow"
  <2>1. BreakCode(k) = <<"E0", "F0", "75">>
    BY <1>2 DEF BreakCode
  <2> QED BY <1>2, <2>1, BreakUp, Zenon
<1>3. CASE k = "prtscrn"
  <2>1. BreakCode(k) = <<"E0", "F0", "7C", "E0", "F0", "12">>
    BY <1>3 DEF BreakCode
  <2> QED BY <1>3, <2>1, BreakPrint, Zenon
<1> QED BY <1>1, <1>2, <1>3 DEF MakeCode, BasicKeys
-----------------------------------------------------------------------------
(* What a key means                                                        *)
Chars == {"a", "A", "1", Newline}

\* The driver with key k in its set and its lock turned reads the character
\* that a user with these keys held and these locks means by k.
LEMMA MeansAscii ==
    ASSUME NEW k, NEW P, NEW L, kPhys = P \ {"pause"}, kRefLocks = L
    PROVE  MeantBy(k) = GetAscii(k, P \cup {k}, Toggle(L, k))
<1>1. /\ "lctrl" \in kPhys <=> "lctrl" \in P
      /\ "lshift" \in kPhys <=> "lshift" \in P
  OBVIOUS
<1>2. CASE k \in {"a", "k1", "enter"}
  <2>1. /\ "lctrl" \in P \cup {k} <=> "lctrl" \in P
        /\ "lshift" \in P \cup {k} <=> "lshift" \in P
        /\ Toggle(L, k) = L
    BY <1>2 DEF Toggle, LockKeys
  <2>2. CASE k = "a"
    <3>1. CASE "lctrl" \in P
      BY <1>1, <2>1, <2>2, <3>1, Zenon DEF MeantBy, GetAscii
    <3>2. CASE "lctrl" \notin P
      <4>1. Shifted(k) = "A" /\ Unshifted(k) = "a"
        BY <2>2 DEF Shifted, Unshifted
      <4>2. CASE "lshift" \in P /\ "capslock" \in L
        BY <1>1, <2>1, <2>2, <3>2, <4>1, <4>2 DEF MeantBy, GetAscii, NoChar, Newline
      <4>3. CASE "lshift" \in P /\ "capslock" \notin L
        BY <1>1, <2>1, <2>2, <3>2, <4>1, <4>3 DEF MeantBy, GetAscii, NoChar, Newline
      <4>4. CASE "lshift" \notin P /\ "capslock" \in L
        BY <1>1, <2>1, <2>2, <3>2, <4>1, <4>4 DEF MeantBy, GetAscii, NoChar, Newline
      <4>5. CASE "lshift" \notin P /\ "capslock" \notin L
        BY <1>1, <2>1, <2>2, <3>2, <4>1, <4>5 DEF MeantBy, GetAscii, NoChar, Newline
      <4> QED BY <4>2, <4>3, <4>4, <4>5
    <3> QED BY <3>1, <3>2
  <2>3. CASE k = "k1"
    <3>1. CASE "lctrl" \in P
      BY <1>1, <2>1, <2>3, <3>1, Zenon DEF MeantBy, GetAscii
    <3>2. CASE "lctrl" \notin P
      <4>1. Shifted(k) = "1" /\ Unshifted(k) = NoChar
        BY <2>3 DEF Shifted, Unshifted
      <4>2. CASE "lshift" \in P /\ "numlock" \in L
        BY <1>1, <2>1, <2>3, <3>2, <4>1, <4>2 DEF MeantBy, GetAscii, NoChar, Newline
      <4>3. CASE "lshift" \in P /\ "numlock" \notin L
        BY <1>1, <2>1, <2>3, <3>2, <4>1, <4>3 DEF MeantBy, GetAscii, NoChar, Newline
      <4>4. CASE "lshift" \notin P /\ "numlock" \in L
        BY <1>1, <2>1, <2>3, <3>2, <4>1, <4>4 DEF MeantBy, GetAscii, NoChar, Newline
      <4>5. CASE "lshift" \notin P /\ "numlock" \notin L
        <5>1. MeantBy(k) = NoChar
          BY <1>1, <2>3, <3>2, <4>5 DEF MeantBy
        <5>2. NoChar \notin {"a", "A"}
          BY DEF NoChar
        <5>3. GetAscii(k, P \cup {k}, Toggle(L, k)) = NoChar
          BY <2>1, <2>3, <3>2, <4>1, <4>5, <5>2 DEF GetAscii
        <5> QED BY <5>1, <5>3
      <4> QED BY <4>2, <4>3, <4>4, <4>5
    <3> QED BY <3>1, <3>2
  <2>4. CASE k = "enter"
    <3>1. CASE "lctrl" \in P
      BY <1>1, <2>1, <2>4, <3>1, Zenon DEF MeantBy, GetAscii
    <3>2. CASE "lctrl" \notin P
      <4>1. Shifted(k) = Newline /\ Unshifted(k) = Newline
        BY <2>4 DEF Shifted, Unshifted
      <4>2. CASE "lshift" \in P /\ "capslock" \in L
        BY <1>1, <2>1, <2>4, <3>2, <4>1, <4>2 DEF MeantBy, GetAscii, NoChar, Newline
      <4>3. CASE "lshift" \in P /\ "capslock" \notin L
        BY <1>1, <2>1, <2>4, <3>2, <4>1, <4>3 DEF MeantBy, GetAscii, NoChar, Newline
      <4>4. CASE "lshift" \notin P /\ "capslock" \in L
        BY <1>1, <2>1, <2>4, <3>2, <4>1, <4>4 DEF MeantBy, GetAscii, NoChar, Newline
      <4>5. CASE "lshift" \notin P /\ "capslock" \notin L
        BY <1>1, <2>1, <2>4, <3>2, <4>1, <4>5 DEF MeantBy, GetAscii, NoChar, Newline
      <4> QED BY <4>2, <4>3, <4>4, <4>5
    <3> QED BY <3>1, <3>2
  <2> QED BY <1>2, <2>2, <2>3, <2>4
<1>3. CASE k \notin {"a", "k1", "enter"}
  <2>1. MeantBy(k) = NoChar
    BY <1>3 DEF MeantBy
  <2>2. Shifted(k) = NoChar /\ Unshifted(k) = NoChar
    BY <1>3 DEF Shifted, Unshifted
  <2>3. NoChar \notin {"a", "A"}
    BY DEF NoChar
  <2> QED BY <2>1, <2>2, <2>3 DEF GetAscii
<1> QED BY <1>2, <1>3

LEMMA AsciiChars ==
    ASSUME NEW k, NEW P, NEW L
    PROVE  GetAscii(k, P, L) \in Chars \cup {NoChar}
<1>1. Shifted(k) \in Chars \cup {NoChar} /\ Unshifted(k) \in Chars \cup {NoChar}
  BY DEF Shifted, Unshifted, Chars
<1>2. PICK s, u : s = Shifted(k) /\ u = Unshifted(k)
  OBVIOUS
<1> QED BY <1>1, <1>2, Zenon DEF GetAscii

LEMMA NoCharIsNone == NoChar \notin Chars
BY DEF NoChar, Chars, Newline

-----------------------------------------------------------------------------
(* The first newline of a buffer                                           *)
LEMMA LeastOf ==
    ASSUME NEW T, T \subseteq Nat, T # {}
    PROVE  \E x \in T : \A y \in T : x <= y
<1>1. IsWellFoundedOn(OpToRel(<, Nat), Nat)
  BY NatLessThanWellFounded
<1>2. PICK x \in T : \A y \in T : ~(<<y, x>> \in OpToRel(<, Nat))
  BY <1>1, WFMin
<1>3. \A y \in T : ~(y < x)
  BY <1>2 DEF OpToRel
<1> QED BY <1>3

IsFirst(b, n) == n \in 1 .. Len(b) /\ b[n] = Newline /\ \A j \in 1 .. n - 1 : b[j] # Newline

LEMMA FirstIs ==
    ASSUME NEW b \in Seq(Chars), NEW n, IsFirst(b, n)
    PROVE  FirstNewline(b) = n - 1
<1> DEFINE at == {i \in DOMAIN b : b[i] = Newline}
<1>1. DOMAIN b = 1 .. Len(b)
  BY LenProperties
<1>2. n \in at /\ \A j \in at : n <= j
  BY <1>1 DEF IsFirst
<1>3. \A i \in at : (\A j \in at : i <= j) => i = n
  BY <1>1, <1>2
<1>4. (CHOOSE i \in at : \A j \in at : i <= j) = n
  BY <1>2, <1>3, Zenon
<1>5. at # {}
  BY <1>2
<1> HIDE DEF at
<1>6. FirstNewline(b) = (CHOOSE i \in at : \A j \in at : i <= j) - 1
  BY <1>5 DEF FirstNewline, at
<1> QED BY <1>4, <1>6

LEMMA NoneFirst ==
    ASSUME NEW b \in Seq(Chars), \A j \in 1 .. Len(b) : b[j] # Newline
    PROVE  FirstNewline(b) = -1
<1>1. {i \in DOMAIN b : b[i] = Newline} = {}
  BY LenProperties
<1> QED BY <1>1 DEF FirstNewline

LEMMA FirstOrNone ==
    ASSUME NEW b \in Seq(Chars)
    PROVE  \/ \E n : IsFirst(b, n) /\ FirstNewline(b) = n - 1
           \/ (\A j \in 1 .. Len(b) : b[j] # Newline) /\ FirstNewline(b) = -1
<1>1. CASE \A j \in 1 .. Len(b) : b[j] # Newline
  BY <1>1, NoneFirst
<1>2. CASE \E j \in 1 .. Len(b) : b[j] = Newline
  <2>1. PICK n \in {i \in 1 .. Len(b) : b[i] = Newline} :
             \A j \in {i \in 1 .. Len(b) : b[i] = Newline} : n <= j
    <3>1. /\ {i \in 1 .. Len(b) : b[i] = Newline} \subseteq Nat
          /\ {i \in 1 .. Len(b) : b[i] = Newline} # {}
      BY <1>2
    <3> QED BY <3>1, LeastOf
  <2>2. IsFirst(b, n)
    <3>1. Len(b) \in Nat
      BY LenProperties
    <3> QED BY <2>1, <3>1 DEF IsFirst
  <2> QED BY <2>2, FirstIs
<1> QED BY <1>1, <1>2

\* add_char keeps newline_pos at the first newline.
LEMMA FirstAppended ==
    ASSUME NEW b \in Seq(Chars), NEW c \in Chars
    PROVE  FirstNewline(Append(b, c)) =
             IF c = Newline /\ FirstNewline(b) = -1 THEN Len(b) ELSE FirstNewline(b)
<1>1. PICK s : s = Append(b, c)
  OBVIOUS
<1>2. /\ s \in Seq(Chars) /\ Len(s) = Len(b) + 1 /\ Len(b) \in Nat
      /\ \A i \in 1 .. Len(b) : s[i] = b[i]
      /\ s[Len(b) + 1] = c
  BY <1>1, AppendProperties
<1>3. CASE \E n : IsFirst(b, n) /\ FirstNewline(b) = n - 1
  <2>1. PICK n : IsFirst(b, n) /\ FirstNewline(b) = n - 1
    BY <1>3
  <2>2. IsFirst(s, n)
    BY <1>2, <2>1 DEF IsFirst
  <2>3. FirstNewline(s) = n - 1
    BY <1>2, <2>2, FirstIs
  <2>4. n - 1 # -1
    BY <1>2, <2>1 DEF IsFirst
  <2> QED BY <1>1, <2>1, <2>3, <2>4
<1>4. CASE (\A j \in 1 .. Len(b) : b[j] # Newline) /\ FirstNewline(b) = -1 /\ c = Newline
  <2>1. IsFirst(s, Len(b) + 1)
    BY <1>2, <1>4 DEF IsFirst
  <2>2. FirstNewline(s) = Len(b) + 1 - 1
    BY <1>2, <2>1, FirstIs
  <2> QED BY <1>1, <1>2, <1>4, <2>2
<1>5. CASE (\A j \in 1 .. Len(b) : b[j] # Newline) /\ FirstNewline(b) = -1 /\ c # Newline
  <2>1. \A j \in 1 .. Len(s) : s[j] # Newline
    BY <1>2, <1>5
  <2>2. FirstNewline(s) = -1
    BY <1>2, <2>1, NoneFirst
  <2> QED BY <1>1, <1>5, <2>2
<1> QED BY <1>3, <1>4, <1>5, FirstOrNone

-----------------------------------------------------------------------------
(* Between press and interrupt: the invariant                              *)
With(s, c) == IF c = NoChar THEN s ELSE Append(s, c)
Text == tDelivered \o tBuffer
InStep == kPressed \ {"pause"} = kPhys /\ kLocks = kRefLocks /\ kTyped = Text
Pressing(k) ==
    /\ kQueue = MakeCode[k]
    /\ kPhys = (kPressed \cup {k}) \ {"pause"}
    /\ kRefLocks = Toggle(kLocks, k)
    /\ kTyped = With(Text, GetAscii(k, kPressed \cup {k}, Toggle(kLocks, k)))
Breaking(k) ==
    /\ k # "pause" /\ kQueue = BreakCode(k)
    /\ kPhys = (kPressed \ {k}) \ {"pause"}
    /\ kRefLocks = kLocks /\ kTyped = Text

\* The controller holds nothing, and the driver is in step with the fingers, or
\* it holds one code, with which it will be.
KeysInv ==
    /\ tBuffer \in Seq(Chars) /\ tDelivered \in Seq(Chars)
    /\ tNewline = FirstNewline(tBuffer)
    /\ \/ kQueue = <<>> /\ InStep
       \/ \E k \in KeysUsed : Pressing(k) \/ Breaking(k)

LEMMA KeysStart == ConsoleInit => KeysInv
<1> SUFFICES ASSUME ConsoleInit PROVE KeysInv
  OBVIOUS
<1>1. tBuffer \in Seq(Chars) /\ tDelivered \in Seq(Chars)
  BY DEF ConsoleInit
<1>2. tNewline = FirstNewline(tBuffer)
  <2>1. \A j \in 1 .. Len(tBuffer) : tBuffer[j] # Newline
    BY DEF ConsoleInit
  <2> QED BY <1>1, <2>1, NoneFirst DEF ConsoleInit
<1>3. kQueue = <<>> /\ InStep
  <2>1. tDelivered \o tBuffer = <<>>
    BY ConcatEmptySeq DEF ConsoleInit
  <2> QED BY <2>1 DEF ConsoleInit, InStep, Text
<1> QED BY <1>1, <1>2, <1>3 DEF KeysInv

LEMMA CodesAreSeqs ==
    ASSUME NEW q, IsCode(q)
    PROVE  q # <<>> /\ <<>> \o q = q
<1>1. Len(q) \in 1 .. 8 /\ q = [i \in 1 .. Len(q) |-> q[i]]
  BY DEF IsCode
<1>2. PICK n, Q : n = Len(q) /\ Q = {q[i] : i \in 1 .. n}
  OBVIOUS
<1>3. q \in [1 .. n -> Q]
  BY ONLY <1>1, <1>2
<1>4. q \in Seq(Q)
  <2>1. n \in Nat
    BY <1>1, <1>2
  <2> QED BY <1>3, <2>1
<1>5. q # <<>>
  BY <1>1
<1> QED BY <1>4, <1>5, ConcatEmptySeq

LEMMA PressFollows ==
    ASSUME KeysInv, KCareful = TRUE, NEW k \in KeysUsed, PressKey(k) \/ RepeatKey(k)
    PROVE  KeysInv'
<1>1. k \in DOMAIN MakeCode
  BY ConsoleAssumption
<1>2. kQueue = <<>> /\ InStep
  <2>1. kQueue = <<>>
    BY DEF PressKey, RepeatKey, CanSend, Slow
  <2>2. \A j \in KeysUsed : MakeCode[j] # <<>> /\ (j # "pause" => BreakCode(j) # <<>>)
    BY ConsoleAssumption, Makes, Breaks, CodesAreSeqs
  <2> QED BY <2>1, <2>2 DEF KeysInv, Pressing, Breaking
<1>3. kQueue' = MakeCode[k]
  BY <1>1, <1>2, Makes, CodesAreSeqs DEF PressKey, RepeatKey, Sends
<1>4. UNCHANGED <<kPressed, kLocks, tBuffer, tDelivered, tNewline>>
  BY DEF PressKey, RepeatKey, Sends
<1>5. kTyped' = With(Text, GetAscii(k, kPressed \cup {k}, Toggle(kLocks, k)))
  <2>1. MeantBy(k) = GetAscii(k, kPressed \cup {k}, Toggle(kLocks, k))
    BY <1>2, MeansAscii DEF InStep
  <2> QED BY <1>2, <2>1 DEF PressKey, RepeatKey, Typed, With, InStep
<1>6. kPhys' = (kPressed \cup {k}) \ {"pause"} /\ kRefLocks' = Toggle(kLocks, k)
  <2>1. CASE PressKey(k)
    <3>1. kPhys' = (kPressed \cup {k}) \ {"pause"}
      BY <1>2, <2>1 DEF PressKey, InStep
    <3> QED BY <1>2, <2>1, <3>1 DEF PressKey, InStep
  <2>2. CASE RepeatKey(k)
    <3>1. kPhys' = (kPressed \cup {k}) \ {"pause"}
      BY <1>2, <2>2 DEF RepeatKey, InStep
    <3> QED BY <1>2, <2>2, <3>1 DEF RepeatKey, InStep, Toggle
  <2> QED BY <2>1, <2>2
<1>7. Pressing(k)'
  BY <1>3, <1>4, <1>5, <1>6 DEF Pressing, Text
<1> QED BY <1>4, <1>7 DEF KeysInv

LEMMA ReleaseFollows ==
    ASSUME KeysInv, KCareful = TRUE, NEW k \in KeysUsed, ReleaseKey(k)
    PROVE  KeysInv'
<1>1. k \in DOMAIN MakeCode
  BY ConsoleAssumption
<1>2. kQueue = <<>> /\ InStep
  <2>1. kQueue = <<>>
    BY DEF ReleaseKey, CanSend, Slow
  <2>2. \A j \in KeysUsed : MakeCode[j] # <<>> /\ (j # "pause" => BreakCode(j) # <<>>)
    BY ConsoleAssumption, Makes, Breaks, CodesAreSeqs
  <2> QED BY <2>1, <2>2 DEF KeysInv, Pressing, Breaking
<1>3. k # "pause" /\ k \in kPhys
  BY <1>2 DEF ReleaseKey, InStep
<1>4. kQueue' = BreakCode(k)
  BY <1>1, <1>2, <1>3, Breaks, CodesAreSeqs DEF ReleaseKey, Sends
<1>5. UNCHANGED <<kPressed, kLocks, tBuffer, tDelivered, tNewline, kTyped, kRefLocks>>
  BY DEF ReleaseKey, Sends
<1>6. kPhys' = (kPressed \ {k}) \ {"pause"}
  BY <1>2 DEF ReleaseKey, InStep
<1>7. Breaking(k)'
  BY <1>2, <1>3, <1>4, <1>5, <1>6 DEF Breaking, Text, InStep
<1> QED BY <1>5, <1>7 DEF KeysInv

\* One interrupt takes the whole code, and the driver is in step again.
LEMMA ReadFollows == ASSUME KeysInv, ReadKey PROVE KeysInv'
<1>1. PICK k \in KeysUsed : Pressing(k) \/ Breaking(k)
  BY DEF KeysInv, ReadKey
<1>2. k \in DOMAIN MakeCode /\ k # "inv"
  BY ConsoleAssumption DEF MakeCode
<1>3. kQueue' = <<>> /\ UNCHANGED <<kPhys, kRefLocks, tDelivered, kTyped>>
  BY DEF ReadKey
<1>4. CASE Pressing(k)
  <2>1. DecodeSc2(Bytes8(CodeLength)) = [key |-> k, down |-> TRUE]
    BY <1>2, <1>4, Makes, CodeRead DEF Pressing
  <2> DEFINE c == GetAscii(k, kPressed \cup {k}, Toggle(kLocks, k))
  <2>2. /\ kPressed' = kPressed \cup {k} /\ kLocks' = Toggle(kLocks, k)
        /\ IF c = NoChar THEN UNCHANGED <<tBuffer, tNewline, screenVars>> ELSE AddChar(c)
    BY <1>2, <2>1 DEF ReadKey
  <2>3. c \in Chars \cup {NoChar}
    BY AsciiChars
  <2>4. kTyped = With(Text, c)
    BY <1>4 DEF Pressing
  <2> HIDE DEF c
  <2>5. tBuffer' \in Seq(Chars) /\ tNewline' = FirstNewline(tBuffer') /\ kTyped = tDelivered \o tBuffer'
    <3>1. CASE c = NoChar
      BY <2>2, <2>4, <3>1 DEF KeysInv, With, Text
    <3>2. CASE c # NoChar
      <4>1. c \in Chars /\ tBuffer' = Append(tBuffer, c)
            /\ tNewline' = IF c = Newline /\ tNewline = -1 THEN Len(tBuffer) ELSE tNewline
        BY <2>2, <2>3, <3>2 DEF AddChar
      <4>2. tBuffer' \in Seq(Chars) /\ tNewline' = FirstNewline(tBuffer')
        BY <4>1, AppendProperties, FirstAppended DEF KeysInv
      <4>3. kTyped = Append(tDelivered \o tBuffer, c)
        BY <2>4, <3>2 DEF With, Text
      <4>4. Append(tDelivered \o tBuffer, c) = tDelivered \o Append(tBuffer, c)
        <5>1. PICK s, b, one : s = tDelivered /\ b = tBuffer /\ one = <<c>>
          OBVIOUS
        <5>2. s \in Seq(Chars) /\ b \in Seq(Chars) /\ one \in Seq(Chars)
          BY <4>1, <5>1 DEF KeysInv
        <5>3. s \o b \in Seq(Chars)
          BY <5>2, ConcatProperties
        <5>4. Append(s \o b, c) = (s \o b) \o one /\ Append(b, c) = b \o one
          BY <4>1, <5>1, <5>2, <5>3, AppendIsConcat
        <5>5. (s \o b) \o one = s \o (b \o one)
          BY <5>2, ConcatAssociative
        <5> QED BY <5>1, <5>4, <5>5
      <4> QED BY <4>1, <4>2, <4>3, <4>4
    <3> QED BY <3>1, <3>2
  <2>6. InStep'
    BY <1>3, <1>4, <2>2, <2>5 DEF InStep, Text, Pressing
  <2> QED BY <1>3, <2>5, <2>6 DEF KeysInv
<1>5. CASE Breaking(k)
  <2>1. DecodeSc2(Bytes8(CodeLength)) = [key |-> k, down |-> FALSE]
    BY <1>2, <1>5, Breaks, CodeRead DEF Breaking
  <2>2. /\ kPressed' = kPressed \ {k} /\ kLocks' = kLocks
        /\ UNCHANGED <<tBuffer, tNewline>>
    BY <1>2, <2>1 DEF ReadKey
  <2>3. InStep'
    BY <1>3, <1>5, <2>2 DEF InStep, Text, Breaking
  <2> QED BY <1>3, <2>2, <2>3 DEF KeysInv
<1> QED BY <1>1, <1>4, <1>5

\* A read hands on the start of the buffer and keeps the rest.
LEMMA ReaderFollows ==
    ASSUME KeysInv, NEW count \in ReadCounts, ReadChars(count)
    PROVE  KeysInv'
<1>1. count \in Nat
  BY ConsoleAssumption
<1>2. PICK n : IsFirst(tBuffer, n) /\ tNewline = n - 1
  BY FirstOrNone DEF KeysInv, ReadChars
<1> DEFINE end == IF count = 0 \/ count > tNewline + 1 THEN tNewline + 1 ELSE count
<1>3. PICK e, b : e = end /\ b = tBuffer
  OBVIOUS
<1>4. b \in Seq(Chars) /\ Len(b) \in Nat /\ e \in 1 .. Len(b)
  <2>1. b \in Seq(Chars) /\ Len(b) \in Nat
    BY <1>3, LenProperties DEF KeysInv
  <2> QED BY <1>1, <1>2, <1>3, <2>1 DEF IsFirst
<1>5. /\ tDelivered' = tDelivered \o SubSeq(b, 1, e)
      /\ tBuffer' = SubSeq(b, e + 1, Len(b))
      /\ tNewline' = FirstNewline(tBuffer')
      /\ UNCHANGED keyVars
  BY <1>3 DEF ReadChars
<1>6. SubSeq(b, 1, e) \in Seq(Chars) /\ SubSeq(b, e + 1, Len(b)) \in Seq(Chars)
  <2>1. \A i \in 1 .. e : b[i] \in Chars
    BY <1>4, ElementOfSeq
  <2>2. \A i \in e + 1 .. Len(b) : b[i] \in Chars
    BY <1>4, ElementOfSeq
  <2> QED BY <1>4, <2>1, <2>2, SubSeqProperties
<1>7. SubSeq(b, 1, e) \o SubSeq(b, e + 1, Len(b)) = b
  <2>1. SubSeq(b, 1, e) \o SubSeq(b, e + 1, Len(b)) = SubSeq(b, 1, Len(b))
    BY <1>4, ConcatAdjacentSubSeq
  <2> QED BY <1>4, <2>1, SubSeqFull
<1>8. tDelivered' \in Seq(Chars)
  BY <1>5, <1>6, ConcatProperties DEF KeysInv
<1>9. Text' = Text
  <2>1. PICK s, x, y : s = tDelivered /\ x = SubSeq(b, 1, e) /\ y = SubSeq(b, e + 1, Len(b))
    OBVIOUS
  <2>2. s \in Seq(Chars) /\ x \in Seq(Chars) /\ y \in Seq(Chars)
    BY <1>6, <2>1 DEF KeysInv
  <2>3. (s \o x) \o y = s \o (x \o y)
    BY <2>2, ConcatAssociative
  <2> QED BY <1>3, <1>5, <1>7, <2>1, <2>3 DEF Text
<1>10. (\/ kQueue = <<>> /\ InStep
        \/ \E k \in KeysUsed : Pressing(k) \/ Breaking(k))'
  BY <1>5, <1>9 DEF KeysInv, keyVars, InStep, Pressing, Breaking
<1> QED BY <1>5, <1>6, <1>8, <1>10 DEF KeysInv

LEMMA KeysStep == KCareful = TRUE /\ KeysInv /\ [ConsoleNext]_consoleVars => KeysInv'
<1> SUFFICES ASSUME KCareful = TRUE, KeysInv, [ConsoleNext]_consoleVars PROVE KeysInv'
  OBVIOUS
<1>1. ASSUME UNCHANGED <<kPhys, kRefLocks, kQueue, kPressed, kLocks, kTyped,
                         tBuffer, tNewline, tDelivered>>
      PROVE  KeysInv'
  BY <1>1 DEF KeysInv, InStep, Pressing, Breaking, Text
<1>2. CASE \E st, p1, p2, t1, t2 \in BOOLEAN : Ps2Boot(st, p1, p2, t1, t2)
  BY <1>1, <1>2 DEF Ps2Boot
<1>3. CASE \E k \in KeysUsed : PressKey(k) \/ RepeatKey(k) \/ ReleaseKey(k)
  BY <1>3, PressFollows, ReleaseFollows
<1>4. CASE ReadKey
  BY <1>4, ReadFollows
<1>5. CASE \E n \in ReadCounts : ReadChars(n)
  BY <1>5, ReaderFollows
<1>6. CASE \E c \in Printed : PrintChar(c)
  BY <1>1, <1>6 DEF PrintChar
<1>7. CASE UNCHANGED consoleVars
  BY <1>1, <1>7 DEF consoleVars
<1> QED BY <1>2, <1>3, <1>4, <1>5, <1>6, <1>7 DEF ConsoleNext

\* A user who waits for the interrupt of a key before touching the next finds the
\* driver in step: keys held, locks and characters, whatever is read meanwhile.
THEOREM KeysFollowed ==
    ASSUME KCareful = TRUE
    PROVE  ConsoleSpec => []KeysFaithful
<1>1. KeysInv => KeysFaithful
  <2>1. \A j \in KeysUsed : MakeCode[j] # <<>> /\ (j # "pause" => BreakCode(j) # <<>>)
    BY ConsoleAssumption, Makes, Breaks, CodesAreSeqs
  <2> QED BY <2>1 DEF KeysInv, KeysFaithful, InStep, Pressing, Breaking, Text
<1>2. KeysInv /\ [ConsoleNext]_consoleVars => KeysInv'
  BY KeysStep
<1> QED BY <1>1, <1>2, KeysStart, PTL DEF ConsoleSpec
-----------------------------------------------------------------------------
(* The screen.  Cell At(r, c) is column c of row r, both from 0.  The cells  *)
(* are read only through the order of these places, so that no step but      *)
(* those of the next lemmas multiplies.                                      *)
At(r, c) == r * Width + c
Lines == 0 .. Height - 1
Columns == 0 .. Width - 1

LEMMA Dimensions == Width \in Nat /\ Width > 0 /\ Height \in Nat /\ Height > 1
BY ConsoleAssumption

LEMMA AtMoves ==
    ASSUME NEW r \in Int, NEW c \in Int
    PROVE  /\ At(r, c) \in Int
           /\ At(r + 1, c) = At(r, c) + Width
           /\ At(r - 1, c) = At(r, c) - Width
           /\ At(r, c) = At(r, 0) + c
           /\ (r \in Nat /\ c \in Nat => At(r, c) \in Nat)
<1>1. r * Width \in Int /\ (r + 1) * Width = r * Width + Width /\ (r - 1) * Width = r * Width - Width
  BY Dimensions
<1>2. r \in Nat => r * Width \in Nat
  BY Dimensions
<1> QED BY <1>1, <1>2, Dimensions DEF At

\* Places are ordered by row and then by column.
LEMMA AtBelow ==
    ASSUME NEW r \in Int, NEW q \in Int, NEW c \in Columns, NEW d \in Columns, r < q
    PROVE  At(r, c) < At(q, d)
<1>1. PICK k \in Nat : q = r + 1 + k
  <2>1. q - r - 1 \in Nat
    OBVIOUS
  <2> QED BY <2>1
<1>2. q * Width = r * Width + Width + k * Width
  BY <1>1, Dimensions
<1>3. k * Width \in Nat /\ r * Width \in Int
  BY <1>1, Dimensions
<1> QED BY <1>2, <1>3, Dimensions DEF At, Columns

LEMMA AtOnce ==
    ASSUME NEW r \in Int, NEW q \in Int, NEW c \in Columns, NEW d \in Columns, At(r, c) = At(q, d)
    PROVE  r = q /\ c = d
<1>1. At(r, c) \in Int /\ At(q, d) \in Int
  BY AtMoves DEF Columns
<1>2. ~(r < q)
  BY <1>1, AtBelow
<1>3. ~(q < r)
  BY <1>1, AtBelow
<1>4. r = q
  BY <1>2, <1>3
<1>5. c \in Int /\ d \in Int
  BY DEF Columns
<1>6. At(r, c) = At(r, 0) + c /\ At(r, d) = At(r, 0) + d /\ At(r, 0) \in Int
  BY <1>5, AtMoves
<1> QED BY <1>4, <1>5, <1>6

LEMMA RowAndColumn ==
    ASSUME NEW i \in Nat
    PROVE  i \div Width \in Int /\ i % Width \in Columns /\ i = At(i \div Width, i % Width)
<1>0. /\ i \div Width \in Nat /\ i % Width \in 0 .. Width - 1
      /\ i = Width * (i \div Width) + (i % Width)
  BY ConsoleAssumption
<1>1. PICK q, d : q = i \div Width /\ d = i % Width
  OBVIOUS
<1>2. q \in Int /\ d \in 0 .. Width - 1 /\ i = Width * q + d
  BY <1>0, <1>1
<1>3. q * Width = Width * q
  BY <1>2, Dimensions
<1> QED BY <1>1, <1>2, <1>3 DEF Columns, At

LEMMA AtWhere ==
    ASSUME NEW r \in Nat, NEW c \in Columns
    PROVE  At(r, c) \div Width = r /\ At(r, c) % Width = c
<1>1. PICK i : i = At(r, c)
  OBVIOUS
<1>2. i \in Nat
  BY <1>1, AtMoves DEF Columns
<1>3. PICK q, d : q = i \div Width /\ d = i % Width
  OBVIOUS
<1>4. q \in Int /\ d \in Columns /\ i = At(q, d)
  BY <1>2, <1>3, RowAndColumn
<1>5. q = r /\ c = d
  <2>1. r \in Int /\ At(r, c) = At(q, d)
    BY <1>1, <1>4
  <2> QED BY <1>4, <2>1, AtOnce
<1> QED BY <1>1, <1>3, <1>5

LEMMA CellIsAt ==
    ASSUME NEW i \in Cells
    PROVE  \E r \in Lines, c \in Columns : i = At(r, c)
<1>1. PICK q, d : q = i \div Width /\ d = i % Width
  OBVIOUS
<1>2. i \in Nat /\ i < Width * Height
  BY Dimensions DEF Cells
<1>3. q \in Int /\ d \in Columns /\ i = At(q, d)
  BY <1>1, <1>2, RowAndColumn
<1>4. Width * Height = At(Height, 0)
  BY Dimensions DEF At
<1>5. 0 \in Columns
  BY Dimensions DEF Columns
<1>6. q < Height
  <2>1. PICK e : e = At(Height, 0) /\ i < e
    BY <1>2, <1>4
  <2>2. e \in Int
    BY <2>1, AtMoves, Dimensions
  <2>3. Height < q => e < i
    BY <1>3, <1>5, <2>1, AtBelow, Dimensions
  <2>4. q = Height => i >= e
    BY <1>3, <2>1, AtMoves, Dimensions DEF Columns
  <2>5. Height \in Int
    BY Dimensions
  <2> QED BY ONLY <1>2, <1>3, <2>1, <2>2, <2>3, <2>4, <2>5
<1>7. q >= 0
  <2>1. q < 0 => At(q, d) < At(0, 0)
    BY <1>3, <1>5, AtBelow
  <2>2. At(0, 0) = 0
    BY Dimensions DEF At
  <2> QED BY <1>2, <1>3, <2>1, <2>2
<1> QED BY <1>3, <1>6, <1>7, Dimensions DEF Lines

LEMMA AtIsCell ==
    ASSUME NEW r \in Int, NEW c \in Columns
    PROVE  At(r, c) \in Cells <=> r \in Lines
<1>1. Width * Height = At(Height, 0) /\ At(0, 0) = 0
  BY Dimensions DEF At
<1>2. 0 \in Columns
  BY Dimensions DEF Columns
<1>3. r < Height => At(r, c) < At(Height, 0)
  BY <1>2, AtBelow, Dimensions
<1>4. r >= Height => At(r, c) >= At(Height, 0)
  <2>1. r > Height => At(r, c) > At(Height, 0)
    BY <1>2, AtBelow, Dimensions
  <2>2. r = Height => At(r, c) >= At(Height, 0)
    <3>1. c \in Nat /\ c \in Int /\ 0 \in Int
      BY DEF Columns
    <3>2. At(r, c) = At(r, 0) + c /\ At(r, 0) \in Int
      BY <3>1, AtMoves
    <3>3. At(r, c) >= At(r, 0)
      BY ONLY <3>1, <3>2
    <3> QED BY ONLY <3>3
  <2>3. At(r, c) \in Int /\ At(Height, 0) \in Int
    BY <1>2, AtMoves, Dimensions DEF Columns
  <2> QED BY <2>1, <2>2, <2>3, Dimensions
<1>5. r < 0 => At(r, c) < 0
  BY <1>1, <1>2, AtBelow
<1>6. r >= 0 => At(r, c) >= 0
  BY AtMoves DEF Columns
<1>7. At(r, c) \in Int /\ At(Height, 0) \in Int
  BY <1>2, AtMoves, Dimensions DEF Columns
<1> QED BY <1>1, <1>3, <1>4, <1>5, <1>6, <1>7, Dimensions DEF Cells, Lines

-----------------------------------------------------------------------------
(* What the operators of the screen leave in each place                    *)
LEMMA ScrolledAt ==
    ASSUME NEW b, NEW r \in Lines, NEW c \in Columns
    PROVE  Scrolled(b)[At(r, c)] = IF r + 1 \in Lines THEN b[At(r + 1, c)] ELSE NoChar
<1>1. r \in Int /\ c \in Int
  BY DEF Lines, Columns
<1>2. PICK i, j : i = At(r, c) /\ j = At(r + 1, c)
  OBVIOUS
<1>3. i \in Cells /\ (j \in Cells <=> r + 1 \in Lines) /\ j = i + Width
  <2>1. r + 1 \in Int
    BY <1>1
  <2>2. At(r, c) \in Cells
    BY <1>1, AtIsCell
  <2>3. At(r + 1, c) \in Cells <=> r + 1 \in Lines
    BY <2>1, AtIsCell
  <2> QED BY <1>1, <1>2, <2>2, <2>3, AtMoves
<1>4. Scrolled(b)[i] = IF j \in Cells THEN b[j] ELSE NoChar
  BY <1>3 DEF Scrolled
<1> QED BY <1>2, <1>3, <1>4

LEMMA AfterNone ==
    ASSUME NEW b, NEW p \in Cells, b[p] = NoChar
    PROVE  After(b, p) = 0
<1>1. {i \in Cells : i >= p /\ \A j \in p .. i : b[j] # NoChar} = {}
  BY DEF Cells
<1> QED BY <1>1, FS_EmptySet, Zenon DEF After

\* A line cut where nothing stands is blank from there on.
LEMMA CutLineAt ==
    ASSUME NEW b, NEW r \in Lines, NEW c \in Columns, NEW q \in Lines, NEW d \in Columns
    PROVE  /\ q = r /\ d >= c => CutLine(b, At(r, c), 0)[At(q, d)] = NoChar
           /\ q # r \/ d < c => CutLine(b, At(r, c), 0)[At(q, d)] = b[At(q, d)]
<1>1. r \in Nat /\ c \in Nat /\ q \in Nat /\ d \in Nat /\ 0 \in Columns
  BY Dimensions DEF Lines, Columns
<1>2. PICK p, i, e : p = At(r, c) /\ i = At(q, d) /\ e = At(r + 1, 0)
  OBVIOUS
<1>3. p \in Nat /\ i \in Cells /\ i \in Int /\ e \in Int
  BY <1>1, <1>2, AtIsCell, AtMoves
<1>4. p % Width = c /\ ((p \div Width) + 1) * Width = e
  <2>1. p \div Width = r /\ p % Width = c
    BY <1>1, <1>2, AtWhere
  <2>2. (r + 1) * Width = e
    BY <1>1, <1>2, Dimensions DEF At
  <2> QED BY <2>1, <2>2
<1>5. i \in p .. e - 1 <=> q = r /\ d >= c
  <2>1. q < r => i < p
    BY <1>1, <1>2, AtBelow
  <2>2. r < q => e <= i
    <3>1. r + 1 < q => e < i
      BY <1>1, <1>2, AtBelow
    <3>2. r + 1 = q => e <= i
      BY <1>1, <1>2, AtMoves
    <3> QED BY <1>1, <3>1, <3>2, <1>3
  <2>3. q = r => i < e /\ (p <= i <=> d >= c)
    <3>1. At(r, d) = At(r, 0) + d /\ At(r, c) = At(r, 0) + c /\ At(r, 0) \in Int
      BY <1>1, AtMoves
    <3>2. At(r, d) < At(r + 1, 0)
      BY <1>1, AtBelow
    <3> QED BY <1>1, <1>2, <3>1, <3>2
  <2> QED BY <1>1, <1>3, <2>1, <2>2, <2>3
<1>6. CutLine(b, p, 0)[i] = IF i \in p .. e - 1 THEN NoChar ELSE b[i]
  <2>1. ~(i \in p + (Width - c) .. p + 0 + (Width - c) - 1)
    BY <1>1, <1>3, Dimensions
  <2> QED BY <1>3, <1>4, <2>1, Zenon DEF CutLine
<1>7. /\ q = r /\ d >= c => i \in p .. e - 1
      /\ q # r \/ d < c => ~(i \in p .. e - 1)
  BY <1>1, <1>5
<1> QED BY ONLY <1>2, <1>6, <1>7, Zenon

LEMMA ShiftDownAt ==
    ASSUME NEW b, NEW r \in Int, NEW q \in Lines, NEW d \in Columns
    PROVE  ShiftDown(b, At(r, 0))[At(q, d)] =
             IF q > r THEN b[At(q - 1, d)] ELSE IF q = r THEN NoChar ELSE b[At(q, d)]
<1>1. q \in Int /\ d \in Nat /\ 0 \in Columns
  BY Dimensions DEF Lines, Columns
<1>2. PICK f, i, j : f = At(r, 0) /\ i = At(q, d) /\ j = At(q - 1, d)
  OBVIOUS
<1>3. f \in Int /\ i \in Cells /\ i \in Int /\ j = i - Width /\ f + Width = At(r + 1, 0)
  BY <1>1, <1>2, AtIsCell, AtMoves
<1>4. q > r <=> i >= f + Width
  <2>0. PICK m, g : m = r + 1 /\ g = At(m, 0) /\ m \in Int /\ g = f + Width
    BY <1>3
  <2>1. m < q => g < i
    BY <1>1, <1>2, <2>0, AtBelow
  <2>2. q = m => i >= g
    <3>1. At(m, d) = At(m, 0) + d /\ At(m, 0) \in Int
      BY <1>1, <2>0, AtMoves
    <3> QED BY <1>1, <1>2, <2>0, <3>1
  <2>3. q < m => i < g
    BY <1>1, <1>2, <2>0, AtBelow
  <2>4. g \in Int
    BY <1>3, <2>0, Dimensions
  <2> QED BY <1>1, <1>3, <2>0, <2>1, <2>2, <2>3, <2>4
<1>5. q < r <=> i < f
  <2>1. q < r => i < f
    BY <1>1, <1>2, AtBelow
  <2>2. q > r => i > f
    BY <1>1, <1>2, AtBelow
  <2>3. q = r => i >= f
    BY <1>1, <1>2, AtMoves
  <2> QED BY <1>1, <1>3, <2>1, <2>2, <2>3
<1>6. ShiftDown(b, f)[i] = IF i >= f + Width THEN b[j] ELSE IF i >= f THEN NoChar ELSE b[i]
  BY <1>3 DEF ShiftDown
<1> QED BY <1>1, <1>2, <1>3, <1>4, <1>5, <1>6

Blank(b, r, c) == \A q \in Lines, d \in Columns :
                     q > r \/ (q = r /\ d >= c) => b[At(q, d)] = NoChar

LEMMA ScreenParts ==
    ASSUME NEW b, NEW p
    PROVE  Screen(b, p).cells = b /\ Screen(b, p).cursor = p
BY DEF Screen

\* The last row of the screen is in use when a place in it is.
LEMMA LastRowIs ==
    ASSUME NEW b
    PROVE  LastOccupied(b) <=> \E d \in Columns : b[At(Height - 1, d)] # NoChar
<1>1. PICK h, f, e : h = Height - 1 /\ f = At(h, 0) /\ e = At(h + 1, 0)
  OBVIOUS
<1>2. Width * (Height - 1) = f /\ Width * Height = e
  BY <1>1, Dimensions DEF At
<1>3. h \in Nat /\ f \in Int /\ e = f + Width /\ h + 1 = Height
  BY <1>1, AtMoves, Dimensions
<1>4. ASSUME NEW d \in Columns PROVE At(h, d) = f + d
  BY <1>1, <1>3, AtMoves DEF Columns
<1>5. ASSUME NEW d \in Columns PROVE At(h, d) \in f .. e - 1
  BY <1>3, <1>4, Dimensions DEF Columns
<1>6. ASSUME NEW i \in f .. e - 1 PROVE \E d \in Columns : i = At(h, d)
  <2>1. i - f \in Columns
    BY <1>3, Dimensions DEF Columns
  <2>2. At(h, i - f) = f + (i - f)
    BY <1>4, <2>1
  <2> QED BY <1>3, <2>1, <2>2
<1>7. LastOccupied(b) <=> \E i \in f .. e - 1 : b[i] # NoChar
  BY <1>2 DEF LastOccupied
<1> QED BY <1>1, <1>5, <1>6, <1>7

LEMMA NewLineStays ==
    ASSUME NEW b, NEW r \in Lines, NEW c \in Columns, b[At(r, c)] = NoChar, ~LastOccupied(b)
    PROVE  NewLineAt(Screen(b, At(r, c)), At(r, c)) =
             Screen(CutLine(ShiftDown(b, At(r + 1, 0)), At(r, c), 0), At(r, c))
<1>1. PICK p, e, s : p = At(r, c) /\ e = At(r + 1, 0) /\ s = Screen(b, p)
  OBVIOUS
<1>2. r \in Nat /\ c \in Nat /\ p \in Nat
  BY <1>1, AtMoves DEF Lines, Columns
<1>3. After(b, p) = 0
  BY <1>1, AfterNone, AtIsCell, <1>2
<1>4. p \div Width = r /\ p % Width = c
  BY <1>1, <1>2, AtWhere
<1>5. (((p + 0) \div Width) + 1) * Width = e
  <2>1. (r + 1) * Width = e
    BY <1>1, <1>2, Dimensions DEF At
  <2>2. p + 0 = p
    BY <1>2
  <2> QED BY <1>4, <2>1, <2>2
<1>6. ~((p % Width) + 0 > Width /\ 0 < Width)
  BY <1>2, <1>4, Dimensions DEF Columns
<1>7. s.cells = b /\ s.cursor = p
  BY <1>1, ScreenParts
<1>8. NewLineAt(s, p) = Screen(CutLine(ShiftDown(b, e), p, 0), p)
  BY <1>3, <1>5, <1>6, <1>7, Zenon DEF NewLineAt
<1> QED BY <1>1, <1>8

LEMMA NewLineScrolls ==
    ASSUME NEW b, NEW r \in Lines, NEW c \in Columns, b[At(r, c)] = NoChar, LastOccupied(b), r > 0
    PROVE  NewLineAt(Screen(b, At(r, c)), At(r, c)) =
             Screen(CutLine(ShiftDown(Scrolled(b), At(r, 0)), At(r - 1, c), 0), At(r - 1, c))
<1>1. PICK p, q, e, s : p = At(r, c) /\ q = At(r - 1, c) /\ e = At(r, 0) /\ s = Screen(b, p)
  OBVIOUS
<1>2. r \in Nat /\ c \in Nat /\ p \in Nat /\ q \in Nat /\ q = p - Width /\ r - 1 \in Nat
  <2>1. r \in Nat /\ c \in Nat /\ r - 1 \in Nat
    BY DEF Lines, Columns
  <2> QED BY <1>1, <2>1, AtMoves
<1>3. After(b, p) = 0
  BY <1>1, AfterNone, AtIsCell, <1>2
<1>4. p \div Width = r /\ p % Width = c /\ q \div Width = r - 1
  BY <1>1, <1>2, AtWhere
<1>5. (((q + 0) \div Width) + 1) * Width = e
  <2>1. r * Width = e
    BY <1>1, <1>2, Dimensions DEF At
  <2>2. q + 0 = q /\ (r - 1) + 1 = r
    BY <1>2
  <2> QED BY <1>4, <2>1, <2>2
<1>6. ~((p % Width) + 0 > Width /\ 0 < Width)
  BY <1>2, <1>4, Dimensions DEF Columns
<1>7. s.cells = b /\ s.cursor = p
  BY <1>1, ScreenParts
<1>8. p >= Width /\ ~(p < Width)
  BY <1>2, Dimensions
<1>9. ScrollScreen(s) = Screen(Scrolled(b), q)
  BY <1>2, <1>7, <1>8 DEF ScrollScreen
<1>10. ScrollScreen(s).cells = Scrolled(b) /\ ScrollScreen(s).cursor = q
  BY <1>9, ScreenParts
<1>11. NewLineAt(s, p) = Screen(CutLine(ShiftDown(Scrolled(b), e), q, 0), q)
  BY <1>2, <1>3, <1>5, <1>6, <1>7, <1>8, <1>10, Zenon DEF NewLineAt
<1> QED BY <1>1, <1>11

\* Above the bottom row a newline moves the cursor and no character.
LEMMA NewLineLow ==
    ASSUME NEW b, NEW r \in Lines, NEW c \in Columns, r + 1 \in Lines, Blank(b, r, c), NEW t,
           t = NewLine(Screen(b, At(r, c)))
    PROVE  /\ DOMAIN t.cells = Cells
           /\ \A q \in Lines, d \in Columns : t.cells[At(q, d)] = b[At(q, d)]
           /\ t.cursor = At(r + 1, 0)
<1>1. r \in Nat /\ c \in Nat /\ r + 1 < Height /\ Height - 1 \in Lines /\ Height - 1 > r
  BY Dimensions DEF Lines, Columns
<1>2. b[At(r, c)] = NoChar
  BY <1>1 DEF Blank
<1>3. ~LastOccupied(b)
  <2>1. \A d \in Columns : b[At(Height - 1, d)] = NoChar
    BY <1>1 DEF Blank
  <2> QED BY <2>1, LastRowIs
<1>4. PICK p, e, f, u : /\ p = At(r, c) /\ e = At(r + 1, 0) /\ f = ShiftDown(b, e)
                        /\ u = Screen(CutLine(f, p, 0), p)
  OBVIOUS
<1>5. NewLineAt(Screen(b, p), p) = u /\ u.cursor = p /\ u.cells = CutLine(f, p, 0)
  BY <1>2, <1>3, <1>4, NewLineStays, ScreenParts
<1>6. p \div Width = r /\ (r + 1) * Width = e
  BY <1>1, <1>4, AtWhere, Dimensions DEF At
<1>7. t = Screen(u.cells, e)
  <2>1. Screen(b, p).cursor = p
    BY ScreenParts
  <2> QED BY <1>1, <1>4, <1>5, <1>6, <2>1, Zenon DEF NewLine
<1>8. t.cells = CutLine(f, p, 0) /\ t.cursor = e
  BY <1>5, <1>7, ScreenParts
<1>9. DOMAIN t.cells = Cells
  BY <1>8 DEF CutLine
<1>10. ASSUME NEW q \in Lines, NEW d \in Columns
       PROVE  t.cells[At(q, d)] = b[At(q, d)]
  <2>1. q \in Int /\ d \in Int /\ r + 1 \in Int
    BY <1>1 DEF Lines, Columns
  <2>2. t.cells[At(q, d)] = IF q = r /\ d >= c THEN NoChar ELSE f[At(q, d)]
    <3>1. /\ q = r /\ d >= c => CutLine(f, p, 0)[At(q, d)] = NoChar
          /\ q # r \/ d < c => CutLine(f, p, 0)[At(q, d)] = f[At(q, d)]
      BY <1>4, CutLineAt
    <3> QED BY <1>1, <1>8, <2>1, <3>1 DEF Columns
  <2>3. f[At(q, d)] = IF q > r + 1 THEN b[At(q - 1, d)] ELSE IF q = r + 1 THEN NoChar ELSE b[At(q, d)]
    BY <1>4, <2>1, ShiftDownAt
  <2>4. q > r + 1 => q - 1 \in Lines /\ q - 1 > r
    BY <1>1 DEF Lines
  <2>5. /\ q > r => b[At(q, d)] = NoChar
        /\ q = r /\ d >= c => b[At(q, d)] = NoChar
    BY DEF Blank
  <2>6. ASSUME q > r + 1 PROVE b[At(q - 1, d)] = NoChar
    <3>1. PICK k \in Lines : k = q - 1 /\ k > r
      BY <2>4, <2>6
    <3>2. b[At(k, d)] = NoChar
      BY <3>1 DEF Blank
    <3> QED BY <3>1, <3>2
  <2> QED BY <1>1, <2>1, <2>2, <2>3, <2>5, <2>6
<1> QED BY <1>4, <1>8, <1>9, <1>10

\* On the bottom row it scrolls.
LEMMA NewLineBottom ==
    ASSUME NEW b, NEW r \in Lines, NEW c \in Columns, r = Height - 1, Blank(b, r, c),
           NEW x \in Columns, b[At(r, x)] # NoChar, NEW t, t = NewLine(Screen(b, At(r, c)))
    PROVE  /\ DOMAIN t.cells = Cells
           /\ \A q \in Lines, d \in Columns :
                t.cells[At(q, d)] = IF q + 1 \in Lines THEN b[At(q + 1, d)] ELSE NoChar
           /\ t.cursor = At(r, 0)
<1>1. r \in Nat /\ c \in Nat /\ r > 0 /\ r - 1 \in Nat /\ r - 1 \in Lines /\ r + 1 = Height
  BY Dimensions DEF Lines, Columns
<1>2. b[At(r, c)] = NoChar
  BY <1>1 DEF Blank
<1>3. LastOccupied(b)
  BY LastRowIs
<1>4. PICK p, g, e, f, u : /\ p = At(r, c) /\ g = At(r - 1, c) /\ e = At(r, 0)
                           /\ f = ShiftDown(Scrolled(b), e)
                           /\ u = Screen(CutLine(f, g, 0), g)
  OBVIOUS
<1>5. NewLineAt(Screen(b, p), p) = u /\ u.cursor = g /\ u.cells = CutLine(f, g, 0)
  BY <1>1, <1>2, <1>3, <1>4, NewLineScrolls, ScreenParts
<1>6. (g \div Width) + 1 = r /\ r * Width = e /\ r < Height
  <2>1. g \div Width = r - 1
    BY <1>1, <1>4, AtWhere
  <2>2. r * Width = e
    BY <1>1, <1>4, Dimensions DEF At
  <2> QED BY <1>1, <2>1, <2>2
<1>7. t = Screen(u.cells, e)
  <2>1. Screen(b, p).cursor = p
    BY ScreenParts
  <2> QED BY <1>4, <1>5, <1>6, <2>1, Zenon DEF NewLine
<1>8. t.cells = CutLine(f, g, 0) /\ t.cursor = e
  BY <1>5, <1>7, ScreenParts
<1>9. DOMAIN t.cells = Cells
  BY <1>8 DEF CutLine
<1>10. ASSUME NEW q \in Lines, NEW d \in Columns
       PROVE  t.cells[At(q, d)] = IF q + 1 \in Lines THEN b[At(q + 1, d)] ELSE NoChar
  <2>1. q \in Int /\ d \in Int /\ r \in Int /\ q <= r
    BY <1>1 DEF Lines, Columns
  <2>2. t.cells[At(q, d)] = IF q = r - 1 /\ d >= c THEN NoChar ELSE f[At(q, d)]
    <3>1. PICK k \in Lines : k = r - 1
      BY <1>1
    <3>2. /\ q = k /\ d >= c => CutLine(f, g, 0)[At(q, d)] = NoChar
          /\ q # k \/ d < c => CutLine(f, g, 0)[At(q, d)] = f[At(q, d)]
      BY <1>4, <3>1, CutLineAt
    <3> QED BY <1>1, <1>8, <2>1, <3>1, <3>2 DEF Columns
  <2>3. f[At(q, d)] = IF q > r THEN Scrolled(b)[At(q - 1, d)]
                      ELSE IF q = r THEN NoChar ELSE Scrolled(b)[At(q, d)]
    BY <1>4, <2>1, ShiftDownAt
  <2>4. Scrolled(b)[At(q, d)] = IF q + 1 \in Lines THEN b[At(q + 1, d)] ELSE NoChar
    BY ScrolledAt
  <2>5. q = r => ~(q + 1 \in Lines)
    BY <1>1 DEF Lines
  <2>6. ASSUME q = r - 1, d >= c PROVE b[At(q + 1, d)] = NoChar
    <3>1. q + 1 = r
      BY <1>1, <2>6
    <3>2. b[At(r, d)] = NoChar
      BY <2>6 DEF Blank
    <3> QED BY <3>1, <3>2
  <2> QED BY <2>1, <2>2, <2>3, <2>4, <2>5, <2>6
<1> QED BY <1>4, <1>8, <1>9, <1>10

\* A character is written at the cursor; in the last place the screen scrolls.
LEMMA PutLow ==
    ASSUME NEW b, NEW p \in Cells, p # Width * Height - 1, NEW x, x # Newline
    PROVE  PutChar(Screen(b, p), x) = Screen([b EXCEPT ![p] = x], p + 1)
<1>1. PICK s, u : s = Screen(b, p) /\ u = Screen([b EXCEPT ![p] = x], p)
  OBVIOUS
<1>2. s.cells = b /\ s.cursor = p /\ u.cells = [b EXCEPT ![p] = x] /\ u.cursor = p
  BY <1>1, ScreenParts, Zenon
<1>3. PutChar(s, x) = Screen(u.cells, u.cursor + 1)
  BY <1>1, <1>2, Zenon DEF PutChar
<1> QED BY <1>1, <1>2, <1>3, Zenon

LEMMA PutLast ==
    ASSUME NEW b, NEW p \in Cells, p = Width * Height - 1, p >= Width, NEW x, x # Newline
    PROVE  PutChar(Screen(b, p), x) = Screen(Scrolled([b EXCEPT ![p] = x]), (p - Width) + 1)
<1>1. PICK g, s, u : g = [b EXCEPT ![p] = x] /\ s = Screen(b, p) /\ u = Screen(g, p)
  OBVIOUS
<1>2. s.cells = b /\ s.cursor = p /\ u.cells = g /\ u.cursor = p
  BY <1>1, ScreenParts, Zenon
<1>3. PICK v : v = Screen(Scrolled(g), p - Width)
  OBVIOUS
<1>4. ScrollScreen(u) = v /\ v.cells = Scrolled(g) /\ v.cursor = p - Width
  BY <1>2, <1>3, ScreenParts, Zenon DEF ScrollScreen
<1>5. PutChar(s, x) = Screen(v.cells, v.cursor + 1)
  BY <1>1, <1>2, <1>4, Zenon DEF PutChar
<1> QED BY <1>1, <1>4, <1>5, Zenon

-----------------------------------------------------------------------------
(* The text on the screen                                                  *)
Glyphs == Chars \cup Printed
Char(rows, r, c) == IF r <= Len(rows) /\ c <= Len(rows[r]) THEN rows[r][c] ELSE NoChar
RowsAbove(n) == IF n > Height THEN n - Height ELSE 0  \* rows scrolled away
CursorRow(n) == n - RowsAbove(n) - 1
Shows(b, a, rows) ==
    \A r \in Lines, c \in Columns : b[At(r, c)] = Char(rows, a + r + 1, c + 1)

\* The cells and the cursor that text of these rows leaves on the screen.
Standing(b, p, rows) ==
    /\ rows \in Seq(Seq(Glyphs)) /\ Len(rows) > 0 /\ Len(rows[Len(rows)]) < Width
    /\ DOMAIN b = Cells
    /\ Shows(b, RowsAbove(Len(rows)), rows)
    /\ p = At(CursorRow(Len(rows)), Len(rows[Len(rows)]))
ScreenInv == Standing(sCells, sCursor, sRows)

LEMMA GlyphsSeen == NoChar \notin Glyphs
<1>1. NoChar \notin Printed
  BY ConsoleAssumption
<1>2. NoChar \notin Chars
  BY DEF NoChar, Chars, Newline
<1> QED BY <1>1, <1>2 DEF Glyphs

LEMMA CursorPlace ==
    ASSUME NEW n \in Nat, n > 0
    PROVE  /\ RowsAbove(n) \in Nat /\ CursorRow(n) \in Lines /\ RowsAbove(n) + CursorRow(n) + 1 = n
           /\ n < Height => CursorRow(n) = n - 1 /\ RowsAbove(n) = 0 /\ RowsAbove(n + 1) = 0
           /\ n >= Height => CursorRow(n) = Height - 1 /\ RowsAbove(n + 1) = RowsAbove(n) + 1
           /\ n >= Height => CursorRow(n + 1) = CursorRow(n)
           /\ n < Height => CursorRow(n + 1) = CursorRow(n) + 1
BY Dimensions DEF RowsAbove, CursorRow, Lines

LEMMA RowsParts ==
    ASSUME NEW b, NEW p, NEW rows, Standing(b, p, rows), NEW n, n = Len(rows), NEW last, last = rows[n]
    PROVE  /\ rows \in Seq(Seq(Glyphs)) /\ n \in Nat /\ n > 0
           /\ last \in Seq(Glyphs) /\ Len(last) \in Columns
           /\ \A i \in 1 .. n : rows[i] \in Seq(Glyphs)
<1>1. rows \in Seq(Seq(Glyphs)) /\ n > 0 /\ Len(last) < Width
  BY DEF Standing
<1>2. n \in Nat /\ \A i \in 1 .. n : rows[i] \in Seq(Glyphs)
  BY <1>1, LenProperties, ElementOfSeq
<1>3. last \in Seq(Glyphs)
  BY <1>1, <1>2
<1>4. Len(last) \in Nat
  BY <1>3, LenProperties
<1> QED BY <1>1, <1>2, <1>3, <1>4, Dimensions DEF Columns

LEMMA CharIn ==
    ASSUME NEW rows, NEW r, NEW c, r <= Len(rows), NEW row, row = rows[r]
    PROVE  Char(rows, r, c) = IF c <= Len(row) THEN row[c] ELSE NoChar
BY Zenon DEF Char

\* Behind the cursor and below it nothing stands.
LEMMA BlankBehind ==
    ASSUME NEW b, NEW p, NEW rows, Standing(b, p, rows)
    PROVE  Blank(b, CursorRow(Len(rows)), Len(rows[Len(rows)]))
<1>1. PICK n, last, a, h, l : /\ n = Len(rows) /\ last = rows[n] /\ a = RowsAbove(n)
                              /\ h = CursorRow(n) /\ l = Len(last)
  OBVIOUS
<1>2. n \in Nat /\ n > 0 /\ l \in Columns
  BY <1>1, RowsParts
<1>3. a \in Nat /\ h \in Lines /\ a + h + 1 = n
  BY <1>1, <1>2, CursorPlace
<1>4. ASSUME NEW q \in Lines, NEW d \in Columns, q > h \/ (q = h /\ d >= l)
      PROVE  b[At(q, d)] = NoChar
  <2>1. b[At(q, d)] = Char(rows, a + q + 1, d + 1)
    BY <1>1 DEF Standing, Shows
  <2>2. q \in Nat /\ d \in Nat /\ h \in Nat /\ l \in Nat
    BY <1>2, <1>3 DEF Lines, Columns
  <2>3. q > h => ~(a + q + 1 <= n)
    BY <1>2, <1>3, <2>2
  <2>4. q = h /\ d >= l => a + q + 1 = n /\ ~(d + 1 <= l)
    BY <1>2, <1>3, <2>2
  <2>5. PICK i, j : i = a + q + 1 /\ j = d + 1
    OBVIOUS
  <2>6. ~(i <= Len(rows) /\ j <= Len(rows[i]))
    BY <1>1, <1>4, <2>3, <2>4, <2>5
  <2> QED BY <2>1, <2>5, <2>6 DEF Char
<1> QED BY <1>1, <1>4 DEF Blank

\* A new row shows nothing.
LEMMA RowAdded ==
    ASSUME NEW rows \in Seq(Seq(Glyphs))
    PROVE  /\ Append(rows, <<>>) \in Seq(Seq(Glyphs)) /\ Len(Append(rows, <<>>)) = Len(rows) + 1
           /\ Append(rows, <<>>)[Len(rows) + 1] = <<>>
           /\ \A r \in Nat, c \in Nat :
                r > 0 /\ c > 0 => Char(Append(rows, <<>>), r, c) = Char(rows, r, c)
<1>0. PICK t : t = Append(rows, <<>>)
  OBVIOUS
<1>1. <<>> \in Seq(Glyphs) /\ Len(<<>>) = 0 /\ Len(rows) \in Nat
  BY LenProperties
<1>2. /\ t \in Seq(Seq(Glyphs)) /\ Len(t) = Len(rows) + 1 /\ t[Len(rows) + 1] = <<>>
      /\ \A i \in 1 .. Len(rows) : t[i] = rows[i]
  BY <1>0, <1>1, AppendProperties
<1>3. ASSUME NEW r \in Nat, NEW c \in Nat, r > 0, c > 0
      PROVE  Char(t, r, c) = Char(rows, r, c)
  <2>1. CASE r <= Len(rows)
    <3>1. t[r] = rows[r] /\ r <= Len(t)
      BY <1>1, <1>2, <1>3, <2>1
    <3> QED BY <2>1, <3>1 DEF Char
  <2>2. CASE r = Len(rows) + 1
    <3>1. ~(c <= Len(t[r])) /\ ~(r <= Len(rows))
      BY <1>1, <1>2, <1>3, <2>2
    <3> QED BY <3>1 DEF Char
  <2>3. CASE r > Len(rows) + 1
    <3>1. ~(r <= Len(t)) /\ ~(r <= Len(rows))
      BY <1>1, <1>2, <2>3
    <3> QED BY <3>1 DEF Char
  <2> QED BY <1>1, <2>1, <2>2, <2>3
<1> QED BY ONLY <1>0, <1>2, <1>3

\* The last row with one more character.
Final(rows) == rows[Len(rows)]
Grown(rows, x) == [rows EXCEPT ![Len(rows)] = Append(Final(rows), x)]
LEMMA RowGrows ==
    ASSUME NEW rows \in Seq(Seq(Glyphs)), Len(rows) > 0, NEW x \in Glyphs
    PROVE  /\ Grown(rows, x) \in Seq(Seq(Glyphs)) /\ Len(Grown(rows, x)) = Len(rows)
           /\ Len(Grown(rows, x)[Len(rows)]) = Len(Final(rows)) + 1
           /\ Char(Grown(rows, x), Len(rows), Len(Final(rows)) + 1) = x
           /\ \A r \in Nat, c \in Nat :
                r > 0 /\ c > 0 /\ (r # Len(rows) \/ c # Len(Final(rows)) + 1)
                  => Char(Grown(rows, x), r, c) = Char(rows, r, c)
<1>0. PICK n, last, m, t : /\ n = Len(rows) /\ last = Final(rows) /\ m = Len(last)
                           /\ t = Grown(rows, x) /\ last = rows[n]
  BY DEF Final
<1>1. n \in Nat /\ n \in 1 .. n
  BY <1>0, LenProperties
<1>2. last \in Seq(Glyphs) /\ Len(last) \in Nat
  <2>1. last \in Seq(Glyphs)
    BY <1>0, <1>1, ElementOfSeq
  <2> QED BY <2>1, LenProperties
<1>3. PICK g : g = Append(last, x)
  OBVIOUS
<1>4. /\ g \in Seq(Glyphs) /\ Len(g) = m + 1 /\ g[m + 1] = x /\ m \in Nat
      /\ \A j \in 1 .. m : g[j] = last[j]
  BY <1>0, <1>2, <1>3, AppendProperties
<1>5. t = [rows EXCEPT ![n] = g]
  BY <1>0, <1>3 DEF Grown
<1>6. /\ t \in Seq(Seq(Glyphs)) /\ Len(t) = n /\ t[n] = g
      /\ \A i \in 1 .. n : i # n => t[i] = rows[i]
  <2>1. PICK S : S = Seq(Glyphs)
    OBVIOUS
  <2>2. rows \in Seq(S) /\ n \in 1 .. Len(rows) /\ g \in S
    BY <1>0, <1>1, <1>4, <2>1
  <2>3. PICK u : u = [rows EXCEPT ![n] = g]
    OBVIOUS
  <2>4. u \in Seq(S) /\ Len(u) = Len(rows)
        /\ \A j \in 1 .. Len(rows) : u[j] = IF j = n THEN g ELSE rows[j]
    BY ONLY <2>2, <2>3, ExceptSeq
  <2>5. u[n] = g
    BY <1>0, <1>1, <2>4
  <2> QED BY <1>0, <1>1, <1>5, <2>1, <2>3, <2>4, <2>5
<1>7. Char(t, n, m + 1) = x
  BY <1>1, <1>4, <1>6 DEF Char
<1>8. ASSUME NEW r \in Nat, NEW c \in Nat, r > 0, c > 0, r # n \/ c # m + 1
      PROVE  Char(t, r, c) = Char(rows, r, c)
  <2>1. CASE r > n
    <3>1. ~(r <= Len(t)) /\ ~(r <= Len(rows))
      BY <1>0, <1>1, <1>6, <2>1
    <3> QED BY <3>1 DEF Char
  <2>2. CASE r < n
    <3>1. t[r] = rows[r] /\ r <= Len(t) /\ r <= Len(rows)
      BY <1>0, <1>1, <1>6, <1>8, <2>2
    <3>2. PICK u : u = rows[r]
      OBVIOUS
    <3>3. Char(t, r, c) = IF c <= Len(u) THEN u[c] ELSE NoChar
      BY ONLY <3>1, <3>2, CharIn, Zenon
    <3>4. Char(rows, r, c) = IF c <= Len(u) THEN u[c] ELSE NoChar
      BY ONLY <3>1, <3>2, CharIn, Zenon
    <3> QED BY ONLY <3>3, <3>4
  <2>3. CASE r = n
    <3>1. c # m + 1
      BY <1>8, <2>3
    <3>2. c <= m + 1 <=> c <= m
      BY <1>4, <3>1
    <3>3. c <= m => g[c] = last[c]
      BY <1>4, <1>8
    <3>4. Char(t, n, c) = IF c <= m + 1 THEN g[c] ELSE NoChar
      <4>1. n <= Len(t)
        BY <1>1, <1>6
      <4>2. g = t[n] /\ Len(g) = m + 1
        BY <1>4, <1>6
      <4>3. Char(t, n, c) = IF c <= Len(g) THEN g[c] ELSE NoChar
        BY ONLY <4>1, <4>2, CharIn, Zenon
      <4> QED BY ONLY <4>2, <4>3, Zenon
    <3>5. Char(rows, n, c) = IF c <= m THEN last[c] ELSE NoChar
      <4>1. n <= Len(rows)
        BY <1>0, <1>1
      <4> QED BY ONLY <1>0, <4>1, CharIn, Zenon
    <3> QED BY <2>3, <3>2, <3>3, <3>4, <3>5
  <2> QED BY <1>1, <2>1, <2>2, <2>3
<1> QED BY ONLY <1>0, <1>4, <1>6, <1>7, <1>8

LEMMA AtNext ==
    ASSUME NEW h \in Int, NEW l \in Int
    PROVE  /\ At(h, l) + 1 = At(h, l + 1)
           /\ l = Width - 1 => At(h, l) + 1 = At(h + 1, 0)
<1>1. At(h, l) = At(h, 0) + l /\ At(h, l + 1) = At(h, 0) + (l + 1) /\ At(h, 0) \in Int
  BY AtMoves
<1>2. At(h + 1, 0) = At(h, 0) + Width
  BY AtMoves
<1> QED BY <1>1, <1>2, Dimensions

LEMMA LastPlace ==
    ASSUME NEW h \in Lines, NEW l \in Columns
    PROVE  /\ At(h, l) = Width * Height - 1 <=> h = Height - 1 /\ l = Width - 1
           /\ At(h, l) = Width * Height - 1 => At(h, l) >= Width
<1>1. PICK k, m : k = Height - 1 /\ m = Width - 1
  OBVIOUS
<1>2. k \in Int /\ m \in Int /\ m \in Columns /\ k + 1 = Height
  BY <1>1, Dimensions DEF Columns
<1>3. At(k, m) + 1 = At(Height, 0) /\ Width * Height = At(Height, 0) /\ At(k, m) \in Int
  BY <1>1, <1>2, AtNext, AtMoves, Dimensions DEF At
<1>4. At(k, m) = Width * Height - 1
  BY <1>3
<1>5. h \in Int /\ l \in Int
  BY DEF Lines, Columns
<1>6. At(h, l) = At(k, m) <=> h = k /\ l = m
  BY <1>2, <1>5, AtOnce
<1>7. At(k, m) >= Width
  <2>1. At(0, m) < At(k, m) /\ At(0, m) = At(0, 0) + m /\ At(0, 0) = 0
    BY <1>1, <1>2, AtBelow, AtMoves, Dimensions DEF At
  <2> QED BY <1>1, <1>2, <1>3, <2>1, Dimensions
<1> QED BY <1>1, <1>4, <1>6, <1>7

LEMMA ShowsSame ==
    ASSUME NEW b, NEW a \in Nat, NEW t, Shows(b, a, t), NEW u,
           \A r \in Nat, c \in Nat : r > 0 /\ c > 0 => Char(u, r, c) = Char(t, r, c)
    PROVE  Shows(b, a, u)
<1>1. ASSUME NEW q \in Lines, NEW d \in Columns
      PROVE  b[At(q, d)] = Char(u, a + q + 1, d + 1)
  <2>1. b[At(q, d)] = Char(t, a + q + 1, d + 1)
    BY DEF Shows
  <2>2. PICK r, c : r = a + q + 1 /\ c = d + 1
    OBVIOUS
  <2>3. r \in Nat /\ c \in Nat /\ r > 0 /\ c > 0
    BY <2>2 DEF Lines, Columns
  <2> QED BY <2>1, <2>2, <2>3
<1> QED BY <1>1 DEF Shows

\* Scrolled, a full screen shows one row fewer and a new row.
LEMMA ShowsUp ==
    ASSUME NEW b, NEW a \in Nat, NEW t, Shows(b, a, t), Len(t) = a + Height, NEW u,
           \A r \in Nat, c \in Nat : r > 0 /\ c > 0 => Char(u, r, c) = Char(t, r, c),
           NEW z, \A q \in Lines, d \in Columns :
                    z[At(q, d)] = IF q + 1 \in Lines THEN b[At(q + 1, d)] ELSE NoChar
    PROVE  Shows(z, a + 1, u)
<1>1. ASSUME NEW q \in Lines, NEW d \in Columns
      PROVE  z[At(q, d)] = Char(u, (a + 1) + q + 1, d + 1)
  <2>1. PICK k, r, c : k = q + 1 /\ r = (a + 1) + q + 1 /\ c = d + 1
    OBVIOUS
  <2>2. r \in Nat /\ c \in Nat /\ r > 0 /\ c > 0 /\ r = a + k + 1
    BY <2>1 DEF Lines, Columns
  <2>3. Char(u, r, c) = Char(t, r, c)
    BY <2>2
  <2>4. CASE k \in Lines
    <3>1. z[At(q, d)] = b[At(k, d)]
      BY <2>1, <2>4
    <3>2. b[At(k, d)] = Char(t, r, c)
      BY <2>1, <2>2, <2>4 DEF Shows
    <3> QED BY <2>1, <2>3, <3>1, <3>2
  <2>5. CASE k \notin Lines
    <3>1. z[At(q, d)] = NoChar
      BY <2>1, <2>5
    <3>2. ~(r <= Len(t))
      BY <2>1, <2>2, <2>5, Dimensions DEF Lines
    <3>3. Char(t, r, c) = NoChar
      BY <3>2 DEF Char
    <3> QED BY <2>1, <2>3, <3>1, <3>3
  <2> QED BY <2>4, <2>5
<1> QED BY <1>1 DEF Shows

\* Written at the cursor, a character stands behind the last row.
LEMMA Written ==
    ASSUME NEW b, NEW p, NEW rows, Standing(b, p, rows), NEW x \in Glyphs,
           NEW n, n = Len(rows), NEW last, last = Final(rows),
           NEW t, t = Grown(rows, x)
    PROVE  p \in Cells /\ Shows([b EXCEPT ![p] = x], RowsAbove(n), t)
<1>1. /\ n \in Nat /\ n > 0 /\ Len(last) \in Columns /\ rows \in Seq(Seq(Glyphs))
      /\ DOMAIN b = Cells /\ Shows(b, RowsAbove(n), rows) /\ p = At(CursorRow(n), Len(last))
  BY RowsParts DEF Standing, Final
<1>2. PICK a, h, l, g : a = RowsAbove(n) /\ h = CursorRow(n) /\ l = Len(last) /\ g = [b EXCEPT ![p] = x]
  OBVIOUS
<1>3. a \in Nat /\ h \in Lines /\ a + h + 1 = n /\ l \in Columns
  BY <1>1, <1>2, CursorPlace
<1>4. h \in Int /\ l \in Int
  BY <1>3 DEF Lines, Columns
<1>5. p \in Cells
  BY <1>1, <1>2, <1>3, <1>4, AtIsCell
<1>6. /\ Char(t, n, l + 1) = x
      /\ \A r \in Nat, c \in Nat :
           r > 0 /\ c > 0 /\ (r # n \/ c # l + 1) => Char(t, r, c) = Char(rows, r, c)
  BY <1>1, <1>2, RowGrows
<1>7. ASSUME NEW q \in Lines, NEW d \in Columns
      PROVE  g[At(q, d)] = Char(t, a + q + 1, d + 1)
  <2>1. q \in Nat /\ d \in Nat /\ At(q, d) \in Cells
    BY AtIsCell DEF Lines, Columns
  <2>2. CASE q = h /\ d = l
    <3>1. g[p] = x
      BY <1>1, <1>2, <1>5
    <3> QED BY <1>1, <1>2, <1>3, <1>6, <2>2, <3>1
  <2>3. CASE ~(q = h /\ d = l)
    <3>1. At(q, d) # p
      BY <1>1, <1>2, <1>3, <1>4, <2>1, <2>3, AtOnce
    <3>2. g[At(q, d)] = b[At(q, d)]
      BY <1>1, <1>2, <2>1, <3>1
    <3>3. b[At(q, d)] = Char(rows, a + q + 1, d + 1)
      BY <1>1, <1>2 DEF Shows
    <3>4. PICK r, c : r = a + q + 1 /\ c = d + 1
      OBVIOUS
    <3>5. r \in Nat /\ c \in Nat /\ r > 0 /\ c > 0 /\ (r # n \/ c # l + 1)
      BY <1>3, <1>4, <2>1, <2>3, <3>4
    <3> QED BY <1>6, <3>2, <3>3, <3>4, <3>5
  <2> QED BY <2>2, <2>3
<1> QED BY <1>2, <1>5, <1>7 DEF Shows

\* A row that is not full grows where it is.
LEMMA PutInRow ==
    ASSUME NEW b, NEW p, NEW rows, Standing(b, p, rows), NEW x \in Glyphs, x # Newline,
           NEW n, n = Len(rows), NEW last, last = Final(rows), Len(last) + 1 < Width,
           NEW s, s = PutChar(Screen(b, p), x)
    PROVE  Standing(s.cells, s.cursor, Grown(rows, x))
<1>1. /\ n \in Nat /\ n > 0 /\ Len(last) \in Columns /\ rows \in Seq(Seq(Glyphs))
      /\ DOMAIN b = Cells /\ p = At(CursorRow(n), Len(last))
  BY RowsParts DEF Standing, Final
<1>2. PICK t, g, h, l : /\ t = Grown(rows, x) /\ g = [b EXCEPT ![p] = x]
                        /\ h = CursorRow(n) /\ l = Len(last)
  OBVIOUS
<1>3. h \in Lines /\ h \in Int /\ l \in Int /\ l \in Columns
  BY <1>1, <1>2, CursorPlace DEF Lines, Columns
<1>4. p \in Cells /\ Shows(g, RowsAbove(n), t)
  BY <1>2, Written
<1>5. t \in Seq(Seq(Glyphs)) /\ Len(t) = n /\ Len(t[n]) = l + 1
  BY <1>1, <1>2, RowGrows
<1>6. p # Width * Height - 1
  <2>1. l # Width - 1
    BY <1>2, <1>3, Dimensions
  <2>2. At(h, l) # Width * Height - 1
    BY <1>3, <2>1, LastPlace
  <2> QED BY <1>1, <1>2, <2>2
<1>7. s = Screen(g, p + 1)
  BY <1>2, <1>4, <1>6, PutLow
<1>8. s.cells = g /\ s.cursor = p + 1 /\ DOMAIN g = Cells
  BY <1>1, <1>2, <1>7, ScreenParts
<1>9. p + 1 = At(h, l + 1)
  BY <1>1, <1>2, <1>3, AtNext
<1>10. Standing(g, p + 1, t)
  BY <1>1, <1>2, <1>3, <1>4, <1>5, <1>8, <1>9 DEF Standing
<1> QED BY <1>2, <1>8, <1>10

\* A full row is followed by a new one, on the screen or by scrolling.
LEMMA PutFull ==
    ASSUME NEW b, NEW p, NEW rows, Standing(b, p, rows), NEW x \in Glyphs, x # Newline,
           NEW n, n = Len(rows), NEW last, last = Final(rows), Len(last) + 1 = Width,
           NEW s, s = PutChar(Screen(b, p), x)
    PROVE  Standing(s.cells, s.cursor, Append(Grown(rows, x), <<>>))
<1>1. /\ n \in Nat /\ n > 0 /\ Len(last) \in Columns /\ rows \in Seq(Seq(Glyphs))
      /\ DOMAIN b = Cells /\ p = At(CursorRow(n), Len(last))
  BY RowsParts DEF Standing, Final
<1>2. PICK t, u, g, a, h, l :
        /\ t = Grown(rows, x) /\ u = Append(t, <<>>)
        /\ g = [b EXCEPT ![p] = x] /\ a = RowsAbove(n) /\ h = CursorRow(n) /\ l = Len(last)
  OBVIOUS
<1>3. h \in Lines /\ h \in Int /\ l \in Int /\ l \in Columns /\ l = Width - 1 /\ a \in Nat
  <2>1. h \in Lines /\ a \in Nat
    BY <1>1, <1>2, CursorPlace
  <2>2. l \in Columns /\ l = Width - 1
    BY <1>1, <1>2, Dimensions DEF Columns
  <2> QED BY <2>1, <2>2 DEF Lines, Columns
<1>4. p \in Cells /\ Shows(g, a, t)
  BY <1>2, Written
<1>5. t \in Seq(Seq(Glyphs)) /\ Len(t) = n
  BY <1>1, <1>2, RowGrows
<1>6. /\ u \in Seq(Seq(Glyphs)) /\ Len(u) = n + 1 /\ u[n + 1] = <<>>
      /\ \A r \in Nat, c \in Nat : r > 0 /\ c > 0 => Char(u, r, c) = Char(t, r, c)
  <2>1. PICK m : m = Len(t)
    OBVIOUS
  <2>2. /\ u \in Seq(Seq(Glyphs)) /\ Len(u) = m + 1 /\ u[m + 1] = <<>>
        /\ \A r \in Nat, c \in Nat : r > 0 /\ c > 0 => Char(u, r, c) = Char(t, r, c)
    <3>1. t \in Seq(Seq(Glyphs)) /\ u = Append(t, <<>>)
      BY <1>2, <1>5
    <3>2. /\ Append(t, <<>>) \in Seq(Seq(Glyphs)) /\ Len(Append(t, <<>>)) = Len(t) + 1
          /\ Append(t, <<>>)[Len(t) + 1] = <<>>
          /\ \A r \in Nat, c \in Nat :
               r > 0 /\ c > 0 => Char(Append(t, <<>>), r, c) = Char(t, r, c)
      BY ONLY <3>1, RowAdded, Zenon
    <3> QED BY ONLY <2>1, <3>1, <3>2, Zenon
  <2> QED BY <1>5, <2>1, <2>2
<1>7. p + 1 = At(h + 1, 0)
  BY <1>1, <1>2, <1>3, AtNext
<1>8. Len(u[n + 1]) = 0 /\ 0 < Width /\ n + 1 > 0
  BY <1>1, <1>6, Dimensions
<1>9. CASE n < Height
  <2>1. RowsAbove(n + 1) = a /\ h # Height - 1 /\ CursorRow(n + 1) = h + 1
    BY <1>1, <1>2, <1>9, CursorPlace, Dimensions
  <2>2. p # Width * Height - 1
    BY <1>1, <1>2, <1>3, <2>1, LastPlace
  <2>3. s = Screen(g, p + 1)
    BY <1>2, <1>4, <2>2, PutLow
  <2>4. s.cells = g /\ s.cursor = p + 1 /\ DOMAIN g = Cells
    BY <1>1, <1>2, <2>3, ScreenParts
  <2>5. Shows(g, a, u)
    BY <1>3, <1>4, <1>6, ShowsSame
  <2>6. Standing(g, p + 1, u)
    BY <1>6, <1>7, <1>8, <2>1, <2>4, <2>5 DEF Standing
  <2> QED BY <1>2, <2>4, <2>6
<1>10. CASE n >= Height
  <2>1. RowsAbove(n + 1) = a + 1 /\ h = Height - 1 /\ CursorRow(n + 1) = h
    BY <1>1, <1>2, <1>10, CursorPlace
  <2>2. p = Width * Height - 1 /\ p >= Width
    BY <1>1, <1>2, <1>3, <2>1, LastPlace
  <2>3. s = Screen(Scrolled(g), (p - Width) + 1)
    <3>1. p \in Cells /\ x # Newline /\ g = [b EXCEPT ![p] = x] /\ s = PutChar(Screen(b, p), x)
      BY <1>2, <1>4
    <3>2. PutChar(Screen(b, p), x) = Screen(Scrolled([b EXCEPT ![p] = x]), (p - Width) + 1)
      BY ONLY <2>2, <3>1, PutLast
    <3> QED BY <3>1, <3>2
  <2>4. s.cells = Scrolled(g) /\ s.cursor = (p - Width) + 1
    BY <2>3, ScreenParts
  <2>5. (p - Width) + 1 = At(h, 0)
    <3>1. At(h + 1, 0) = At(h, 0) + Width /\ At(h, 0) \in Int
      BY <1>3, AtMoves
    <3> QED BY <1>7, <3>1, <1>4, Dimensions DEF Cells
  <2>6. DOMAIN Scrolled(g) = Cells
    BY DEF Scrolled
  <2>7. Shows(Scrolled(g), a + 1, u)
    <3>1. \A q \in Lines, d \in Columns :
            Scrolled(g)[At(q, d)] = IF q + 1 \in Lines THEN g[At(q + 1, d)] ELSE NoChar
      BY ScrolledAt
    <3>2. a + Height = n
      BY <1>1, <1>2, <1>10, Dimensions DEF RowsAbove
    <3>3. Len(t) = a + Height
      BY <1>5, <3>2
    <3> QED BY ONLY <1>3, <1>4, <1>6, <3>1, <3>3, ShowsUp
  <2>8. Standing(Scrolled(g), At(h, 0), u)
    BY <1>6, <1>8, <2>1, <2>6, <2>7 DEF Standing
  <2> QED BY <1>2, <2>4, <2>5, <2>8
<1> QED BY <1>1, <1>9, <1>10, Dimensions

\* A newline adds a row, on the screen or by scrolling.
LEMMA PutNewline ==
    ASSUME NEW b, NEW p, NEW rows, Standing(b, p, rows), NEW n, n = Len(rows),
           n >= Height => Len(Final(rows)) > 0, NEW s, s = PutChar(Screen(b, p), Newline)
    PROVE  Standing(s.cells, s.cursor, Append(rows, <<>>))
<1>1. /\ n \in Nat /\ n > 0 /\ Len(Final(rows)) \in Columns /\ rows \in Seq(Seq(Glyphs))
      /\ DOMAIN b = Cells /\ Shows(b, RowsAbove(n), rows) /\ p = At(CursorRow(n), Len(Final(rows)))
      /\ \A i \in 1 .. n : rows[i] \in Seq(Glyphs)
  BY RowsParts DEF Standing, Final
<1>2. PICK u, a, h, l : /\ u = Append(rows, <<>>) /\ a = RowsAbove(n) /\ h = CursorRow(n)
                        /\ l = Len(Final(rows))
  OBVIOUS
<1>3. h \in Lines /\ h \in Int /\ l \in Int /\ l \in Columns /\ a \in Nat /\ a + h + 1 = n
  <2>1. h \in Lines /\ a \in Nat /\ a + h + 1 = n
    BY <1>1, <1>2, CursorPlace
  <2> QED BY <1>1, <1>2, <2>1 DEF Lines, Columns
<1>4. /\ u \in Seq(Seq(Glyphs)) /\ Len(u) = n + 1 /\ u[n + 1] = <<>>
      /\ \A r \in Nat, c \in Nat : r > 0 /\ c > 0 => Char(u, r, c) = Char(rows, r, c)
  <2>1. /\ u \in Seq(Seq(Glyphs)) /\ Len(u) = Len(rows) + 1 /\ u[Len(rows) + 1] = <<>>
        /\ \A r \in Nat, c \in Nat : r > 0 /\ c > 0 => Char(u, r, c) = Char(rows, r, c)
    <3>1. rows \in Seq(Seq(Glyphs)) /\ u = Append(rows, <<>>)
      BY <1>1, <1>2
    <3>2. /\ Append(rows, <<>>) \in Seq(Seq(Glyphs)) /\ Len(Append(rows, <<>>)) = Len(rows) + 1
          /\ Append(rows, <<>>)[Len(rows) + 1] = <<>>
          /\ \A r \in Nat, c \in Nat :
               r > 0 /\ c > 0 => Char(Append(rows, <<>>), r, c) = Char(rows, r, c)
      BY ONLY <3>1, RowAdded, Zenon
    <3> QED BY ONLY <3>1, <3>2, Zenon
  <2> QED BY <2>1
<1>5. Len(u[n + 1]) = 0 /\ 0 < Width /\ n + 1 > 0
  BY <1>1, <1>4, Dimensions
<1>6. s = NewLine(Screen(b, At(h, l)))
  BY <1>1, <1>2, Zenon DEF PutChar
<1>7. Blank(b, h, l)
  BY <1>2, BlankBehind DEF Final
<1>8. CASE n < Height
  <2>1. RowsAbove(n + 1) = a /\ h + 1 \in Lines /\ CursorRow(n + 1) = h + 1
    <3>1. RowsAbove(n + 1) = a /\ h = n - 1 /\ CursorRow(n + 1) = h + 1
      BY <1>1, <1>2, <1>8, CursorPlace
    <3> QED BY <1>1, <1>8, <3>1, Dimensions DEF Lines
  <2>2. /\ DOMAIN s.cells = Cells /\ s.cursor = At(h + 1, 0)
        /\ \A q \in Lines, d \in Columns : s.cells[At(q, d)] = b[At(q, d)]
    <3>1. h \in Lines /\ l \in Columns /\ h + 1 \in Lines
      BY <1>3, <2>1
    <3> QED BY ONLY <1>6, <1>7, <3>1, NewLineLow
  <2>3. Shows(s.cells, a, rows)
    BY <1>1, <1>2, <2>2 DEF Shows
  <2>4. Shows(s.cells, a, u)
    BY ONLY <1>3, <1>4, <2>3, ShowsSame
  <2>5. Standing(s.cells, s.cursor, u)
    BY <1>4, <1>5, <2>1, <2>2, <2>4 DEF Standing
  <2> QED BY <1>2, <2>5
<1>9. CASE n >= Height
  <2>1. RowsAbove(n + 1) = a + 1 /\ h = Height - 1 /\ CursorRow(n + 1) = h
    BY <1>1, <1>2, <1>9, CursorPlace
  <2>2. 0 \in Columns /\ b[At(h, 0)] # NoChar
    <3>1. 0 \in Columns /\ n \in 1 .. n
      BY <1>1, Dimensions DEF Columns
    <3>2. b[At(h, 0)] = Char(rows, n, 1)
      <4>1. b[At(h, 0)] = Char(rows, a + h + 1, 0 + 1)
        BY <1>1, <1>2, <1>3, <3>1 DEF Shows
      <4> QED BY <1>3, <4>1
    <3>3. PICK last : last = Final(rows) /\ last = rows[n]
      BY DEF Final
    <3>4. last \in Seq(Glyphs) /\ Len(last) \in Nat /\ 1 \in 1 .. Len(last)
      <4>1. last \in Seq(Glyphs)
        BY <1>1, <3>1, <3>3
      <4> QED BY <4>1, <1>9, <3>3, LenProperties
    <3>5. last[1] \in Glyphs
      BY <3>4, ElementOfSeq
    <3>6. Char(rows, n, 1) = last[1]
      <4>1. n <= Len(rows) /\ 1 <= Len(last)
        BY <1>1, <3>4
      <4> QED BY ONLY <3>3, <4>1, CharIn, Zenon
    <3> QED BY <3>1, <3>2, <3>5, <3>6, GlyphsSeen
  <2>3. /\ DOMAIN s.cells = Cells /\ s.cursor = At(h, 0)
        /\ \A q \in Lines, d \in Columns :
             s.cells[At(q, d)] = IF q + 1 \in Lines THEN b[At(q + 1, d)] ELSE NoChar
    BY ONLY <1>3, <1>6, <1>7, <2>1, <2>2, NewLineBottom
  <2>4. Shows(s.cells, a + 1, u)
    <3>1. Len(rows) = a + Height /\ Shows(b, a, rows)
      BY <1>1, <1>2, <1>9, Dimensions DEF RowsAbove
    <3> QED BY ONLY <1>3, <1>4, <2>3, <3>1, ShowsUp
  <2>5. Standing(s.cells, s.cursor, u)
    BY <1>4, <1>5, <2>1, <2>3, <2>4 DEF Standing
  <2> QED BY <1>2, <2>5
<1> QED BY <1>1, <1>8, <1>9, Dimensions

LEMMA DisplayStands ==
    ASSUME KCareful = TRUE, ScreenInv, NEW x \in Glyphs, Display(x)
    PROVE  ScreenInv'
<1>1. PICK n, last, s : n = Len(sRows) /\ last = Final(sRows) /\ s = PutChar(Screen(sCells, sCursor), x)
  OBVIOUS
<1>2. sCells' = s.cells /\ sCursor' = s.cursor /\ sRows' = RowsWith(x) /\ WellPlaced(x)
  BY <1>1 DEF Display
<1>3. LastRow = last /\ last \in Seq(Glyphs) /\ Len(last) \in Columns /\ Len(last) \in Nat
  BY <1>1, RowsParts DEF ScreenInv, LastRow, Final, Columns
<1>4. Standing(sCells, sCursor, sRows)
  BY DEF ScreenInv
<1>5. CASE x = Newline
  <2>1. sRows' = Append(sRows, <<>>)
    BY <1>2, <1>5 DEF RowsWith
  <2>2. n >= Height => last # <<>>
    BY <1>1, <1>2, <1>3, <1>5 DEF WellPlaced
  <2>3. last # <<>> => Len(last) > 0
    BY <1>3, EmptySeq
  <2>4. Standing(s.cells, s.cursor, Append(sRows, <<>>))
    BY <1>1, <1>4, <1>5, <2>2, <2>3, PutNewline
  <2> QED BY <1>2, <2>1, <2>4 DEF ScreenInv
<1>6. CASE x # Newline
  <2>1. sRows' = IF Len(last) + 1 = Width THEN Append(Grown(sRows, x), <<>>) ELSE Grown(sRows, x)
    BY <1>1, <1>2, <1>3, <1>6, Zenon DEF RowsWith, Grown, LastRow, Final
  <2>2. CASE Len(last) + 1 = Width
    <3>1. Standing(s.cells, s.cursor, Append(Grown(sRows, x), <<>>))
      BY <1>1, <1>4, <1>6, <2>2, PutFull
    <3> QED BY <1>2, <2>1, <2>2, <3>1 DEF ScreenInv
  <2>3. CASE Len(last) + 1 # Width
    <3>1. Len(last) + 1 < Width
      BY <1>3, <2>3, Dimensions DEF Columns
    <3>2. Standing(s.cells, s.cursor, Grown(sRows, x))
      BY <1>1, <1>4, <1>6, <3>1, PutInRow
    <3> QED BY <1>2, <2>1, <2>3, <3>2 DEF ScreenInv
  <2> QED BY <2>2, <2>3
<1> QED BY <1>5, <1>6

LEMMA ScreenStart == ConsoleInit => ScreenInv
<1> SUFFICES ASSUME ConsoleInit PROVE ScreenInv
  OBVIOUS
<1>1. PICK rows, row : rows = sRows /\ row = <<>> /\ rows = <<row>>
  BY DEF ConsoleInit
<1>2. row \in Seq(Glyphs) /\ Len(row) = 0 /\ rows \in Seq(Seq(Glyphs)) /\ Len(rows) = 1 /\ rows[1] = row
  BY <1>1
<1>3. RowsAbove(1) = 0 /\ CursorRow(1) = 0
  <2>1. ~(1 > Height)
    BY Dimensions
  <2>2. RowsAbove(1) = 0
    BY <2>1, Zenon DEF RowsAbove
  <2> QED BY <2>2 DEF CursorRow
<1>4. sCursor = At(0, 0) /\ DOMAIN sCells = Cells
  BY Dimensions DEF ConsoleInit, At
<1>5. ASSUME NEW q \in Lines, NEW d \in Columns
      PROVE  sCells[At(q, d)] = Char(rows, 0 + q + 1, d + 1)
  <2>1. q \in Nat /\ d \in Nat /\ At(q, d) \in Cells
    BY AtIsCell DEF Lines, Columns
  <2>2. sCells[At(q, d)] = NoChar
    BY <2>1 DEF ConsoleInit
  <2>3. PICK r, c : r = 0 + q + 1 /\ c = d + 1 /\ r \in Nat /\ c \in Nat /\ r > 0 /\ c > 0
    BY <2>1
  <2>4. r <= Len(rows) => r = 1 /\ rows[r] = row
    BY <1>2, <2>3
  <2>5. ~(r <= Len(rows) /\ c <= Len(rows[r]))
    BY <1>2, <2>3, <2>4
  <2>6. Char(rows, r, c) = NoChar
    BY ONLY <2>5, Zenon DEF Char
  <2> QED BY <2>2, <2>3, <2>6
<1>6. Shows(sCells, 0, rows)
  BY <1>5 DEF Shows
<1>7. Standing(sCells, sCursor, rows)
  BY <1>2, <1>3, <1>4, <1>6, Dimensions DEF Standing
<1> QED BY <1>1, <1>7 DEF ScreenInv

LEMMA ScreenStep == KCareful = TRUE /\ ScreenInv /\ [ConsoleNext]_consoleVars => ScreenInv'
<1> SUFFICES ASSUME KCareful = TRUE, ScreenInv, [ConsoleNext]_consoleVars PROVE ScreenInv'
  OBVIOUS
<1>1. ASSUME UNCHANGED screenVars PROVE ScreenInv'
  BY <1>1 DEF ScreenInv, screenVars
<1>2. CASE \E st, p1, p2, t1, t2 \in BOOLEAN : Ps2Boot(st, p1, p2, t1, t2)
  BY <1>1, <1>2 DEF Ps2Boot
<1>3. CASE \E k \in KeysUsed : PressKey(k) \/ RepeatKey(k) \/ ReleaseKey(k)
  BY <1>1, <1>3 DEF PressKey, RepeatKey, ReleaseKey, Sends
<1>4. CASE ReadKey
  <2>1. PICK c : /\ IF c = NoChar THEN UNCHANGED <<tBuffer, tNewline, screenVars>> ELSE AddChar(c)
                 /\ c = NoChar \/ \E k, P, L : c = GetAscii(k, P, L)
    BY <1>4, Zenon DEF ReadKey
  <2>2. c \in Chars \cup {NoChar}
    BY <2>1, AsciiChars
  <2>3. CASE c = NoChar
    BY <1>1, <2>1, <2>3
  <2>4. CASE c # NoChar
    BY <2>1, <2>2, <2>4, DisplayStands DEF AddChar, Glyphs
  <2> QED BY <2>3, <2>4
<1>5. CASE \E n \in ReadCounts : ReadChars(n)
  BY <1>1, <1>5 DEF ReadChars
<1>6. CASE \E c \in Printed : PrintChar(c)
  BY <1>6, DisplayStands DEF PrintChar, Glyphs
<1>7. CASE UNCHANGED consoleVars
  BY <1>1, <1>7 DEF consoleVars, screenVars
<1> QED BY <1>2, <1>3, <1>4, <1>5, <1>6, <1>7 DEF ConsoleNext

\* As long as no empty line is printed at the bottom, the screen shows the last
\* rows of the text and the cursor stands behind it, through wraps and scrolls.
THEOREM ScreenShows ==
    ASSUME KCareful = TRUE
    PROVE  ConsoleSpec => []ScreenFaithful
<1>1. ScreenInv => ScreenFaithful
  <2> SUFFICES ASSUME ScreenInv PROVE ScreenFaithful
    OBVIOUS
  <2>1. PICK n, a, last : n = Len(sRows) /\ a = RowsAbove(n) /\ last = sRows[n]
    OBVIOUS
  <2>2. n \in Nat /\ n > 0 /\ Len(last) \in Nat
    BY <2>1, RowsParts DEF ScreenInv, Columns
  <2>3. a \in Nat /\ a = IF Len(sRows) > Height THEN Len(sRows) - Height ELSE 0
    BY <2>1, <2>2, CursorPlace DEF RowsAbove
  <2>4. ASSUME NEW i \in Cells
        PROVE  sCells[i] = IF /\ a + ((i \div Width) + 1) <= Len(sRows)
                              /\ (i % Width) + 1 <= Len(sRows[a + ((i \div Width) + 1)])
                           THEN sRows[a + ((i \div Width) + 1)][(i % Width) + 1] ELSE NoChar
    <3>1. PICK r \in Lines, c \in Columns : i = At(r, c)
      BY CellIsAt
    <3>2. r \in Nat
      BY <3>1 DEF Lines
    <3>3. i \div Width = r /\ i % Width = c
      BY <3>1, <3>2, AtWhere
    <3>4. sCells[At(r, c)] = Char(sRows, a + r + 1, c + 1)
      BY <2>1, <3>1 DEF ScreenInv, Standing, Shows
    <3>5. a + r + 1 = a + (r + 1)
      BY <2>3, <3>2
    <3> QED BY ONLY <3>1, <3>3, <3>4, <3>5, Zenon DEF Char
  <2>5. sCursor = (n - a - 1) * Width + Len(last)
    BY <2>1 DEF ScreenInv, Standing, CursorRow, At
  <2> QED BY ONLY <2>1, <2>3, <2>4, <2>5, Zenon DEF ScreenFaithful, LastRow
<1>2. ScreenInv /\ [ConsoleNext]_consoleVars => ScreenInv'
  BY ScreenStep
<1> QED BY <1>1, <1>2, ScreenStart, PTL DEF ConsoleSpec
=============================================================================
