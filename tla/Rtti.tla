--------------------------------- MODULE Rtti ---------------------------------
(***************************************************************************)
(* Run time type information (stdlib/cpp/cxxabi.cpp): the walks over class *)
(* hierarchies behind dynamic_cast and behind the choice of a handler.     *)
(* The comments there say that they were copied from another library and   *)
(* not understood; here they are compared with the rules of the language   *)
(* over every hierarchy of a few classes.                                  *)
(*                                                                         *)
(* The layout of objects, the flags of a class and the hint given to       *)
(* __dynamic_cast come from the compiler and are external.                 *)
(***************************************************************************)
EXTENDS Integers, Sequences, FiniteSets, Bitwise

CONSTANTS
    NClasses,     \* class n has its bases among 1 .. n - 1
    Access,       \* may a base be private? a subset of BOOLEAN, TRUE is public
    RCareful      \* is the case at RttiRules left out?

VARIABLES
    rH, rT,       \* the hierarchy and its type information
    rQuery, rAnswer
rttiVars == <<rH, rT, rQuery, rAnswer>>

NoAnswer == [kind |-> "none"]
Failed == 0       \* the null pointer

-----------------------------------------------------------------------------
(* Hierarchies and objects                                                 *)
Bases(n) == [cls : 1 .. n - 1, pub : Access, virt : BOOLEAN]
\* Base lists in the order of the classes, each class at most once.
BaseLists(n) ==
    {<<>>} \cup {l \in UNION {[1 .. k -> Bases(n)] : k \in 1 .. n - 1} :
                    \A i \in 2 .. Len(l) : l[i - 1].cls < l[i].cls}
RECURSIVE HierarchiesOf(_)
HierarchiesOf(n) ==
    IF n = 0 THEN {<<>>} ELSE {Append(h, l) : h \in HierarchiesOf(n - 1), l \in BaseLists(n)}
Hierarchies == HierarchiesOf(NClasses)

RECURSIVE NvSize(_, _), NvOffset(_, _, _), VBases(_, _), VAddr(_, _, _)
NvSize(h, c) == 1 + NvOffset(h, c, Len(h[c]) + 1)
\* Where base k of class c starts, behind the non-virtual ones before it.
NvOffset(h, c, k) ==
    IF k = 1 THEN 0
    ELSE NvOffset(h, c, k - 1) + (IF h[c][k - 1].virt THEN 0 ELSE NvSize(h, h[c][k - 1].cls))
VBases(h, c) == UNION {VBases(h, h[c][i].cls) \cup (IF h[c][i].virt THEN {h[c][i].cls} ELSE {}) : i \in DOMAIN h[c]}
\* Virtual bases follow the rest of the whole object w, which starts at 1.
VAddr(h, w, v) ==
    LET before == {x \in VBases(h, w) : x < v}
    IN IF before = {} THEN 1 + NvSize(h, w)
       ELSE LET u == CHOOSE x \in before : \A y \in before : y <= x
            IN VAddr(h, w, u) + NvSize(h, u)

PartAt(h, w, c, a, k) ==
    IF h[c][k].virt THEN VAddr(h, w, h[c][k].cls) ELSE a + NvOffset(h, c, k)

\* The subobjects of the part <<c, a>> of w, and those reached by public bases.
RECURSIVE Parts(_, _, _, _), PublicParts(_, _, _, _), NvPublic(_, _, _)
Parts(h, w, c, a) ==
    {<<c, a>>} \cup UNION {Parts(h, w, h[c][k].cls, PartAt(h, w, c, a, k)) : k \in DOMAIN h[c]}
PublicParts(h, w, c, a) ==
    {<<c, a>>} \cup UNION {PublicParts(h, w, h[c][k].cls, PartAt(h, w, c, a, k)) :
                              k \in {j \in DOMAIN h[c] : h[c][j].pub}}
OfClass(ps, d) == {p \in ps : p[1] = d}

\* Flags of the type information of a class: a base that is there twice, and a
\* virtual base that is reached twice.
RECURSIVE Reaches(_, _, _)
Reaches(h, c, v) ==
    LET R[k \in 0 .. Len(h[c])] ==
            IF k = 0 THEN 0
            ELSE R[k - 1] + (IF h[c][k].cls = v /\ h[c][k].virt THEN 1 ELSE 0) + Reaches(h, h[c][k].cls, v)
    IN R[Len(h[c])]
NonDiamondRepeat(h, c) == \E d \in 1 .. c : Cardinality(OfClass(Parts(h, c, c, 1), d)) > 1
DiamondShape(h, c) == \E v \in VBases(h, c) : Reaches(h, c, v) > 1

\* __class_type_info, __si_class_type_info and __vmi_class_type_info, with the
\* base_info, flags and offsets the compiler puts there; whole objects are of the
\* last class.
TypeInfo(h, c) ==
    [info |-> IF h[c] = <<>> THEN "class"
              ELSE IF Len(h[c]) = 1 /\ h[c][1].pub /\ ~h[c][1].virt THEN "si" ELSE "vmi",
     base |-> [k \in DOMAIN h[c] |->
                 [cls |-> h[c][k].cls, pub |-> h[c][k].pub, virt |-> h[c][k].virt,
                  off |-> IF h[c][k].virt THEN VAddr(h, NClasses, h[c][k].cls) ELSE NvOffset(h, c, k)]],
     flags |-> [known |-> TRUE, repeat |-> NonDiamondRepeat(h, c), diamond |-> DiamondShape(h, c)]]
TypeInfos(h) == [c \in 1 .. NClasses |-> TypeInfo(h, c)]
FlagsUnknown == [known |-> FALSE, repeat |-> FALSE, diamond |-> FALSE]

\* helper::convert_to_base: a virtual base is found through the object's vtable.
ConvertToBase(b, a) == IF b.virt THEN b.off ELSE a + b.off

\* The hint: the offset of src in dest if it is there once and not virtually.
\* Offsets of src reached in c by public, non-virtual bases.
NvPublic(h, c, s) ==
    (IF c = s THEN {0} ELSE {})
    \cup UNION {{NvOffset(h, c, k) + o : o \in NvPublic(h, h[c][k].cls, s)} :
                   k \in {j \in DOMAIN h[c] : h[c][j].pub /\ ~h[c][j].virt}}
Src2Dest(h, s, d) ==
    LET public == OfClass(PublicParts(h, d, d, 1), s)
        nv == NvPublic(h, d, s)
    IN IF public = {} THEN -2
       ELSE IF s \in VBases(h, d) \/ Cardinality(public) > Cardinality(nv) THEN -1
       ELSE IF Cardinality(nv) > 1 THEN -3 ELSE CHOOSE o \in nv : TRUE

-----------------------------------------------------------------------------
(* sub_kind: bits for virtual, public and contained, and three small values *)
Unknown == 0
NotContained == 1
ContainedAmbig == 2
ContainedPrivate == 4
ContainedPublic == 6
ContainedP(k) == k >= 4
PublicP(k) == k % 4 > 1
VirtualP(k) == k % 2 = 1
ContainedPublicP(k) == k >= 6
ContainedNonvirtualP(k) == k \in {4, 6}
WithoutPublic(k) == IF PublicP(k) THEN k - 2 ELSE k

-----------------------------------------------------------------------------
(* Upcast: is dest a base of the thrown object?                            *)
NoBase == -1
NonvirtualBase == 0
UpcastResult(d) == [ptr |-> 0, part |-> Unknown, details |-> d, base |-> NoBase]

\* What the loop makes of a base in which dest was found (r2): it returns, or
\* goes on with a result. The test before the public bit is cleared looks at the
\* result so far and not at the one found.
UpMerge(flags, b, res, found) ==
    LET r2 == [found EXCEPT !.base = IF @ = NonvirtualBase /\ b.virt THEN b.cls ELSE @,
                            !.part = IF ContainedP(res.part) /\ ~b.pub THEN WithoutPublic(@) ELSE @]
        ambig == [res EXCEPT !.part = ContainedAmbig]
        both == [res EXCEPT !.part = @ | r2.part]
    IN IF res.base = NoBase
       THEN [ret |-> \/ ~ContainedP(r2.part)
                     \/ PublicP(r2.part) /\ ~flags.repeat
                     \/ ~PublicP(r2.part) /\ (~VirtualP(r2.part) \/ ~flags.diamond),
             res |-> r2]
       ELSE IF res.ptr # r2.ptr THEN [ret |-> TRUE, res |-> [ambig EXCEPT !.ptr = 0]]
       ELSE IF res.ptr # 0 THEN [ret |-> FALSE, res |-> both]
       ELSE IF r2.base = NonvirtualBase \/ res.base = NonvirtualBase \/ r2.base # res.base THEN [ret |-> TRUE, res |-> ambig]
       ELSE [ret |-> FALSE, res |-> both]

RECURSIVE DoUpcast(_, _, _, _, _), UpLoop(_, _, _, _, _, _, _)
DoUpcast(t, c, dest, a, res) ==
    IF c = dest THEN [ok |-> TRUE, res |-> [res EXCEPT !.ptr = a, !.base = NonvirtualBase, !.part = ContainedPublic]]
    ELSE CASE t[c].info = "class" -> [ok |-> FALSE, res |-> res]
           [] t[c].info = "si" -> DoUpcast(t, t[c].base[1].cls, dest, a, res)
           [] OTHER -> UpLoop(t, c, dest, a, res,
                              IF ~res.details.known THEN t[c].flags ELSE res.details, Len(t[c].base))
UpLoop(t, c, dest, a, res, details, i) ==
    IF i = 0 THEN [ok |-> res.part # Unknown, res |-> res]
    ELSE LET b == t[c].base[i]
             up == DoUpcast(t, b.cls, dest, ConvertToBase(b, a), UpcastResult(details))
         IN IF (~b.pub /\ ~details.repeat) \/ ~up.ok
            THEN UpLoop(t, c, dest, a, res, details, i - 1)
            ELSE LET m == UpMerge(t[c].flags, b, res, up.res)
                 IN IF m.ret THEN [ok |-> TRUE, res |-> m.res]
                    ELSE UpLoop(t, c, dest, a, m.res, details, i - 1)

\* __do_upcast of a whole object, as __do_catch asks for it.
Upcast(t, dest) ==
    LET r == DoUpcast(t, NClasses, dest, 1, UpcastResult(FlagsUnknown)).res
    IN IF ContainedPublicP(r.part) THEN r.ptr ELSE Failed

\* The language: dest is an unambiguous public base.
UpcastRule(h, dest) ==
    LET ps == OfClass(Parts(h, NClasses, NClasses, 1), dest)
    IN IF Cardinality(ps) = 1 /\ ps \subseteq PublicParts(h, NClasses, NClasses, 1)
       THEN (CHOOSE p \in ps : TRUE)[2] ELSE Failed

\* A private base of a class that has a base twice is taken for a public one, and
\* one that leads to a virtual base hides the public way to it.
RttiRules(h) ==
    \A c \in 1 .. NClasses :
        NonDiamondRepeat(h, c) \/ DiamondShape(h, c) => \A d \in 1 .. c : \A k \in DOMAIN h[d] : h[d][k].pub

-----------------------------------------------------------------------------
(* __dynamic_cast                                                          *)
\* q is the query: type information, classes of source and target, address of the
\* source and hint.
DyncastResult(d) == [ptr |-> 0, wdest |-> Unknown, wsrc |-> Unknown, dsrc |-> Unknown, details |-> d]
HintedSrc(q, a) == IF a + q.hint = q.at THEN ContainedPublic ELSE NotContained

RECURSIVE DoFindPublicSrc(_, _, _), FindLoop(_, _, _, _)
DoFindPublicSrc(q, c, a) ==
    IF q.t[c].info = "class" THEN IF a = q.at THEN ContainedPublic ELSE NotContained
    ELSE IF a = q.at /\ c = q.src THEN ContainedPublic
    ELSE IF q.t[c].info = "si" THEN DoFindPublicSrc(q, q.t[c].base[1].cls, a)
    ELSE FindLoop(q, c, a, Len(q.t[c].base))
FindLoop(q, c, a, i) ==
    IF i = 0 THEN NotContained
    ELSE LET b == q.t[c].base[i]
             k == DoFindPublicSrc(q, b.cls, ConvertToBase(b, a))
         IN IF ~b.pub \/ (b.virt /\ q.hint = -3) \/ ~ContainedP(k) THEN FindLoop(q, c, a, i - 1)
            ELSE IF b.virt THEN k | 1 ELSE k
FindPublicSrc(q, a) ==
    IF q.hint >= 0 THEN HintedSrc(q, a)
    ELSE IF q.hint = -2 THEN NotContained
    ELSE DoFindPublicSrc(q, q.dest, a)

\* The target at a itself.
AtDest(q, a, access, res) ==
    [res EXCEPT !.ptr = a, !.wdest = access,
                !.dsrc = IF q.hint >= 0 THEN HintedSrc(q, a) ELSE IF q.hint = -2 THEN NotContained ELSE @]

\* How the source is contained in an old and a new candidate for the target.
SettledBy(other, flags) == ContainedP(other) /\ (~VirtualP(other) \/ ~flags.diamond)
Kinds2(q, c, res, r2) ==
    IF ContainedP(res.wsrc) /\ (~VirtualP(res.wsrc) \/ ~res.details.diamond)
    THEN [old |-> IF res.dsrc = Unknown THEN NotContained ELSE res.dsrc,
          new |-> IF r2.dsrc = Unknown THEN NotContained ELSE r2.dsrc]
    ELSE LET f == q.t[c].flags
             old == IF res.dsrc >= NotContained THEN res.dsrc
                    ELSE IF SettledBy(r2.dsrc, f) THEN NotContained ELSE FindPublicSrc(q, res.ptr)
             new == IF r2.dsrc >= NotContained THEN r2.dsrc
                    ELSE IF SettledBy(old, f) THEN NotContained ELSE FindPublicSrc(q, r2.ptr)
         IN [old |-> old, new |-> new]

\* The loop over the bases returns, or goes on unless the source is private.
Ret(res, amb) == [ret |-> TRUE, res |-> res, amb |-> amb]
GoOn(res, amb) == [ret |-> res.wsrc = ContainedPrivate, res |-> res, amb |-> amb]

\* Mutant: two candidates that both contain the source are not ambiguous.
DynMergeFirst(q, c, res0, amb, r2, amb2) ==
    LET res == [res0 EXCEPT !.wsrc = @ | r2.wsrc]
    IN IF res.ptr # 0 THEN GoOn(res, amb)
       ELSE GoOn([res EXCEPT !.ptr = r2.ptr, !.wdest = r2.wdest, !.dsrc = r2.dsrc], amb2)

\* One base of a class with several, in which the walk found r2 (ambiguously if
\* amb2): the loop returns, or goes on with what it knows.
DynMerge(q, c, res0, amb, r2, amb2) ==
    LET res == [res0 EXCEPT !.wsrc = @ | r2.wsrc]
        taken == [res EXCEPT !.ptr = r2.ptr, !.wdest = r2.wdest]
        k == Kinds2(q, c, res, r2)
        newer == IF ContainedP(k.new) THEN [taken EXCEPT !.dsrc = k.new] ELSE [res EXCEPT !.dsrc = k.old]
    IN IF r2.dsrc \in {ContainedPublic, ContainedAmbig} THEN Ret([taken EXCEPT !.dsrc = r2.dsrc], amb2)
       ELSE IF ~amb /\ res.ptr = 0
       THEN IF taken.ptr # 0 /\ res.wsrc # Unknown /\ ~q.t[c].flags.repeat THEN Ret(taken, amb2)
            ELSE GoOn(taken, amb2)
       ELSE IF res.ptr # 0 /\ res.ptr = r2.ptr THEN GoOn([res EXCEPT !.wdest = @ & r2.wdest], amb)
       ELSE IF ~((res.ptr # 0 /\ (r2.ptr # 0 \/ amb2)) \/ (r2.ptr # 0 /\ amb)) THEN GoOn(res, amb)
       ELSE IF ContainedP(k.new ^^ k.old)
       THEN IF PublicP(newer.dsrc) \/ ~VirtualP(newer.dsrc) THEN Ret(newer, FALSE)
            ELSE GoOn(newer, IF ContainedP(k.new) THEN FALSE ELSE amb)
       ELSE IF ContainedP(k.new & k.old) THEN Ret([res EXCEPT !.ptr = 0, !.dsrc = ContainedAmbig], TRUE)
       ELSE GoOn([res EXCEPT !.ptr = 0, !.dsrc = NotContained], TRUE)

\* The loop goes twice over the bases if a hint says which are likelier: first
\* those below the place the target would have.
RECURSIVE DoDyncast(_, _, _, _, _), DynLoop(_, _, _, _, _, _, _, _, _)
DoDyncast(q, c, a, access, res) ==
    LET here == a = q.at /\ c = q.src
        src == [amb |-> FALSE, res |-> [res EXCEPT !.wsrc = access]]
        dest == [amb |-> FALSE, res |-> AtDest(q, a, access, res)]
    IN CASE q.t[c].info = "class" ->
              IF here THEN src
              ELSE IF c = q.dest
              THEN [amb |-> FALSE, res |-> [res EXCEPT !.ptr = a, !.wdest = access, !.dsrc = NotContained]]
              ELSE [amb |-> FALSE, res |-> res]
         [] q.t[c].info = "si" ->
              IF c = q.dest THEN dest ELSE IF here THEN src
              ELSE DoDyncast(q, q.t[c].base[1].cls, a, access, res)
         [] OTHER ->
              LET r == IF ~res.details.known THEN [res EXCEPT !.details = q.t[c].flags] ELSE res
              IN IF here THEN [src EXCEPT !.res.details = r.details]
                 ELSE IF c = q.dest THEN [dest EXCEPT !.res.details = r.details]
                 ELSE DynLoop(q, c, a, access, r, FALSE, TRUE, FALSE, Len(q.t[c].base))
DynLoop(q, c, a, access, res, amb, first, skipped, i) ==
    IF i = 0
    THEN IF skipped /\ first THEN DynLoop(q, c, a, access, res, amb, FALSE, TRUE, Len(q.t[c].base))
         ELSE [amb |-> amb, res |-> res]
    ELSE LET b == q.t[c].base[i]
             at == ConvertToBase(b, a)
             virt == IF b.virt THEN access | 1 ELSE access
             sub == DoDyncast(q, b.cls, at, IF b.pub THEN virt ELSE WithoutPublic(virt), DyncastResult(res.details))
             m == DynMerge(q, c, res, amb, sub.res, sub.amb)
         IN IF q.hint >= 0 /\ (at > q.at - q.hint) = first
            THEN DynLoop(q, c, a, access, res, amb, first, TRUE, i - 1)
            ELSE IF ~b.pub /\ q.hint = -2 /\ ~res.details.repeat /\ ~res.details.diamond
            THEN DynLoop(q, c, a, access, res, amb, first, skipped, i - 1)
            ELSE IF m.ret THEN [amb |-> m.amb, res |-> m.res]
            ELSE DynLoop(q, c, a, access, m.res, m.amb, first, skipped, i - 1)

DynamicCast(q) ==
    LET r == DoDyncast(q, NClasses, 1, ContainedPublic, DyncastResult(FlagsUnknown)).res
    IN IF r.ptr = 0 THEN Failed
       ELSE IF ContainedPublicP(r.dsrc) \/ ContainedPublicP(r.wsrc & r.wdest) THEN r.ptr
       ELSE IF ContainedNonvirtualP(r.wsrc) THEN Failed
       ELSE IF ContainedPublicP(IF r.dsrc = Unknown THEN FindPublicSrc(q, r.ptr) ELSE r.dsrc) THEN r.ptr
       ELSE Failed

\* The language: the one target the source is a public base of, or else the
\* unambiguous public target of an object the source is a public base of.
DynamicCastRule(h, s, dest) ==
    LET public == PublicParts(h, NClasses, NClasses, 1)
        all == OfClass(Parts(h, NClasses, NClasses, 1), dest)
        over == {d \in all : s \in Parts(h, NClasses, d[1], d[2])}
    IN IF Cardinality(over) = 1 /\ s \in UNION {PublicParts(h, NClasses, d[1], d[2]) : d \in over}
       THEN (CHOOSE d \in over : TRUE)[2]
       ELSE IF s \in public /\ Cardinality(all) = 1 /\ all \subseteq public
       THEN (CHOOSE d \in all : TRUE)[2] ELSE Failed

-----------------------------------------------------------------------------
\* The questions compiled code asks: the target of a dynamic cast is not the
\* class of the source or one of its bases.
AskUpcast(dest) ==
    /\ rQuery = NoAnswer
    /\ rQuery' = [kind |-> "upcast", dest |-> dest]
    /\ rAnswer' = Upcast(rT, dest)
    /\ UNCHANGED <<rH, rT>>
AskDynamicCast(s, dest) ==
    /\ rQuery = NoAnswer
    /\ OfClass(Parts(rH, s[1], s[1], 1), dest) = {}
    /\ rQuery' = [kind |-> "dynamic_cast", src |-> s, dest |-> dest]
    /\ rAnswer' = DynamicCast([t |-> rT, src |-> s[1], at |-> s[2], dest |-> dest,
                                hint |-> Src2Dest(rH, s[1], dest)])
    /\ UNCHANGED <<rH, rT>>

RttiInit ==
    /\ rH \in {h \in Hierarchies : RCareful => RttiRules(h)}
    /\ rT = TypeInfos(rH)
    /\ rQuery = NoAnswer /\ rAnswer = Failed
RttiNext ==
    \/ \E dest \in 1 .. NClasses : AskUpcast(dest)
    \/ \E s \in Parts(rH, NClasses, NClasses, 1), dest \in 1 .. NClasses : AskDynamicCast(s, dest)
RttiSpec == RttiInit /\ [][RttiNext]_rttiVars

(* A handler for a class takes an object exactly if the class is an          *)
(* unambiguous public base, and gets the address of that part; a dynamic cast *)
(* finds the target the language names, or fails when there is none.          *)
CastsRight ==
    /\ rQuery.kind = "upcast" => rAnswer = UpcastRule(rH, rQuery.dest)
    /\ rQuery.kind = "dynamic_cast" => rAnswer = DynamicCastRule(rH, rQuery.src, rQuery.dest)
=============================================================================
