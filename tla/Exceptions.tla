------------------------------ MODULE Exceptions ------------------------------
(***************************************************************************)
(* Throwing and catching (stdlib/cpp/cxxabi.cpp, the LSDA readers in       *)
(* stdlib/include/cxxabi, and the choice of the globals in                 *)
(* kernel/cpp/klib_cstdlib_impl.cpp).                                      *)
(*                                                                         *)
(* A process is a stack of frames. The unwinder of libgcc is external: it  *)
(* asks the personality routine of every frame for a handler, then walks   *)
(* again and runs what the routine installs. The compiler is external too: *)
(* a handler begins with __cxa_begin_catch, and leaving it, by its end or  *)
(* by an exception, calls __cxa_end_catch. Which class is a base of which  *)
(* is in Rtti; here there is a base "B" and a class "D" derived from it.   *)
(***************************************************************************)
EXTENDS Integers, Sequences, FiniteSets

CONSTANTS
    XProcs,
    Lsdas,        \* call site tables of the functions
    CallIps,      \* last bytes of the call instructions in them
    MaxDepth, MaxCallsX, MaxThrows, \* bounds on frames, calls and throws
    XCareful      \* are pointers left out of throws? see ThrowTypes

\* Types: a class, or a pointer to it, to const or not.
Class(c) == [ptr |-> FALSE, const |-> FALSE, cls |-> c]
Pointer(k, c) == [ptr |-> TRUE, const |-> k, cls |-> c]
ThrowTypes == {Class("B"), Class("D")} \cup (IF XCareful THEN {} ELSE {Pointer(FALSE, "D"), Pointer(FALSE, "B")})
\* Clauses: a type, catch (...), or a cleanup.
AnyType == Class("any")
CleanupIndex == Class("cleanup")

Clauses == [ptr : BOOLEAN, const : BOOLEAN, cls : STRING]
CallSites == [start : Nat, len : Nat, lp : BOOLEAN, acts : Seq(Clauses)]
Surrounds(cs, ip) == cs.lp /\ ip \in cs.start .. cs.start + cs.len - 1

\* The compiler's tables: regions do not overlap, a cleanup is the last action,
\* and as a call is longer than a byte its last byte is not right behind a region.
ASSUME ExcAssumption ==
    /\ Lsdas \subseteq Seq(CallSites) /\ CallIps \subseteq Nat
    /\ MaxDepth \in Nat /\ MaxCallsX \in Nat /\ MaxThrows \in Nat /\ XCareful \in BOOLEAN
    /\ \A l \in Lsdas, ip \in CallIps :
          /\ \A i \in DOMAIN l : ip # l[i].start + l[i].len
          /\ \A i, j \in DOMAIN l : Surrounds(l[i], ip) /\ Surrounds(l[j], ip) => i = j
          /\ \A i \in DOMAIN l : \A k \in DOMAIN l[i].acts : l[i].acts[k] = CleanupIndex => k = Len(l[i].acts)

VARIABLES
    xStack,       \* the frames of each process, innermost last
    xFly,         \* exceptions in flight, the latest last
    xExc,         \* exception objects that exist
    xEh,          \* __cxa_eh_globals: caughtExceptions and uncaughtExceptions
    xSkipped,     \* has a frame been left without its cleanup?
    xCalls, xThrows,
    xJunk         \* does the memory behind the type information of a class match?
excVars == <<xStack, xFly, xExc, xEh, xSkipped, xCalls, xThrows, xJunk>>

Top(p) == xStack[p][Len(xStack[p])]
Flying(p) == xFly[p][Len(xFly[p])]
Body(l, ip) == [lsda |-> l, ip |-> ip, mode |-> "body", exc |-> 0]
Turned(f, mode, e) == [lsda |-> f.lsda, ip |-> f.ip, mode |-> mode, exc |-> e]
Flight(e, phase, at, target) == [exc |-> e, phase |-> phase, at |-> at, target |-> target]
Popped(s) == SubSeq(s, 1, Len(s) - 1)
Topped(s, x) == [s EXCEPT ![Len(s)] = x]
\* Ordinary code runs in the innermost frame: no unwinding, or a cleanup.
Running(p) == IF xFly[p] = <<>> THEN TRUE ELSE Flying(p).phase = "landed"

ExcInit ==
    /\ xStack = [p \in XProcs |-> <<>>] /\ xFly = [p \in XProcs |-> <<>>]
    /\ xExc = <<>>
    /\ xEh = [p \in XProcs |-> [caught |-> 0, uncaught |-> 0]]
    /\ xSkipped = FALSE /\ xCalls = 0 /\ xThrows = 0
    /\ xJunk \in IF XCareful THEN {FALSE} ELSE BOOLEAN

-----------------------------------------------------------------------------
(* Which frame takes an exception                                          *)
\* Mutant: the region is taken to begin behind its start and to be longer.
ContainsIpLate(cs, ip) == ip >= cs.start + 1 /\ ip <= cs.start + cs.len + 2

\* LsdaCsEntry::contains_ip: the byte behind the region counts as inside.
ContainsIp(cs, ip) == ip >= cs.start /\ ip <= cs.start + cs.len

\* __do_catch for the clause c and the thrown type t. Two pointer types are
\* compared by their flags, and the product in place of a mask makes every
\* pointer to const refuse all but its own type. A thrown type that is not a
\* pointer is read as one, and what is found there depends on the build.
IsBaseOf(b, d) == b = d \/ (b = "B" /\ d = "D")
DoCatch(c, t) ==
    \/ c = t
    \/ ~c.ptr /\ ~t.ptr /\ IsBaseOf(c.cls, t.cls)
    \/ c.ptr /\ ~t.ptr /\ xJunk
    \/ c.ptr /\ t.ptr /\ ~c.const /\ ~t.const /\ IsBaseOf(c.cls, t.cls)

\* can_handle keeps the address of the exception object; the pointer in it is
\* never read.
AdjustedPtr(t) == "object"
CanHandle(c, t) == c = AnyType \/ DoCatch(c, t)

\* The actions of one call site in their order: where the chain stops. In the
\* search a cleanup is passed over.
ActionAt(acts, t, phase) ==
    LET stops(i) == IF acts[i] = CleanupIndex THEN phase = "cleanup" ELSE CanHandle(acts[i], t)
        at == {i \in DOMAIN acts : stops(i)}
    IN IF at = {} THEN "continue"
       ELSE LET i == CHOOSE j \in at : \A k \in at : j <= k
            IN IF acts[i] = CleanupIndex THEN "cleanup" ELSE "handler"

\* __gxx_personality_v0 for a frame: the call sites with a landing pad around the
\* instruction, in their order, until one of them has an answer.
Personality(f, t, phase) ==
    LET answer(cs) ==
            IF ~cs.lp \/ ~ContainsIp(cs, f.ip) THEN "continue"
            ELSE IF cs.acts = <<>> THEN (IF phase = "cleanup" THEN "cleanup" ELSE "continue")
            ELSE ActionAt(cs.acts, t, phase)
        at == {i \in DOMAIN f.lsda : answer(f.lsda[i]) # "continue"}
    IN IF at = {} THEN "continue" ELSE answer(f.lsda[CHOOSE i \in at : \A j \in at : i <= j])

\* A frame that is in a handler or a cleanup has no handler of its own there.
Answers(f, t, phase) == IF f.mode = "body" THEN Personality(f, t, phase) ELSE "continue"

-----------------------------------------------------------------------------
(* Exception objects                                                       *)
\* __cxa_get_globals: every process has its own, made when first asked for.
Globals(p) == p

NewExc(t) == [type |-> t, count |-> 0, next |-> 0, adjusted |-> "unset"]

\* __cxa_allocate_exception and __cxa_throw: the search starts at the innermost
\* frame.
Throw(p, t) ==
    /\ Running(p) /\ xStack[p] # <<>> /\ Top(p).mode # "pad" /\ xThrows < MaxThrows
    /\ LET e == xThrows + 1
       IN /\ xExc' = [i \in DOMAIN xExc \cup {e} |-> IF i = e THEN NewExc(t) ELSE xExc[i]]
          /\ xEh' = [xEh EXCEPT ![Globals(p)].uncaught = @ + 1]
          /\ xFly' = [xFly EXCEPT ![p] = Append(@, Flight(e, "search", Len(xStack[p]), 0))]
    /\ xThrows' = xThrows + 1
    /\ UNCHANGED <<xStack, xSkipped, xCalls>>

\* __cxa_rethrow: the innermost exception being handled, its count negated. The
\* count of uncaught exceptions has gone up before there is seen to be none.
Rethrow(p) ==
    LET e == xEh[Globals(p)].caught
        phase == IF e = 0 THEN "terminate" ELSE "search"
    IN /\ Running(p) /\ xStack[p] # <<>> /\ Top(p).mode # "pad" /\ xThrows < MaxThrows
       /\ \A i \in DOMAIN xFly[p] : xFly[p][i].exc # e
       /\ xEh' = [xEh EXCEPT ![Globals(p)].uncaught = @ + 1]
       /\ xExc' = IF e = 0 THEN xExc ELSE [xExc EXCEPT ![e].count = -@]
       /\ xFly' = [xFly EXCEPT ![p] = Append(@, Flight(e, phase, Len(xStack[p]), 0))]
       /\ xThrows' = xThrows + 1
       /\ UNCHANGED <<xStack, xSkipped, xCalls>>

\* __cxa_begin_catch
BeginCount(n) == IF n < 0 THEN 1 - n ELSE n + 1
BeginCatch(p) ==
    LET e == Top(p).exc
        g == Globals(p)
        x == xExc[e]
    IN /\ Running(p) /\ xStack[p] # <<>> /\ Top(p).mode = "pad"
       /\ xExc' = [xExc EXCEPT ![e] =
                     [type |-> x.type, count |-> BeginCount(x.count), adjusted |-> x.adjusted,
                      next |-> IF xEh[g].caught # e THEN xEh[g].caught ELSE x.next]]
       /\ xEh' = [xEh EXCEPT ![g] = [caught |-> e, uncaught |-> @.uncaught - 1]]
       /\ xStack' = [xStack EXCEPT ![p] = Topped(@, Turned(Top(p), "catch", e))]
       /\ UNCHANGED <<xFly, xSkipped, xCalls, xThrows>>

\* Mutant: a rethrown exception is deleted with its first handler.
EndEffectDeletes(p) ==
    LET g == Globals(p)
        e == xEh[g].caught
        left == IF xExc[e].count < 0 THEN xExc[e].count + 1 ELSE xExc[e].count - 1
    IN IF left = 0
       THEN /\ xEh' = [xEh EXCEPT ![g].caught = xExc[e].next]
            /\ xExc' = [i \in DOMAIN xExc \ {e} |-> xExc[i]]
       ELSE UNCHANGED xEh /\ xExc' = [xExc EXCEPT ![e].count = left]

\* __cxa_end_catch: the effect on exceptions and globals. The count goes towards
\* zero; there a rethrown exception only leaves the stack, another is deleted.
EndEffect(p) ==
    LET g == Globals(p)
        e == xEh[g].caught
        n == xExc[e].count
        left == IF n < 0 THEN n + 1 ELSE n - 1
    IN /\ xEh' = IF left = 0 THEN [xEh EXCEPT ![g].caught = xExc[e].next] ELSE xEh
       /\ xExc' = IF left = 0 /\ n > 0
                  THEN [i \in DOMAIN xExc \ {e} |-> xExc[i]]
                  ELSE [xExc EXCEPT ![e].count = left]

EndCatch(p, ip) ==
    /\ Running(p) /\ xStack[p] # <<>> /\ Top(p).mode = "catch"
    /\ EndEffect(p)
    /\ xStack' = [xStack EXCEPT ![p] = Topped(@, Body(Top(p).lsda, ip))]
    /\ UNCHANGED <<xFly, xSkipped, xCalls, xThrows>>

-----------------------------------------------------------------------------
(* The unwinder                                                            *)
SetFly(p, phase, at, target) ==
    xFly' = [xFly EXCEPT ![p] = Topped(@, Flight(Flying(p).exc, phase, at, target))]
SetTop(p, f) == xStack' = [xStack EXCEPT ![p] = Topped(@, f)]
PopFrame(p) == xStack' = [xStack EXCEPT ![p] = Popped(@)]

\* Search: a cleanup that throws out of its frame ends the program, as does an
\* exception nobody takes.
Search(p) ==
    /\ xFly[p] # <<>> /\ Flying(p).phase = "search"
    /\ LET f == Flying(p)
           t == xExc[f.exc].type
       IN IF f.at = 0 \/ xStack[p][f.at].mode = "cleanup"
          THEN SetFly(p, "terminate", f.at, 0) /\ UNCHANGED xExc
          ELSE IF Answers(xStack[p][f.at], t, "search") = "handler"
          THEN /\ SetFly(p, "cleanup", f.at, f.at)
               /\ xExc' = [xExc EXCEPT ![f.exc].adjusted = AdjustedPtr(t)]
          ELSE SetFly(p, "search", f.at - 1, 0) /\ UNCHANGED xExc
    /\ UNCHANGED <<xStack, xEh, xSkipped, xCalls, xThrows>>

HasCleanup(f) ==
    f.mode = "body" /\ \E i \in DOMAIN f.lsda :
        LET cs == f.lsda[i]
        IN Surrounds(cs, f.ip) /\ (cs.acts = <<>> \/ \E k \in DOMAIN cs.acts : cs.acts[k] = CleanupIndex)

\* The second walk. A handler's frame that is left runs __cxa_end_catch.
Land(p) ==
    LET f == Top(p)
        e == Flying(p).exc
        answer == Answers(f, xExc[e].type, "cleanup")
    IN /\ xFly[p] # <<>> /\ Flying(p).phase = "cleanup"
       /\ \/ /\ answer = "handler"
             /\ SetTop(p, Turned(f, "pad", e))
             /\ xFly' = [xFly EXCEPT ![p] = Popped(@)]
             /\ UNCHANGED <<xEh, xExc, xSkipped>>
          \/ /\ answer = "cleanup"
             /\ SetTop(p, Turned(f, "cleanup", e))
             /\ SetFly(p, "landed", Len(xStack[p]), Flying(p).target)
             /\ UNCHANGED <<xEh, xExc, xSkipped>>
          \/ /\ answer = "continue" /\ f.mode = "catch"
             /\ EndEffect(p)
             /\ PopFrame(p)
             /\ UNCHANGED <<xFly, xSkipped>>
          \/ /\ answer = "continue" /\ f.mode # "catch"
             /\ PopFrame(p)
             /\ xSkipped' = (xSkipped \/ HasCleanup(f))
             /\ UNCHANGED <<xFly, xEh, xExc>>
       /\ UNCHANGED <<xCalls, xThrows>>

\* The end of a cleanup: _Unwind_Resume goes on with the frames above.
Resume(p) ==
    /\ xFly[p] # <<>> /\ Flying(p).phase = "landed" /\ Top(p).mode = "cleanup"
    /\ SetFly(p, "cleanup", Flying(p).at, Flying(p).target)
    /\ PopFrame(p)
    /\ UNCHANGED <<xExc, xEh, xSkipped, xCalls, xThrows>>

\* Ordinary calls and returns.
Enter(p, l, ip) ==
    /\ Running(p) /\ (xStack[p] # <<>> => Top(p).mode # "pad")
    /\ Len(xStack[p]) < MaxDepth /\ xCalls < MaxCallsX
    /\ xStack' = [xStack EXCEPT ![p] = Append(@, Body(l, ip))]
    /\ xCalls' = xCalls + 1
    /\ UNCHANGED <<xFly, xExc, xEh, xSkipped, xThrows>>
Leave(p) ==
    /\ Running(p) /\ xStack[p] # <<>> /\ Top(p).mode = "body"
    /\ PopFrame(p)
    /\ UNCHANGED <<xFly, xExc, xEh, xSkipped, xCalls, xThrows>>

ExcNext ==
    /\ UNCHANGED xJunk
    /\ \E p \in XProcs :
        \/ \E t \in ThrowTypes : Throw(p, t)
        \/ Rethrow(p) \/ BeginCatch(p) \/ Search(p) \/ Land(p) \/ Resume(p) \/ Leave(p)
        \/ \E ip \in CallIps : EndCatch(p, ip)
        \/ \E l \in Lsdas, ip \in CallIps : Enter(p, l, ip)
ExcSpec == ExcInit /\ [][ExcNext]_excVars

-----------------------------------------------------------------------------
(* The innermost frame whose region around the call has a clause for the     *)
(* type takes an exception: what the language says, read off the table.      *)
Matches(c, t) == c = AnyType \/ c = t \/ (c # CleanupIndex /\ ~c.ptr /\ ~t.ptr /\ IsBaseOf(c.cls, t.cls))
Takes(f, t) ==
    f.mode = "body" /\ \E i \in DOMAIN f.lsda :
        /\ Surrounds(f.lsda[i], f.ip)
        /\ \E k \in DOMAIN f.lsda[i].acts : f.lsda[i].acts[k] # CleanupIndex /\ Matches(f.lsda[i].acts[k], t)
HandlersInnermost ==
    /\ ~xSkipped
    /\ \A p \in XProcs : \A i \in DOMAIN xFly[p] :
          LET f == xFly[p][i]
          IN f.phase \in {"cleanup", "landed"} /\ f.exc \in DOMAIN xExc =>
                /\ Len(xStack[p]) >= f.target
                /\ f.phase = "cleanup" /\ i = Len(xFly[p]) =>
                      /\ Takes(xStack[p][f.target], xExc[f.exc].type)
                      /\ \A j \in f.target + 1 .. Len(xStack[p]) : ~Takes(xStack[p][j], xExc[f.exc].type)

(* An exception exists as long as it flies or some handler has it, and no    *)
(* longer; its count is the number of its handlers, negative while it is      *)
(* rethrown; each process has its own chain of caught exceptions, in the      *)
(* order of its handlers, and its own number of uncaught ones.                *)
\* c is the exception of the innermost of the handlers k (handler's frame ->
\* exception) up to frame n, and 0 if there is none.
HandlersOf(s) == [i \in {j \in DOMAIN s : s[j].mode = "catch"} |-> s[i].exc]
Innermost(k, n, c) ==
    \/ c = 0 /\ \A i \in DOMAIN k : ~(i <= n)
    \/ \E i \in DOMAIN k : i <= n /\ k[i] = c /\ \A j \in DOMAIN k : j <= n => j <= i
InOrder(p) ==
    LET k == HandlersOf(xStack[p])
    IN /\ Innermost(k, Len(xStack[p]), xEh[Globals(p)].caught)
       /\ \A i \in DOMAIN k : Innermost(k, i - 1, k[i]) \/ Innermost(k, i - 1, xExc[k[i]].next)
Uses(p, e) == Cardinality({i \in DOMAIN HandlersOf(xStack[p]) : HandlersOf(xStack[p])[i] = e})
FlyingIn(p) == {xFly[p][i].exc : i \in DOMAIN xFly[p]} \ {0}
Padded(p) == {xStack[p][i].exc : i \in {j \in DOMAIN xStack[p] : xStack[p][j].mode = "pad"}}
ExceptionsOwned ==
    /\ \A e \in DOMAIN xExc :
          LET handlers == {p \in XProcs : Uses(p, e) > 0}
              fliers == {p \in XProcs : e \in FlyingIn(p)}
          IN /\ Cardinality(handlers \cup fliers \cup {p \in XProcs : e \in Padded(p)}) = 1
             /\ \A p \in handlers : xExc[e].count \in {Uses(p, e), -Uses(p, e)}
             /\ \A p \in handlers : xExc[e].count < 0 => e \in FlyingIn(p) \cup Padded(p)
    /\ \A p \in XProcs :
          /\ \A i \in DOMAIN xStack[p] : xStack[p][i].mode \in {"catch", "pad"} => xStack[p][i].exc \in DOMAIN xExc
          /\ FlyingIn(p) \subseteq DOMAIN xExc
          /\ xEh[Globals(p)].uncaught = Len(xFly[p]) + Cardinality({i \in DOMAIN xStack[p] : xStack[p][i].mode = "pad"})
          /\ InOrder(p)

(* A handler for a pointer gets the pointer that was thrown: can_handle       *)
(* dereferences the exception, says its comment.                              *)
PointersDereferenced ==
    \A e \in DOMAIN xExc : xExc[e].type.ptr /\ xExc[e].adjusted # "unset" => xExc[e].adjusted = "pointer"
=============================================================================
