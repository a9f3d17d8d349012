------------------------- MODULE SignalManagerProofs -------------------------
(***************************************************************************)
(* Proofs about SignalManager: no wake-up is lost and every exit is        *)
(* recorded once, for every number of processes, every set of timeouts and *)
(* every length of the lists, as long as no interrupt comes in the windows *)
(* each theorem names.                                                     *)
(***************************************************************************)
EXTENDS SignalManager, TLAPS, FiniteSetTheorems, WellFoundedInduction

-----------------------------------------------------------------------------
(* The inductive invariants.                                               *)

\* What the status s, the place w in the code and the call o of a process
\* have to do with one another.
Row(s, w, o) ==
    /\ s = "absent" <=> w = "gone"
    /\ s = "zombie" <=> o = "exit"
    /\ o = "exit" => w \in {"spin", "woken"}
    /\ o = "none" <=> w \in {"user", "read", "gone"}
    /\ o = "poll" => w \in {"check", "add", "count", "sleep", "yield", "spin", "woken"}
    /\ o = "wait" => w \in {"scan", "sleep", "yield", "spin", "woken", "reap"}
    /\ w \in {"check", "add", "count"} => o = "poll"
    /\ w \in {"scan", "reap"} => o = "wait"
    /\ w = "sleep" => o \in {"poll", "wait"}
    /\ s = "sleeping" => w \in {"yield", "spin", "woken"}

Control ==
    \A p \in Pids : /\ Row(status[p], pc[p], op[p])
                    /\ status[p] = "active" => p = current

\* The process that has the CPU is active, unless it has just gone to sleep
\* or ended and looks for a successor.
Running ==
    /\ status[current] # "absent"
    /\ status[current] # "active" => pc[current] \in {"yield", "spin"}

\* The requests on pending_polls are those of the processes that have
\* registered in poll and not returned from it.
Registered == {"count", "sleep", "yield", "spin", "woken"}
PollsOwned ==
    \A p \in Pids : OwnPolls(p) # {} <=> op[p] = "poll" /\ pc[p] \in Registered

\* The handler's index is one of the list, and wait reaps a PID of the table.
InRange ==
    /\ irq.on # None => irq.i > 0
    /\ \A p \in Pids : pc[p] = "reap" => ret[p] # None

BaseInv == TypeOK /\ Control /\ Running /\ PollsOwned /\ InRange

\* The stretches of poll between the check and the sleep are not left by a
\* switch, and the keyboard handler is not either.
PollAtomic ==
    /\ \A p \in Pids : pc[p] \in {"add", "count"} => p = current
    /\ \A p \in Pids : pc[p] = "sleep" /\ op[p] = "poll" => p = current
    /\ irq.on \in {None, current}
    /\ irq.on = None => irq = Idle
    /\ irq.on # None => /\ pc[current] # "add"
                        /\ ~(pc[current] = "sleep" /\ op[current] = "poll")

\* What the handler has passed is fired and awake.
HandlerDone ==
    irq # Idle => \A k \in 1 .. Len(pending_polls) : k < irq.i =>
        pending_polls[k].fired /\ status[pending_polls[k].pid] # "sleeping"

\* Before the sleep the line has been looked for and is not there.
PollReady ==
    irq = Idle => \A p \in Pids : op[p] = "poll" =>
        /\ pc[p] = "add" => lines = 0
        /\ pc[p] = "count" => lines = 0 \/ Fired(p)
        /\ pc[p] = "sleep" => lines = 0 /\ ~Fired(p)

PollInv == BaseInv /\ PollAtomic /\ HandlerDone /\ PollReady /\ NoLostLine

\* A request for waitpid is on the list from the call until the return, and
\* it is the only one of its process.
Waiting == {"scan", "sleep", "yield", "spin", "woken"}
WaitsOwned ==
    /\ \A p \in Pids : OwnWaits(p) # {} <=> op[p] = "wait" /\ pc[p] \in Waiting
    /\ \A j, k \in 1 .. Len(pending_waits) :
         pending_waits[j].pid = pending_waits[k].pid => j = k

\* The scan and the way to the sleep are not left by a switch, so the last
\* request of the list is that of the process that scans.
WaitAtomic ==
    \A p \in Pids :
        /\ pc[p] = "scan" =>
             p = current /\ pending_waits[Len(pending_waits)].pid = p
        /\ pc[p] = "sleep" /\ op[p] = "wait" => p = current

WaitInv == BaseInv /\ WaitsOwned /\ WaitAtomic

\* Parents and children, as long as every PID is given out once.
Family ==
    /\ \A p, c \in Pids : c \in child_pids[p] => parent_pid[c] = p
    /\ \A c \in Pids : parent_pid[c] \in Pids =>
         parent_pid[c] = InitPid \/ parent_pid[parent_pid[c]] # None
    /\ \A c \in Pids : status[c] # "absent" /\ c # InitPid => parent_pid[c] # None
    /\ status[InitPid] \notin {"absent", "zombie"}
    /\ \A k \in 1 .. Len(pending_waits) :
         pending_waits[k].pids \subseteq child_pids[pending_waits[k].pid]

\* The events on the list are zombies, each there once.
Events ==
    /\ \A k \in 1 .. Len(happened_waits) : status[happened_waits[k]] = "zombie"
    /\ \A j, k \in 1 .. Len(happened_waits) :
         happened_waits[j] = happened_waits[k] => j = k

Happened(c) == \E k \in 1 .. Len(happened_waits) : happened_waits[k] = c

\* What waitpid returns is a zombie child that is on the list no more.
Returned ==
    \A p \in Pids :
        /\ ret[p] # None <=> pc[p] = "reap"
        /\ ret[p] # None => /\ parent_pid[ret[p]] = p
                            /\ status[ret[p]] = "zombie"
                            /\ ~Happened(ret[p])

\* What a request says of its children at each stage: before the scan the
\* zombies among them are events, in the sleep there are none, and after it
\* the request names the one that woke the process.
Requests ==
    \A k \in 1 .. Len(pending_waits) :
        LET w == pending_waits[k] IN
        /\ pc[w.pid] = "scan" =>
             \A c \in w.pids : status[c] = "zombie" => Happened(c)
        /\ pc[w.pid] # "scan" => \A c \in w.pids : ~Happened(c)
        /\ pc[w.pid] = "sleep" \/ status[w.pid] = "sleeping" =>
             \A c \in w.pids : status[c] # "zombie"
        /\ pc[w.pid] \in {"yield", "spin", "woken"} /\ status[w.pid] # "sleeping" =>
             \E c \in w.pids : w.pids = {c} /\ status[c] = "zombie"

\* Where the exit of a child of a living parent is kept.
Recorded ==
    \A c \in Pids :
        (/\ status[c] = "zombie"
         /\ status[parent_pid[c]] \notin {"zombie", "absent"}) =>
            \/ Happened(c)
            \/ ret[parent_pid[c]] = c
            \/ \E k \in OwnWaits(parent_pid[c]) :
                 pending_waits[k].pids = {c} /\ pc[parent_pid[c]] # "scan"

ExitInv == WaitInv /\ Family /\ Events /\ Returned /\ Requests /\ Recorded

-----------------------------------------------------------------------------
(* What the operators of the model compute.                                *)

LEMMA LeastNat ==
    ASSUME NEW T, T \subseteq Nat, T # {}
    PROVE  \E x \in T : \A y \in T : x <= y
<1> DEFINE R == {ss \in Nat \X Nat : ss[1] < ss[2]}
<1>1. IsWellFoundedOn(R, Nat)
  BY NatLessThanWellFounded, Zenon DEF OpToRel
<1>2. PICK x \in T : \A y \in T : ~(<<y, x>> \in R)
  <2> HIDE DEF R
  <2> QED
    BY <1>1, WFMin
<1>3. ASSUME NEW y \in T
      PROVE  x <= y
  <2>1. x \in Nat /\ y \in Nat /\ ~(y < x)
    BY <1>2
  <2> QED
    BY <2>1
<1> QED
  BY <1>3

LEMMA FirstIn ==
    ASSUME NEW n \in Nat, NEW T, T \subseteq 1 .. n, T # {}
    PROVE  First(T) \in T
<1>1. T \subseteq Nat
  OBVIOUS
<1>2. \E x \in T : \A y \in T : x <= y
  BY <1>1, LeastNat
<1> QED
  BY <1>2 DEF First

\* A set of positions is finite, and so is every part of it.
LEMMA PositionsFinite ==
    ASSUME NEW n \in Nat, NEW K, K \subseteq 1 .. n
    PROVE  IsFiniteSet(K) /\ Cardinality(K) \in Nat
<1>1. IsFiniteSet(1 .. n)
  BY FS_Interval
<1> QED
  BY <1>1, FS_Subset, FS_CardinalityType

LEMMA BelowGrows ==
    ASSUME NEW K, \A x \in K : x \in Int, IsFiniteSet(K),
           NEW j \in K, NEW k \in K, j < k
    PROVE  Cardinality({x \in K : x <= j}) < Cardinality({x \in K : x <= k})
<1> DEFINE J == {x \in K : x <= j}
           L == {x \in K : x <= k}
<1>1. J \subseteq L
  OBVIOUS
<1>2. k \in L /\ k \notin J
  OBVIOUS
<1>3. IsFiniteSet(L)
  BY FS_Subset
<1> HIDE DEF J, L
<1>4. J # L /\ IsFiniteSet(J)
  BY <1>1, <1>2, <1>3, FS_Subset
<1>5. Cardinality(J) <= Cardinality(L) /\ Cardinality(J) # Cardinality(L)
  BY <1>1, <1>3, <1>4, FS_Subset
<1>6. Cardinality(J) \in Nat /\ Cardinality(L) \in Nat
  BY <1>3, <1>4, FS_CardinalityType
<1>7. Cardinality(J) < Cardinality(L)
  BY <1>5, <1>6
<1> QED
  BY <1>7 DEF J, L

\* The list t holds what s has at the positions in K, each once.
IsKept(t, s, K) ==
    /\ \A i \in 1 .. Len(t) : \E k \in K : t[i] = s[k]
    /\ \A k \in K : \E i \in 1 .. Len(t) : t[i] = s[k]
    /\ \A i, j \in 1 .. Len(t) : i # j =>
         \E k, l \in K : k # l /\ t[i] = s[k] /\ t[j] = s[l]

\* Keep does what its name says.
LEMMA KeepFacts ==
    ASSUME NEW S, NEW s \in Seq(S), NEW K \in SUBSET (1 .. Len(s))
    PROVE  Keep(s, K) \in Seq(S) /\ IsKept(Keep(s, K), s, K)
<1> DEFINE t == Keep(s, K)
<1> DEFINE below(k) == {j \in K : j <= k}
           n == Cardinality(K)
           rank == [k \in K |-> Cardinality(below(k))]
           h == [i \in 1 .. n |-> CHOOSE k \in K : Cardinality(below(k)) = i]
<1>0. Len(s) \in Nat /\ \A k \in K : k \in Int /\ k \in 1 .. Len(s)
  OBVIOUS
<1>1. IsFiniteSet(K) /\ n \in Nat
  BY <1>0, PositionsFinite
<1>2. ASSUME NEW k \in K
      PROVE  /\ IsFiniteSet(below(k))
             /\ Cardinality(below(k)) \in 1 .. n
  <2>1. below(k) \subseteq K /\ k \in below(k)
    OBVIOUS
  <2>2. IsFiniteSet(below(k)) /\ Cardinality(below(k)) <= n
    BY <1>1, <2>1, FS_Subset
  <2>3. Cardinality(below(k)) \in Nat /\ Cardinality(below(k)) # 0
    BY <2>1, <2>2, FS_CardinalityType, FS_EmptySet
  <2> QED
    BY <1>1, <2>2, <2>3
<1>3. ASSUME NEW j \in K, NEW k \in K, j < k
      PROVE  Cardinality(below(j)) < Cardinality(below(k))
  BY <1>0, <1>1, <1>3, BelowGrows
<1>4. rank \in Injection(K, 1 .. n)
  <2>1. rank \in [K -> 1 .. n]
    BY <1>2
  <2>2. \A j, k \in K : j < k => rank[j] < rank[k]
    BY <1>3
  <2> HIDE DEF rank, n
  <2>3. \A j, k \in K : rank[j] = rank[k] => j = k
    BY <1>0, <2>1, <2>2
  <2> QED
    BY <2>1, <2>3 DEF Injection, IsInjective
<1>5. rank \in Surjection(K, 1 .. n)
  <2>1. IsFiniteSet(1 .. n) /\ Cardinality(1 .. n) = n
    BY <1>1, FS_Interval
  <2> QED
    BY <1>4, <2>1, FS_Injection
<1>6. ASSUME NEW i \in 1 .. n
      PROVE  h[i] \in K /\ rank[h[i]] = i
  <2>1. \E k \in K : Cardinality(below(k)) = i
    BY <1>5 DEF Surjection
  <2> QED
    BY <2>1
<1>7. t = [i \in 1 .. n |-> s[h[i]]]
  BY DEF Keep
<1>11. h \in [1 .. n -> K]
  BY <1>6
<1> HIDE DEF h
<1>8. ASSUME NEW i \in 1 .. n
      PROVE  s[h[i]] \in S
  <2>1. h[i] \in 1 .. Len(s)
    BY <1>0, <1>6
  <2> QED
    BY <2>1
<1>9. t \in [1 .. n -> S]
  BY <1>7, <1>8
<1>10. ASSUME NEW k \in K
       PROVE  \E i \in 1 .. n : h[i] = k
  <2>1. rank[k] \in 1 .. n /\ rank[h[rank[k]]] = rank[k]
    BY <1>2, <1>6
  <2>2. h[rank[k]] = k
    BY <1>4, <1>6, <2>1 DEF Injection, IsInjective
  <2> QED
    BY <2>1, <2>2
<1>12. \A i, j \in 1 .. n : h[i] = h[j] => i = j
  BY <1>6
<1>13. \A i \in 1 .. n : t[i] = s[h[i]]
  BY <1>7
<1> HIDE DEF n, rank, t
<1>14. t \in Seq(S) /\ Len(t) = n
  BY <1>1, <1>9
<1>15. \A i \in 1 .. n : \E k \in K : t[i] = s[k]
  BY <1>6, <1>13
<1>16. \A k \in K : \E i \in 1 .. n : t[i] = s[k]
  BY <1>10, <1>13
<1>17. ASSUME NEW i \in 1 .. n, NEW j \in 1 .. n, i # j
       PROVE  \E k, l \in K : k # l /\ t[i] = s[k] /\ t[j] = s[l]
  <2>1. h[i] \in K /\ h[j] \in K /\ h[i] # h[j]
    BY <1>6, <1>12, <1>17
  <2>2. t[i] = s[h[i]] /\ t[j] = s[h[j]]
    BY <1>13
  <2> QED
    BY <2>1, <2>2
<1>18. IsKept(t, s, K)
  BY <1>14, <1>15, <1>16, <1>17 DEF IsKept
<1> QED
  BY <1>14, <1>18 DEF t

\* Somebody is chosen whenever somebody can run.
LEMMA ChosenEligible ==
    ASSUME current \in Pids, NEW st, Eligible(st) # {}
    PROVE  Chosen(st) \in Eligible(st)
<1> DEFINE T == {Turn(q) : q \in Eligible(st)}
<1>1. \A q \in Eligible(st) : Turn(q) \in Nat
  BY NPidsAssumption DEF Eligible, Turn, Pids
<1>2. T \subseteq Nat /\ T # {}
  BY <1>1
<1>3. PICK x \in T : \A y \in T : x <= y
  BY <1>2, LeastNat
<1>4. \E q \in Eligible(st) : \A r \in Eligible(st) : Turn(q) <= Turn(r)
  BY <1>3
<1> QED
  BY <1>4 DEF Chosen

\* What a switch does to the statuses: the process it chooses is active and
\* nobody else becomes so, and nobody falls asleep, wakes up or ends.
LEMMA NextProcFacts ==
    ASSUME current \in Pids, NEW st \in [Pids -> Status], NextProc(st)
    PROVE  /\ status' \in [Pids -> Status] /\ current' \in Pids
           /\ \A p \in Pids : /\ status'[p] = "sleeping" <=> st[p] = "sleeping"
                              /\ status'[p] = "zombie" <=> st[p] = "zombie"
                              /\ status'[p] = "absent" <=> st[p] = "absent"
           /\ \/ status' = st /\ current' = current /\ st[current] # "active"
              \/ /\ status'[current'] = "active"
                 /\ \A p \in Pids : status'[p] = "active" =>
                        p = current' \/ (st[p] = "active" /\ p # current)
<1>1. CASE Eligible(st) = {}
  BY <1>1 DEF NextProc, Eligible
<1>2. CASE Eligible(st) # {}
  <2>1. Chosen(st) \in Eligible(st)
    BY <1>2, ChosenEligible
  <2>2. Chosen(st) \in Pids /\ st[Chosen(st)] \in {"runnable", "active"}
    BY <2>1 DEF Eligible
  <2>3. /\ status' = [st EXCEPT ![current] = IF @ = "active" THEN "runnable" ELSE @,
                                ![Chosen(st)] = "active"]
        /\ current' = Chosen(st)
    BY <1>2 DEF NextProc
  <2> HIDE DEF Chosen
  <2> QED
    BY <2>2, <2>3 DEF Status
<1> QED
  BY <1>1, <1>2

\* Taking a process's polls back leaves those of the others.
LEMMA ErasePollsFacts ==
    ASSUME TypeOK, NEW p \in Pids, ErasePolls(p)
    PROVE  /\ pending_polls' \in Seq(PollEvent)
           /\ OwnPolls(p)' = {}
           /\ \A q \in Pids : q # p =>
                /\ OwnPolls(q)' # {} <=> OwnPolls(q) # {}
                /\ Fired(q)' <=> Fired(q)
<1> DEFINE K == (1 .. Len(pending_polls)) \ OwnPolls(p)
<1>1. pending_polls \in Seq(PollEvent) /\ K \in SUBSET (1 .. Len(pending_polls))
  BY DEF TypeOK
<1>2. pending_polls' \in Seq(PollEvent) /\ IsKept(pending_polls', pending_polls, K)
  <2>1. pending_polls' = Keep(pending_polls, K)
    BY DEF ErasePolls
  <2> HIDE DEF K
  <2> QED
    BY <1>1, <2>1, KeepFacts
<1>3. K = {k \in 1 .. Len(pending_polls) : pending_polls[k].pid # p}
  BY DEF OwnPolls
<1> HIDE DEF K
<1>4. ASSUME NEW i \in OwnPolls(p)'
      PROVE  FALSE
  <2>1. PICK k \in K : pending_polls'[i] = pending_polls[k]
    BY <1>2 DEF IsKept, OwnPolls
  <2> QED
    BY <1>3, <2>1 DEF OwnPolls
<1>5. ASSUME NEW q \in Pids, q # p
      PROVE  /\ OwnPolls(q)' # {} <=> OwnPolls(q) # {}
             /\ Fired(q)' <=> Fired(q)
  <2>1. ASSUME NEW k \in OwnPolls(q)
        PROVE  \E i \in OwnPolls(q)' : pending_polls'[i] = pending_polls[k]
    <3>1. k \in K
      BY <1>3, <1>5 DEF OwnPolls
    <3>2. PICK i \in 1 .. Len(pending_polls') : pending_polls'[i] = pending_polls[k]
      BY <1>2, <3>1 DEF IsKept
    <3> QED
      BY <3>2 DEF OwnPolls
  <2>2. ASSUME NEW i \in OwnPolls(q)'
        PROVE  \E k \in OwnPolls(q) : pending_polls'[i] = pending_polls[k]
    <3>1. PICK k \in K : pending_polls'[i] = pending_polls[k]
      BY <1>2 DEF IsKept, OwnPolls
    <3> QED
      BY <1>3, <3>1 DEF OwnPolls
  <2> QED
    BY <2>1, <2>2 DEF Fired
<1> QED
  BY <1>2, <1>4, <1>5

\* A tick keeps the polls of every process that is not gone, fired or not,
\* wakes processes that poll and nobody else, and switches.
LEMMA TickFacts ==
    ASSUME TypeOK, TickDown
    PROVE  /\ pending_polls' \in Seq(PollEvent)
           /\ \A q \in Pids : OwnPolls(q)' # {} => OwnPolls(q) # {}
           /\ \A q \in Pids : status[q] # "absent" =>
                /\ OwnPolls(q) # {} => OwnPolls(q)' # {}
                /\ Fired(q)' <=> Fired(q)
           /\ \E st \in [Pids -> Status] :
                /\ NextProc(st)
                /\ \A p \in Pids : st[p] # status[p] =>
                     status[p] = "sleeping" /\ st[p] = "runnable" /\ OwnPolls(p) # {}
<1> DEFINE gone(e) == Expires(e) /\ status[e.pid] = "absent"
           K == {k \in 1 .. Len(pending_polls) : ~gone(pending_polls[k])}
           kept == Keep(pending_polls, K)
           woken == {pending_polls[k].pid : k \in
                       {j \in 1 .. Len(pending_polls) : Expires(pending_polls[j])}}
           st == [p \in Pids |-> IF p \in woken /\ status[p] = "sleeping"
                                 THEN "runnable" ELSE status[p]]
<1>1. /\ pending_polls' = [k \in 1 .. Len(kept) |-> Ticked(kept[k])]
      /\ NextProc(st)
  BY DEF TickDown
<1>2. pending_polls \in Seq(PollEvent) /\ K \in SUBSET (1 .. Len(pending_polls))
  BY DEF TypeOK
<1>3. kept \in Seq(PollEvent) /\ IsKept(kept, pending_polls, K)
  <2> HIDE DEF K
  <2> QED
    BY <1>2, KeepFacts
<1>4. \A e \in PollEvent : /\ Ticked(e) \in PollEvent
                           /\ Ticked(e).pid = e.pid
                           /\ Ticked(e).fired = e.fired
  BY DEF Ticked, PollEvent
<1>5. st \in [Pids -> Status] /\ \A p \in Pids : st[p] # status[p] =>
        status[p] = "sleeping" /\ st[p] = "runnable" /\ p \in woken
  BY DEF TypeOK, Status
<1>6. \A p \in woken : OwnPolls(p) # {}
  BY <1>2 DEF OwnPolls
<1> HIDE DEF kept, K, woken, st
<1>7. /\ pending_polls' \in Seq(PollEvent)
      /\ Len(pending_polls') = Len(kept)
      /\ \A i \in 1 .. Len(kept) : /\ pending_polls'[i].pid = kept[i].pid
                                   /\ pending_polls'[i].fired = kept[i].fired
  <2>1. \A i \in 1 .. Len(kept) : kept[i] \in PollEvent
    BY <1>3
  <2>2. \A i \in 1 .. Len(kept) : Ticked(kept[i]) \in PollEvent
    BY <1>4, <2>1
  <2>3. pending_polls' \in [1 .. Len(kept) -> PollEvent] /\ Len(kept) \in Nat
    BY <1>1, <1>3, <2>2
  <2>4. pending_polls' \in Seq(PollEvent) /\ Len(pending_polls') = Len(kept)
    BY <2>3
  <2> QED
    BY <1>1, <1>4, <2>1, <2>4
<1>8. ASSUME NEW q \in Pids, NEW i \in OwnPolls(q)'
      PROVE  \E k \in OwnPolls(q) :
                pending_polls'[i].fired = pending_polls[k].fired
  <2>1. i \in 1 .. Len(kept) /\ kept[i].pid = q
    BY <1>7 DEF OwnPolls
  <2>2. PICK k \in K : kept[i] = pending_polls[k]
    BY <1>3, <2>1 DEF IsKept
  <2> QED
    BY <1>2, <1>7, <2>1, <2>2 DEF OwnPolls
<1>9. ASSUME NEW q \in Pids, status[q] # "absent", NEW k \in OwnPolls(q)
      PROVE  \E i \in OwnPolls(q)' :
                pending_polls'[i].fired = pending_polls[k].fired
  <2>1. k \in K
    BY <1>9 DEF K, OwnPolls
  <2>2. PICK i \in 1 .. Len(kept) : kept[i] = pending_polls[k]
    BY <1>3, <2>1 DEF IsKept
  <2> QED
    BY <1>7, <2>2 DEF OwnPolls
<1>10. \A q \in Pids : OwnPolls(q)' # {} => OwnPolls(q) # {}
  BY <1>8
<1>11. \A q \in Pids : status[q] # "absent" =>
         (OwnPolls(q) # {} => OwnPolls(q)' # {}) /\ (Fired(q)' <=> Fired(q))
  BY <1>8, <1>9 DEF Fired
<1> QED
  BY <1>1, <1>5, <1>6, <1>7, <1>10, <1>11

LEMMA RemoveAtFacts ==
    ASSUME NEW S, NEW s \in Seq(S), NEW i \in 1 .. Len(s)
    PROVE  /\ RemoveAt(s, i) \in Seq(S)
           /\ Len(RemoveAt(s, i)) = Len(s) - 1
           /\ IsKept(RemoveAt(s, i), s, (1 .. Len(s)) \ {i})
<1> DEFINE t == RemoveAt(s, i)
<1>1. t \in [1 .. Len(s) - 1 -> S] /\ Len(s) - 1 \in Nat
  BY DEF RemoveAt
<1>2. t \in Seq(S) /\ Len(t) = Len(s) - 1
  BY <1>1
<1>3. \A k \in 1 .. Len(s) - 1 : t[k] = s[IF k < i THEN k ELSE k + 1]
  BY DEF RemoveAt
<1> HIDE DEF t
<1>4. ASSUME NEW k \in 1 .. Len(t)
      PROVE  \E l \in (1 .. Len(s)) \ {i} : t[k] = s[l]
  <2>1. (IF k < i THEN k ELSE k + 1) \in (1 .. Len(s)) \ {i}
    BY <1>2
  <2> QED
    BY <1>2, <1>3, <2>1
<1>5. ASSUME NEW l \in (1 .. Len(s)) \ {i}
      PROVE  \E k \in 1 .. Len(t) : t[k] = s[l]
  <2>1. CASE l < i
    <3>1. l \in 1 .. Len(s) - 1 /\ t[l] = s[l]
      BY <1>3, <2>1
    <3> QED
      BY <1>2, <3>1
  <2>2. CASE ~(l < i)
    <3>1. l - 1 \in 1 .. Len(s) - 1 /\ t[l - 1] = s[l]
      BY <1>3, <2>2
    <3> QED
      BY <1>2, <3>1
  <2> QED
    BY <2>1, <2>2
<1>6. ASSUME NEW k \in 1 .. Len(t), NEW l \in 1 .. Len(t), k # l
      PROVE  \E a, b \in (1 .. Len(s)) \ {i} : a # b /\ t[k] = s[a] /\ t[l] = s[b]
  <2> DEFINE a == IF k < i THEN k ELSE k + 1
             b == IF l < i THEN l ELSE l + 1
  <2>1. a \in (1 .. Len(s)) \ {i} /\ b \in (1 .. Len(s)) \ {i} /\ a # b
    BY <1>2, <1>6
  <2>2. t[k] = s[a] /\ t[l] = s[b]
    BY <1>2, <1>3
  <2> HIDE DEF a, b
  <2> QED
    BY <2>1, <2>2
<1> QED
  BY <1>2, <1>4, <1>5, <1>6 DEF IsKept, t

-----------------------------------------------------------------------------
(* BaseInv is inductive, whatever the windows.                             *)

USE DEF None, InitPid

LEMMA PidsFacts == /\ InitPid \in Pids /\ None \notin Pids /\ Pids \subseteq Nat
                   /\ Infinite \in Int
BY NPidsAssumption DEF Pids, Infinite

\* Leaving poll or waitpid keeps the types.
LEMMA ReturnType ==
    ASSUME TypeOK, NEW p \in Pids, NEW w \in Pcs, Return(p, w)
    PROVE  /\ pc' \in [Pids -> Pcs]
           /\ op' \in [Pids -> {"none", "poll", "wait", "exit"}]
           /\ timeout' \in [Pids -> Int]
BY PidsFacts DEF TypeOK, Return, Goto

\* One turn of notify_file: nobody's poll goes as long as it is on the list
\* of a process that is not gone, what has fired stays so, and whoever is
\* woken polls.
LEMMA NotifyFacts ==
    ASSUME BaseInv, NotifyFile
    PROVE  /\ irq.i \in 1 .. Len(pending_polls)
           /\ pending_polls[irq.i] \in PollEvent
           /\ status[pending_polls[irq.i].pid] # "absent"
           /\ pending_polls' = [pending_polls EXCEPT ![irq.i].fired = TRUE]
           /\ status' = WakeUp(status, pending_polls[irq.i].pid)
           /\ irq' = [irq EXCEPT !.i = @ + 1]
           /\ pending_polls' \in Seq(PollEvent)
           /\ Len(pending_polls') = Len(pending_polls)
           /\ \A k \in 1 .. Len(pending_polls) :
                /\ pending_polls'[k].pid = pending_polls[k].pid
                /\ k # irq.i => pending_polls'[k] = pending_polls[k]
                /\ k = irq.i => pending_polls'[k].fired = TRUE
           /\ \A p \in Pids : OwnPolls(p)' = OwnPolls(p)
<1>1. irq.i \in 1 .. Len(pending_polls)
  BY PidsFacts DEF NotifyFile, BaseInv, InRange, TypeOK
<1>2. pending_polls[irq.i] \in PollEvent /\ pending_polls[irq.i].pid \in Pids
  <2>1. pending_polls[irq.i] \in PollEvent
    BY <1>1 DEF BaseInv, TypeOK
  <2> QED
    BY <2>1 DEF PollEvent
<1>3. status[pending_polls[irq.i].pid] # "absent"
  <2> DEFINE p == pending_polls[irq.i].pid
  <2>1. OwnPolls(p) # {}
    BY <1>1 DEF OwnPolls
  <2>2. op[p] = "poll"
    BY <1>2, <2>1 DEF BaseInv, PollsOwned
  <2> QED
    BY <1>2, <2>2 DEF BaseInv, Control, Row
<1>4. /\ pending_polls' = [pending_polls EXCEPT ![irq.i].fired = TRUE]
      /\ status' = WakeUp(status, pending_polls[irq.i].pid)
      /\ irq' = [irq EXCEPT !.i = @ + 1]
  BY <1>3 DEF NotifyFile
<1>5. pending_polls \in Seq(PollEvent)
  BY DEF BaseInv, TypeOK
<1>6. pending_polls' = [pending_polls EXCEPT ![irq.i] =
                           [pending_polls[irq.i] EXCEPT !.fired = TRUE]]
  BY <1>1, <1>4, <1>5
<1>7. [pending_polls[irq.i] EXCEPT !.fired = TRUE] \in PollEvent
  BY <1>2 DEF PollEvent
<1>8. /\ pending_polls' \in Seq(PollEvent)
      /\ Len(pending_polls') = Len(pending_polls)
  BY <1>1, <1>5, <1>6, <1>7
<1>9. \A k \in 1 .. Len(pending_polls) :
         /\ pending_polls'[k].pid = pending_polls[k].pid
         /\ k # irq.i => pending_polls'[k] = pending_polls[k]
         /\ k = irq.i => pending_polls'[k].fired = TRUE
  BY <1>1, <1>2, <1>5, <1>6 DEF PollEvent
<1>10. \A p \in Pids : OwnPolls(p)' = OwnPolls(p)
  BY <1>8, <1>9 DEF OwnPolls
<1> QED
  BY <1>1, <1>2, <1>3, <1>4, <1>8, <1>9, <1>10

\* A step of the running process that changes no row but its own.
LEMMA OwnRow ==
    ASSUME BaseInv, current' = current,
           \A q \in Pids : q # current =>
                status'[q] = status[q] /\ pc'[q] = pc[q] /\ op'[q] = op[q],
           Row(status'[current], pc'[current], op'[current]),
           status'[current] # "absent",
           status'[current] # "active" => pc'[current] \in {"yield", "spin"}
    PROVE  Control' /\ Running'
BY DEF BaseInv, Control, Running

\* The steps of a process that leave the lists and the family alone.
LEMMA BaseQuiet ==
    ASSUME BaseInv, NEW p \in Pids,
           PollCall(p) \/ PollCheck(p) \/ Sleep(p) \/ Yield(p) \/ Read(p)
    PROVE  BaseInv'
<1> USE PidsFacts DEF At, Goto, sched, family, lists, locals
<1>0. /\ Row(status[p], pc[p], op[p])
      /\ p = current /\ status[p] # "absent"
      /\ status[p] # "active" => pc[p] \in {"yield", "spin"}
  BY DEF BaseInv, Control, Running, PollCall, PollCheck, Sleep, Yield, Read
<1>1. CASE PollCall(p)
  <2>1. TypeOK'
    BY <1>1, TimeoutsAssumption DEF PollCall, BaseInv, TypeOK, Pcs, Status
  <2>2. Control' /\ Running'
    BY <1>0, <1>1, OwnRow DEF PollCall, BaseInv, TypeOK, Row
  <2>3. PollsOwned' /\ InRange'
    <3>1. \A q \in Pids : OwnPolls(q)' = OwnPolls(q)
      BY <1>1 DEF PollCall, OwnPolls
    <3> QED
      BY <1>0, <1>1, <3>1 DEF PollCall, BaseInv, TypeOK, Row, PollsOwned, InRange, Registered
  <2> QED
    BY <2>1, <2>2, <2>3 DEF BaseInv
<1>2. CASE PollCheck(p)
  <2>1. TypeOK'
    <3>1. CASE lines > 0
      <4>1. TypeOK /\ Return(p, "read") /\ "read" \in Pcs
        BY <1>2, <3>1 DEF PollCheck, BaseInv, Pcs
      <4> QED
        BY <1>2, <3>1, <4>1, ReturnType DEF PollCheck, TypeOK
    <3>2. CASE ~(lines > 0)
      BY <1>2, <3>2 DEF PollCheck, BaseInv, TypeOK, Pcs
    <3> QED
      BY <3>1, <3>2
  <2>2. Control' /\ Running'
    BY <1>0, <1>2, OwnRow, SMTT(20) DEF PollCheck, Return, BaseInv, TypeOK, Row
  <2>3. PollsOwned' /\ InRange'
    <3>1. \A q \in Pids : OwnPolls(q)' = OwnPolls(q)
      BY <1>2 DEF PollCheck, Return, OwnPolls
    <3> QED
      BY <1>0, <1>2, <3>1 DEF PollCheck, Return, BaseInv, TypeOK, Row, PollsOwned, InRange, Registered
  <2> QED
    BY <2>1, <2>2, <2>3 DEF BaseInv
<1>3. CASE Sleep(p)
  <2>1. TypeOK'
    BY <1>3 DEF Sleep, BaseInv, TypeOK, Pcs, Status
  <2>2. Control' /\ Running'
    BY <1>0, <1>3, OwnRow DEF Sleep, BaseInv, TypeOK, Row
  <2>3. PollsOwned' /\ InRange'
    <3>1. \A q \in Pids : OwnPolls(q)' = OwnPolls(q)
      BY <1>3 DEF Sleep, OwnPolls
    <3> QED
      BY <1>0, <1>3, <3>1 DEF Sleep, BaseInv, TypeOK, Row, PollsOwned, InRange, Registered
  <2> QED
    BY <2>1, <2>2, <2>3 DEF BaseInv
<1>4. CASE Yield(p)
  <2>1. TypeOK'
    BY <1>4 DEF Yield, BaseInv, TypeOK, Pcs, Status
  <2>2. Control' /\ Running'
    BY <1>0, <1>4, OwnRow DEF Yield, BaseInv, TypeOK, Row
  <2>3. PollsOwned' /\ InRange'
    <3>1. \A q \in Pids : OwnPolls(q)' = OwnPolls(q)
      BY <1>4 DEF Yield, OwnPolls
    <3> QED
      BY <1>0, <1>4, <3>1 DEF Yield, BaseInv, TypeOK, Row, PollsOwned, InRange, Registered
  <2> QED
    BY <2>1, <2>2, <2>3 DEF BaseInv
<1>5. CASE Read(p)
  <2>1. TypeOK'
    BY <1>5 DEF Read, BaseInv, TypeOK, Pcs, Status
  <2>2. Control' /\ Running'
    BY <1>0, <1>5, OwnRow DEF Read, BaseInv, TypeOK, Row
  <2>3. PollsOwned' /\ InRange'
    <3>1. \A q \in Pids : OwnPolls(q)' = OwnPolls(q)
      BY <1>5 DEF Read, OwnPolls
    <3> QED
      BY <1>0, <1>5, <3>1 DEF Read, BaseInv, TypeOK, Row, PollsOwned, InRange, Registered
  <2> QED
    BY <2>1, <2>2, <2>3 DEF BaseInv
<1> QED
  BY <1>1, <1>2, <1>3, <1>4, <1>5

\* The steps that change pending_polls or take requests off pending_waits.
LEMMA BasePoll ==
    ASSUME BaseInv, NEW p \in Pids, PollAdd(p) \/ PollCount(p) \/ PollWoken(p)
    PROVE  BaseInv'
<1> USE PidsFacts DEF At, Goto, sched, family, lists, locals
<1>0. /\ Row(status[p], pc[p], op[p])
      /\ p = current /\ status[p] # "absent"
      /\ status[p] # "active" => pc[p] \in {"yield", "spin"}
      /\ TypeOK
  BY DEF BaseInv, Control, Running, PollAdd, PollCount, PollWoken
<1>1. CASE PollAdd(p)
  <2> DEFINE e == [pid |-> p, fired |-> FALSE, left |-> timeout[p]]
  <2>1. e \in PollEvent
    BY <1>0 DEF TypeOK, PollEvent
  <2>2. /\ pending_polls' = Append(pending_polls, e)
        /\ pending_polls' \in Seq(PollEvent)
        /\ Len(pending_polls') = Len(pending_polls) + 1
        /\ pending_polls'[Len(pending_polls) + 1].pid = p
        /\ \A k \in 1 .. Len(pending_polls) : pending_polls'[k] = pending_polls[k]
    BY <1>0, <1>1, <2>1 DEF PollAdd, TypeOK
  <2>3. TypeOK'
    BY <1>0, <1>1, <2>2 DEF PollAdd, TypeOK, Pcs
  <2>4. Control' /\ Running'
    BY <1>0, <1>1, OwnRow DEF PollAdd, TypeOK, Row
  <2>5. OwnPolls(p)' # {} /\ \A q \in Pids : q # p => OwnPolls(q)' = OwnPolls(q)
    <3>1. Len(pending_polls) \in Nat
      BY <1>0 DEF TypeOK
    <3>2. Len(pending_polls) + 1 \in OwnPolls(p)'
      BY <2>2, <3>1 DEF OwnPolls
    <3>3. \A q \in Pids : q # p => OwnPolls(q)' = OwnPolls(q)
      BY <2>2, <3>1 DEF OwnPolls
    <3> QED
      BY <3>2, <3>3
  <2>6. PollsOwned' /\ InRange'
    BY <1>0, <1>1, <2>5
       DEF PollAdd, BaseInv, TypeOK, Row, PollsOwned, InRange, Registered
  <2> QED
    BY <2>3, <2>4, <2>6 DEF BaseInv
<1>2. CASE PollCount(p)
  <2>1. CASE Fired(p)
    <3>1. ErasePolls(p) /\ Return(p, "read")
      BY <1>2, <2>1 DEF PollCount
    <3>2. TypeOK'
      <4>1. "read" \in Pcs /\ pending_polls' \in Seq(PollEvent)
        BY <1>0, <3>1, ErasePollsFacts DEF Pcs
      <4> QED
        BY <1>0, <1>2, <2>1, <3>1, <4>1, ReturnType DEF PollCount, TypeOK
    <3>3. Control' /\ Running'
      BY <1>0, <1>2, <3>1, OwnRow DEF PollCount, Return, TypeOK, Row
    <3>4. PollsOwned' /\ InRange'
      BY <1>0, <1>2, <3>1, ErasePollsFacts
         DEF PollCount, Return, BaseInv, TypeOK, PollsOwned, InRange
    <3> QED
      BY <3>2, <3>3, <3>4 DEF BaseInv
  <2>2. CASE ~Fired(p)
    <3>1. UNCHANGED <<op, timeout, pending_polls, notifying>> /\ Goto(p, "sleep")
      BY <1>2, <2>2 DEF PollCount
    <3>2. TypeOK'
      BY <1>0, <1>2, <3>1 DEF PollCount, TypeOK, Pcs
    <3>3. Control' /\ Running'
      BY <1>0, <1>2, <3>1, OwnRow DEF PollCount, TypeOK, Row
    <3>4. \A q \in Pids : OwnPolls(q)' = OwnPolls(q)
      BY <3>1 DEF OwnPolls
    <3>5. PollsOwned' /\ InRange'
      BY <1>0, <1>2, <3>1, <3>4
         DEF PollCount, BaseInv, TypeOK, Row, PollsOwned, InRange, Registered
    <3> QED
      BY <3>2, <3>3, <3>5 DEF BaseInv
  <2> QED
    BY <2>1, <2>2
<1>3. CASE PollWoken(p)
  <2>1. PICK w \in {"read", "user"} : Return(p, w)
    BY <1>3 DEF PollWoken
  <2>2. TypeOK'
    <3>1. w \in Pcs /\ pending_polls' \in Seq(PollEvent)
      BY <1>0, <1>3, <2>1, ErasePollsFacts DEF PollWoken, Pcs
    <3> QED
      BY <1>0, <1>3, <2>1, <3>1, ReturnType DEF PollWoken, TypeOK
  <2>3. Control' /\ Running'
    BY <1>0, <1>3, <2>1, OwnRow DEF PollWoken, Return, TypeOK, Row
  <2>4. PollsOwned' /\ InRange'
    <3>1. /\ OwnPolls(p)' = {}
          /\ \A q \in Pids : q # p => (OwnPolls(q)' # {} <=> OwnPolls(q) # {})
      BY <1>0, <1>3, ErasePollsFacts DEF PollWoken
    <3>2. /\ op'[p] = "none" /\ pc'[p] # "reap"
          /\ \A q \in Pids : q # p => op'[q] = op[q] /\ pc'[q] = pc[q]
      BY <1>0, <2>1 DEF Return, TypeOK
    <3> QED
      BY <1>3, <3>1, <3>2 DEF PollWoken, BaseInv, PollsOwned, InRange
  <2> QED
    BY <2>2, <2>3, <2>4 DEF BaseInv
<1> QED
  BY <1>1, <1>2, <1>3

\* A switch, from statuses st that at most wake processes up.
LEMMA SwitchRows ==
    ASSUME BaseInv, NEW st \in [Pids -> Status], NextProc(st),
           \A p \in Pids : st[p] # status[p] =>
                status[p] = "sleeping" /\ st[p] = "runnable",
           pc' \in [Pids -> Pcs], op' = op,
           \A q \in Pids : q # current => pc'[q] = pc[q],
           pc'[current] = pc[current] \/ (pc[current] = "spin" /\ pc'[current] = "woken"),
           pc'[current] # pc[current] => Eligible(st) # {}
    PROVE  Control' /\ Running' /\ status' \in [Pids -> Status] /\ current' \in Pids
<1>1. current \in Pids /\ status \in [Pids -> Status]
  BY DEF BaseInv, TypeOK
<1>2. /\ status' \in [Pids -> Status] /\ current' \in Pids
      /\ \A p \in Pids : /\ status'[p] = "sleeping" <=> st[p] = "sleeping"
                         /\ status'[p] = "zombie" <=> st[p] = "zombie"
                         /\ status'[p] = "absent" <=> st[p] = "absent"
  BY <1>1, NextProcFacts
<1>3. \A p \in Pids : Row(status'[p], pc'[p], op'[p])
  BY <1>1, <1>2 DEF BaseInv, Control, Row
<1>4. \/ status' = st /\ current' = current /\ Eligible(st) = {}
      \/ /\ status'[current'] = "active"
         /\ \A p \in Pids : status'[p] = "active" =>
                p = current' \/ (st[p] = "active" /\ p # current)
  BY <1>1, NextProcFacts DEF NextProc
<1>5. \A p \in Pids : st[p] = "active" => status[p] = "active"
  BY <1>1
<1>6. \A p \in Pids : status'[p] = "active" => p = current'
  BY <1>1, <1>4, <1>5 DEF BaseInv, Control
<1>7. Running'
  <2>1. CASE status' = st /\ current' = current /\ Eligible(st) = {}
    <3>1. status'[current'] # "absent"
      BY <1>1, <1>2, <2>1 DEF BaseInv, Running
    <3>2. pc'[current'] = pc[current'] /\ status'[current'] # "active"
      BY <1>1, <2>1 DEF Eligible
    <3>3. pc[current] \in {"yield", "spin"}
      <4>1. status[current] # "active"
        BY <1>1, <2>1, <3>2
      <4> QED
        BY <4>1 DEF BaseInv, Running
    <3> QED
      BY <2>1, <3>1, <3>2, <3>3 DEF Running
  <2>2. CASE status'[current'] = "active"
    BY <2>2 DEF Running
  <2> QED
    BY <1>4, <2>1, <2>2
<1> QED
  BY <1>2, <1>3, <1>6, <1>7 DEF Control

LEMMA BaseTick == ASSUME BaseInv, Tick PROVE BaseInv'
<1> USE PidsFacts DEF locals, family
<1>1. PICK st \in [Pids -> Status] :
        /\ NextProc(st)
        /\ \A p \in Pids : st[p] # status[p] =>
             status[p] = "sleeping" /\ st[p] = "runnable" /\ OwnPolls(p) # {}
  BY TickFacts DEF Tick, BaseInv
<1>2. /\ UNCHANGED <<pc, op, locals, family, pending_waits, happened_waits, lines, irq>>
      /\ notifying' = FALSE /\ TickDown
  BY DEF Tick, TickDown
<1>3. Control' /\ Running' /\ status' \in [Pids -> Status] /\ current' \in Pids
  BY <1>1, <1>2, SwitchRows DEF BaseInv, TypeOK
<1>4. TypeOK'
  BY <1>2, <1>3, TickFacts DEF BaseInv, TypeOK
<1>5. \A q \in Pids : OwnPolls(q)' # {} <=> OwnPolls(q) # {}
  <2>1. \A q \in Pids : status[q] = "absent" => OwnPolls(q) = {}
    BY DEF BaseInv, Control, Row, PollsOwned, Registered
  <2> QED
    BY <1>2, <2>1, TickFacts DEF BaseInv
<1>6. PollsOwned' /\ InRange'
  BY <1>2, <1>5 DEF BaseInv, PollsOwned, InRange
<1> QED
  BY <1>3, <1>4, <1>6 DEF BaseInv

LEMMA BaseSpin == ASSUME BaseInv, NEW p \in Pids, SpinEnds(p) PROVE BaseInv'
<1> USE PidsFacts DEF locals, family, lists, At, Goto
<1>1. Control' /\ Running' /\ status' \in [Pids -> Status] /\ current' \in Pids
  <2>1. /\ pc' = [pc EXCEPT ![current] = "woken"] /\ pc[current] = "spin"
        /\ op' = op /\ NextProc(status) /\ Eligible(status) # {}
    BY DEF SpinEnds
  <2>2. pc' \in [Pids -> Pcs] /\ status \in [Pids -> Status]
    BY <2>1 DEF BaseInv, TypeOK, Pcs
  <2>3. pc'[current] = "woken" /\ \A q \in Pids : q # current => pc'[q] = pc[q]
    BY <2>1 DEF BaseInv, TypeOK
  <2> QED
    BY <2>1, <2>2, <2>3, SwitchRows
<1>2. TypeOK'
  BY <1>1 DEF SpinEnds, BaseInv, TypeOK, Pcs
<1>3. PollsOwned' /\ InRange'
  <2>1. \A q \in Pids : OwnPolls(q)' = OwnPolls(q)
    BY DEF SpinEnds, OwnPolls
  <2> QED
    BY <2>1 DEF SpinEnds, BaseInv, TypeOK, PollsOwned, InRange, Registered
<1> QED
  BY <1>1, <1>2, <1>3 DEF BaseInv

LEMMA BaseIrq ==
    ASSUME BaseInv, Key \/ NotifyFile \/ NotifyFileEnds
    PROVE  BaseInv'
<1> USE PidsFacts DEF locals, family, lists, sched
<1>1. CASE Key
  <2>1. TypeOK' /\ InRange'
    BY <1>1 DEF Key, BaseInv, TypeOK, InRange
  <2>2. Control' /\ Running' /\ PollsOwned'
    BY <1>1 DEF Key, BaseInv, Control, Running, PollsOwned, OwnPolls
  <2> QED
    BY <2>1, <2>2 DEF BaseInv
<1>2. CASE NotifyFile
  <2> DEFINE q == pending_polls[irq.i].pid
  <2>1. q \in Pids /\ status' = WakeUp(status, q)
    BY <1>2, NotifyFacts DEF PollEvent
  <2>2. status' \in [Pids -> Status] /\ \A p \in Pids : status'[p] # status[p] =>
          status[p] = "sleeping" /\ status'[p] = "runnable"
    <3> HIDE DEF q
    <3> QED
      BY <2>1 DEF BaseInv, TypeOK, WakeUp, Status
  <2>3. TypeOK' /\ InRange'
    <3>1. pending_polls' \in Seq(PollEvent) /\ irq' = [irq EXCEPT !.i = @ + 1]
      BY <1>2, NotifyFacts
    <3>2. irq \in [on : Pids \cup {None}, i : Nat]
      BY DEF BaseInv, TypeOK
    <3>3. irq' = [on |-> irq.on, i |-> irq.i + 1]
      BY <3>1, <3>2
    <3>4. irq' \in [on : Pids \cup {None}, i : Nat] /\ irq'.i > 0
      BY <3>2, <3>3
    <3> QED
      BY <1>2, <2>2, <3>1, <3>4 DEF NotifyFile, BaseInv, TypeOK, InRange
  <2>4. Control' /\ Running'
    <3>1. pc' = pc /\ op' = op /\ current' = current
      BY <1>2 DEF NotifyFile
    <3>2. \A p \in Pids : Row(status'[p], pc'[p], op'[p])
      BY <2>2, <3>1 DEF BaseInv, Control, Row
    <3>3. current \in Pids
      BY DEF BaseInv, TypeOK
    <3> QED
      BY <2>2, <3>1, <3>2, <3>3 DEF BaseInv, Control, Running, Row
  <2>5. PollsOwned'
    <3>1. pc' = pc /\ op' = op
      BY <1>2 DEF NotifyFile
    <3>2. \A p \in Pids : OwnPolls(p)' = OwnPolls(p)
      BY <1>2, NotifyFacts
    <3> QED
      BY <3>1, <3>2 DEF BaseInv, PollsOwned
  <2> QED
    BY <2>3, <2>4, <2>5 DEF BaseInv
<1>3. CASE NotifyFileEnds
  <2>1. TypeOK' /\ InRange'
    BY <1>3 DEF NotifyFileEnds, BaseInv, TypeOK, InRange, Idle
  <2>2. Control' /\ Running' /\ PollsOwned'
    BY <1>3 DEF NotifyFileEnds, BaseInv, Control, Running, PollsOwned, OwnPolls
  <2> QED
    BY <2>1, <2>2 DEF BaseInv
<1> QED
  BY <1>1, <1>2, <1>3

\* What a scan that matches takes: an event, and the request at the end.
LEMMA ScanFacts ==
    ASSUME TypeOK, NEW p \in Pids, Matches(p) # {}
    PROVE  /\ First(Matches(p)) \in Matches(p)
           /\ First(Matches(p)) \in 1 .. Len(happened_waits)
           /\ happened_waits[First(Matches(p))] \in Pids
           /\ Len(pending_waits) \in 1 .. Len(pending_waits)
<1>1. Len(happened_waits) \in Nat /\ Matches(p) \subseteq 1 .. Len(happened_waits)
  BY DEF TypeOK, Matches
<1>2. First(Matches(p)) \in Matches(p)
  BY <1>1, FirstIn
<1>3. OwnWaits(p) # {}
  BY DEF Matches
<1>4. Len(pending_waits) \in Nat /\ Len(pending_waits) # 0
  BY <1>3 DEF OwnWaits, TypeOK
<1> HIDE DEF Matches, First
<1> QED
  BY <1>1, <1>2, <1>4 DEF TypeOK

LEMMA BaseWait ==
    ASSUME BaseInv, NEW p \in Pids, WaitCall(p) \/ WaitScan(p) \/ WaitWoken(p)
    PROVE  BaseInv'
<1> USE PidsFacts DEF At, Goto, sched, family, locals
<1>0. /\ Row(status[p], pc[p], op[p])
      /\ p = current /\ status[p] # "absent"
      /\ status[p] # "active" => pc[p] \in {"yield", "spin"}
      /\ TypeOK
      /\ pending_polls' = pending_polls
  BY DEF BaseInv, Control, Running, WaitCall, WaitScan, WaitWoken
<1>1. \A q \in Pids : OwnPolls(q)' = OwnPolls(q)
  BY <1>0 DEF OwnPolls
<1>2. CASE WaitCall(p)
  <2>1. PICK T \in SUBSET Pids :
          pending_waits' = Append(pending_waits, [pid |-> p, pids |-> T])
    <3>1. PICK T \in {child_pids[p]} \cup {{c} : c \in child_pids[p]} :
            pending_waits' = Append(pending_waits, [pid |-> p, pids |-> T])
      BY <1>2 DEF WaitCall
    <3>2. child_pids[p] \in SUBSET Pids
      BY <1>0 DEF TypeOK
    <3>3. T \in SUBSET Pids
      BY <3>1, <3>2
    <3> QED
      BY <3>1, <3>3
  <2>2. pending_waits' \in Seq(WaitRequest)
    BY <1>0, <2>1 DEF TypeOK, WaitRequest
  <2>3. TypeOK'
    BY <1>0, <1>2, <2>2 DEF WaitCall, TypeOK, Pcs
  <2>4. Control' /\ Running'
    BY <1>0, <1>2, OwnRow DEF WaitCall, TypeOK, Row
  <2>5. PollsOwned' /\ InRange'
    BY <1>0, <1>1, <1>2 DEF WaitCall, BaseInv, TypeOK, Row, PollsOwned, InRange
  <2> QED
    BY <2>3, <2>4, <2>5 DEF BaseInv
<1>3. CASE WaitScan(p)
  <2>1. CASE Matches(p) # {}
    <3> DEFINE e == First(Matches(p))
    <3>1. /\ ret' = [ret EXCEPT ![p] = happened_waits[e]]
          /\ happened_waits' = RemoveAt(happened_waits, e)
          /\ pending_waits' = RemoveAt(pending_waits, Len(pending_waits))
          /\ notifying' = FALSE
          /\ pc' = [pc EXCEPT ![p] = "reap"]
          /\ UNCHANGED <<op, timeout, sched, family, pending_polls, lines, irq>>
      BY <1>3, <2>1 DEF WaitScan
    <3>2. happened_waits[e] \in Pids /\ e \in 1 .. Len(happened_waits)
      BY <1>0, <2>1, ScanFacts
    <3>3. Len(pending_waits) \in 1 .. Len(pending_waits)
      BY <1>0, <2>1, ScanFacts
    <3> HIDE DEF e
    <3>4. happened_waits' \in Seq(Pids) /\ pending_waits' \in Seq(WaitRequest)
      BY <1>0, <3>1, <3>2, <3>3, RemoveAtFacts DEF TypeOK
    <3>5. TypeOK'
      BY <1>0, <3>1, <3>2, <3>4 DEF TypeOK, Pcs
    <3>6. Control' /\ Running'
      BY <1>0, <1>3, <3>1, OwnRow DEF WaitScan, TypeOK, Row
    <3>7. PollsOwned' /\ InRange'
      BY <1>0, <1>1, <1>3, <3>1, <3>2
         DEF WaitScan, BaseInv, TypeOK, Row, PollsOwned, InRange
    <3> QED
      BY <3>5, <3>6, <3>7 DEF BaseInv
  <2>2. CASE Matches(p) = {}
    <3>1. /\ UNCHANGED <<ret, happened_waits, pending_waits, notifying>>
          /\ pc' = [pc EXCEPT ![p] = "sleep"]
          /\ UNCHANGED <<op, timeout, sched, family, pending_polls, lines, irq>>
      BY <1>3, <2>2 DEF WaitScan
    <3>2. TypeOK'
      BY <1>0, <3>1 DEF TypeOK, Pcs
    <3>3. Control' /\ Running'
      BY <1>0, <1>3, <3>1, OwnRow DEF WaitScan, TypeOK, Row
    <3>4. PollsOwned' /\ InRange'
      BY <1>0, <1>1, <1>3, <3>1 DEF WaitScan, BaseInv, TypeOK, Row, PollsOwned, InRange
    <3> QED
      BY <3>2, <3>3, <3>4 DEF BaseInv
  <2> QED
    BY <2>1, <2>2
<1>4. CASE WaitWoken(p)
  <2>1. CASE OwnWaits(p) # {}
    <3> DEFINE w == First(OwnWaits(p))
    <3>1. w \in OwnWaits(p)
      <4>1. Len(pending_waits) \in Nat /\ OwnWaits(p) \subseteq 1 .. Len(pending_waits)
        BY <1>0 DEF OwnWaits, TypeOK
      <4> QED
        BY <2>1, <4>1, FirstIn
    <3>2. /\ w \in 1 .. Len(pending_waits)
          /\ pending_waits[w] \in WaitRequest
      BY <1>0, <3>1 DEF OwnWaits, TypeOK
    <3>3. pending_waits[w].pids \subseteq Pids
      BY <3>2 DEF WaitRequest
    <3> HIDE DEF w
    <3>4. PICK c \in Pids : ret' = [ret EXCEPT ![p] = c]
      BY <1>4, <2>1, <3>3 DEF WaitWoken, w
    <3>5. /\ pending_waits' = RemoveAt(pending_waits, w)
          /\ pc' = [pc EXCEPT ![p] = "reap"]
          /\ UNCHANGED <<op, timeout>>
          /\ UNCHANGED <<sched, family, pending_polls, happened_waits, notifying,
                         lines, irq>>
      BY <1>4, <2>1 DEF WaitWoken, w
    <3>6. pending_waits' \in Seq(WaitRequest)
      BY <1>0, <3>2, <3>5, RemoveAtFacts DEF TypeOK
    <3>7. TypeOK'
      BY <1>0, <3>4, <3>5, <3>6 DEF TypeOK, Pcs
    <3>8. Control' /\ Running'
      BY <1>0, <1>4, <3>5, OwnRow DEF WaitWoken, TypeOK, Row
    <3>9. PollsOwned' /\ InRange'
      BY <1>0, <1>1, <1>4, <3>4, <3>5
         DEF WaitWoken, BaseInv, TypeOK, Row, PollsOwned, InRange
    <3> QED
      BY <3>7, <3>8, <3>9 DEF BaseInv
  <2>2. CASE OwnWaits(p) = {}
    <3>1. /\ Return(p, "user") /\ UNCHANGED <<ret, pending_waits>>
          /\ UNCHANGED <<sched, family, pending_polls, happened_waits, notifying,
                         lines, irq>>
      BY <1>4, <2>2 DEF WaitWoken
    <3>2. "user" \in Pcs
      BY DEF Pcs
    <3>3. TypeOK'
      BY <1>0, <3>1, <3>2, ReturnType DEF TypeOK
    <3>4. Control' /\ Running'
      BY <1>0, <1>4, <3>1, OwnRow DEF WaitWoken, Return, TypeOK, Row
    <3>5. PollsOwned' /\ InRange'
      BY <1>0, <1>1, <1>4, <3>1
         DEF WaitWoken, Return, BaseInv, TypeOK, Row, PollsOwned, InRange
    <3> QED
      BY <3>3, <3>4, <3>5 DEF BaseInv
  <2> QED
    BY <2>1, <2>2
<1> QED
  BY <1>2, <1>3, <1>4

LEMMA BaseReap == ASSUME BaseInv, NEW p \in Pids, Reap(p) PROVE BaseInv'
<1> USE PidsFacts DEF At, Goto, sched, family
<1>0. /\ Row(status[p], pc[p], op[p])
      /\ p = current /\ status[p] = "active"
      /\ TypeOK /\ ret' = [ret EXCEPT ![p] = None]
      /\ UNCHANGED <<current, family, notifying, lines, irq>>
  BY DEF BaseInv, Control, Running, Reap
<1>a. ret[p] \in Pids
  BY DEF BaseInv, InRange, Reap, TypeOK
<1>1. CASE status[ret[p]] = "zombie"
  <2>0. PICK c \in Pids : c = ret[p]
    BY <1>a
  <2>1. /\ PurgeProcess(c)
        /\ status' = [status EXCEPT ![c] = "absent"]
        /\ pc' = [pc EXCEPT ![p] = "user", ![c] = "gone"]
        /\ op' = [op EXCEPT ![p] = "none", ![c] = "none"]
        /\ timeout' = timeout
    BY <1>1, <2>0 DEF Reap
  <2>2. c \in Pids /\ c # p /\ status[c] = "zombie"
    BY <1>0, <1>1, <2>0
  <2>3. /\ happened_waits' \in Seq(Pids)
        /\ pending_waits' \in Seq(WaitRequest)
    <3> DEFINE H == {k \in 1 .. Len(happened_waits) : happened_waits[k] # c}
               W == (1 .. Len(pending_waits)) \ OwnWaits(c)
    <3>1. /\ happened_waits' = Keep(happened_waits, H)
          /\ pending_waits' = Keep(pending_waits, W)
      BY <2>1 DEF PurgeProcess
    <3>2. H \in SUBSET (1 .. Len(happened_waits)) /\ W \in SUBSET (1 .. Len(pending_waits))
      OBVIOUS
    <3> HIDE DEF H, W
    <3> QED
      BY <1>0, <3>1, <3>2, KeepFacts DEF TypeOK
  <2>4. pending_polls' \in Seq(PollEvent)
    BY <1>0, <2>1, <2>2, ErasePollsFacts DEF PurgeProcess
  <2>5. TypeOK'
    BY <1>0, <2>1, <2>2, <2>3, <2>4 DEF TypeOK, Pcs, Status
  <2>6. Control' /\ Running'
    <3>1. /\ status'[c] = "absent" /\ pc'[c] = "gone" /\ op'[c] = "none"
          /\ status'[p] = "active" /\ pc'[p] = "user" /\ op'[p] = "none"
          /\ \A q \in Pids : q # p /\ q # c =>
               status'[q] = status[q] /\ pc'[q] = pc[q] /\ op'[q] = op[q]
      BY <1>0, <2>1, <2>2 DEF TypeOK
    <3>2. Row(status'[c], pc'[c], op'[c]) /\ Row(status'[p], pc'[p], op'[p])
      BY <3>1 DEF Row
    <3> QED
      BY <1>0, <2>2, <3>1, <3>2 DEF BaseInv, Control, Running
  <2>7. PollsOwned' /\ InRange'
    <3>1. /\ OwnPolls(c)' = {}
          /\ \A q \in Pids : q # c => (OwnPolls(q)' # {} <=> OwnPolls(q) # {})
      <4>1. ErasePolls(c)
        BY <2>1 DEF PurgeProcess
      <4> QED
        BY <1>0, <2>2, <4>1, ErasePollsFacts
    <3>2. /\ op'[c] = "none" /\ op'[p] = "none" /\ op[p] = "wait"
          /\ pc'[c] = "gone" /\ pc'[p] = "user"
          /\ \A q \in Pids : q # p /\ q # c => pc'[q] = pc[q] /\ op'[q] = op[q]
          /\ \A q \in Pids : q # p => ret'[q] = ret[q]
      BY <1>0, <2>1, <2>2 DEF TypeOK, Reap, Row
    <3>3. PollsOwned'
      BY <2>2, <3>1, <3>2 DEF BaseInv, PollsOwned
    <3>4. InRange'
      BY <1>0, <3>2 DEF BaseInv, InRange
    <3> QED
      BY <3>3, <3>4
  <2> QED
    BY <2>5, <2>6, <2>7 DEF BaseInv
<1>2. CASE ~(status[ret[p]] = "zombie")
  <2>1. Return(p, "user") /\ UNCHANGED <<status, lists>>
    BY <1>2 DEF Reap
  <2>2. "user" \in Pcs
    BY DEF Pcs
  <2>3. TypeOK'
    BY <1>0, <2>1, <2>2, ReturnType DEF TypeOK, lists
  <2>4. Control' /\ Running'
    BY <1>0, <2>1, OwnRow DEF Return, TypeOK, Row
  <2>5. \A q \in Pids : OwnPolls(q)' = OwnPolls(q)
    BY <2>1 DEF OwnPolls, lists
  <2>6. PollsOwned' /\ InRange'
    BY <1>0, <2>1, <2>5 DEF Return, Reap, BaseInv, TypeOK, Row, PollsOwned, InRange
  <2> QED
    BY <2>3, <2>4, <2>6 DEF BaseInv
<1> QED
  BY <1>1, <1>2

LEMMA BaseFork == ASSUME BaseInv, NEW p \in Pids, Fork(p) PROVE BaseInv'
<1> USE PidsFacts DEF At, family, lists, locals
<1>1. PICK c \in Pids :
        /\ status[c] = "absent"
        /\ status' = [status EXCEPT ![c] = "runnable"]
        /\ pc' = [pc EXCEPT ![c] = "user"]
        /\ child_pids' = [child_pids EXCEPT ![p] = @ \cup {c}, ![c] = {}]
        /\ parent_pid' = [parent_pid EXCEPT ![c] = p]
  BY DEF Fork
<1>2. /\ p = current /\ status[p] # "absent" /\ c # p /\ op[c] = "none"
      /\ UNCHANGED <<op, locals, current, lists, notifying, lines, irq>>
  BY <1>1 DEF Fork, BaseInv, Control, Running, Row
<1>3. TypeOK'
  BY <1>1, <1>2 DEF BaseInv, TypeOK, Pcs, Status
<1>4. /\ status'[c] = "runnable" /\ pc'[c] = "user"
      /\ \A q \in Pids : q # c => status'[q] = status[q] /\ pc'[q] = pc[q]
  BY <1>1 DEF BaseInv, TypeOK
<1>5. Control' /\ Running'
  BY <1>2, <1>4 DEF BaseInv, Control, Running, Row
<1>6. \A q \in Pids : OwnPolls(q)' = OwnPolls(q)
  BY <1>2 DEF OwnPolls
<1>7. PollsOwned' /\ InRange'
  BY <1>2, <1>4, <1>6 DEF BaseInv, PollsOwned, InRange
<1> QED
  BY <1>3, <1>5, <1>7 DEF BaseInv

\* The end of c wakes at most one process, and one that was asleep.
LEMMA ExitFacts ==
    ASSUME BaseInv, NEW c \in Pids, Exit(c)
    PROVE  /\ c = current /\ status[c] = "active" /\ c # InitPid
           /\ status' \in [Pids -> Status] /\ status'[c] = "zombie"
           /\ \A q \in Pids : q # c /\ status'[q] # status[q] =>
                status[q] = "sleeping" /\ status'[q] = "runnable"
           /\ pending_waits' \in Seq(WaitRequest) /\ happened_waits' \in Seq(Pids)
<1> USE PidsFacts
<1>0. TypeOK
  BY DEF BaseInv
<1>1. c = current /\ pc[c] = "user" /\ status[c] = "active" /\ c # InitPid
  BY DEF Exit, At, BaseInv, Running
<1> DEFINE asking == {k \in 1 .. Len(pending_waits) : c \in pending_waits[k].pids}
           w == First(asking)
           zombie == [status EXCEPT ![c] = "zombie"]
<1>2. zombie \in [Pids -> Status] /\ zombie[c] = "zombie"
      /\ \A q \in Pids : q # c => zombie[q] = status[q]
  BY <1>0 DEF TypeOK, Status
<1>3. CASE asking # {}
  <2>1. /\ pending_waits' = [pending_waits EXCEPT ![w].pids = {c}]
        /\ status' = WakeUp(zombie, pending_waits[w].pid)
        /\ happened_waits' = happened_waits
    BY <1>3 DEF Exit, NotifyWait
  <2>2. w \in asking
    <3>1. Len(pending_waits) \in Nat /\ asking \subseteq 1 .. Len(pending_waits)
      BY <1>0 DEF TypeOK
    <3> HIDE DEF asking
    <3> QED
      BY <1>3, <3>1, FirstIn
  <2>3. w \in 1 .. Len(pending_waits)
    BY <2>2
  <2> HIDE DEF w, zombie, asking
  <2>4. pending_waits[w] \in WaitRequest
    BY <1>0, <2>3 DEF TypeOK
  <2>5. pending_waits[w].pid \in Pids /\ [pending_waits[w] EXCEPT !.pids = {c}] \in WaitRequest
    BY <2>4 DEF WaitRequest
  <2>6. pending_waits' \in Seq(WaitRequest)
    <3>1. pending_waits' = [pending_waits EXCEPT ![w] = [pending_waits[w] EXCEPT !.pids = {c}]]
      BY <1>0, <2>1, <2>3 DEF TypeOK
    <3> QED
      BY <1>0, <2>3, <2>5, <3>1 DEF TypeOK
  <2>7. /\ status' \in [Pids -> Status] /\ status'[c] = "zombie"
        /\ \A q \in Pids : q # c /\ status'[q] # status[q] =>
             status[q] = "sleeping" /\ status'[q] = "runnable"
    BY <1>2, <2>1, <2>5 DEF WakeUp, Status
  <2> QED
    BY <1>0, <1>1, <2>1, <2>6, <2>7 DEF TypeOK
<1>4. CASE asking = {}
  <2>1. /\ happened_waits' = Append(happened_waits, c)
        /\ status' = zombie /\ pending_waits' = pending_waits
    BY <1>4 DEF Exit, NotifyWait
  <2> HIDE DEF zombie, asking
  <2> QED
    BY <1>0, <1>1, <1>2, <2>1 DEF TypeOK
<1> QED
  BY <1>3, <1>4

LEMMA BaseExit == ASSUME BaseInv, NEW c \in Pids, Exit(c) PROVE BaseInv'
<1> USE PidsFacts DEF Goto, locals, family
<1>1. /\ pc' = [pc EXCEPT ![c] = "spin"] /\ op' = [op EXCEPT ![c] = "exit"]
      /\ notifying' = FALSE
      /\ UNCHANGED <<locals, current, family, pending_polls, lines, irq>>
      /\ op[c] = "none"
  BY DEF Exit, At, BaseInv, Control, Row
<1>2. TypeOK'
  BY <1>1, ExitFacts DEF BaseInv, TypeOK, Pcs
<1>3. /\ pc'[c] = "spin" /\ op'[c] = "exit"
      /\ \A q \in Pids : q # c => pc'[q] = pc[q] /\ op'[q] = op[q]
  BY <1>1 DEF BaseInv, TypeOK
<1>4. \A q \in Pids : Row(status'[q], pc'[q], op'[q])
  BY <1>3, ExitFacts DEF BaseInv, Control, Row
<1>5. Control' /\ Running'
  <2>1. Control'
    BY <1>1, <1>4, ExitFacts DEF BaseInv, Control
  <2>2. Running'
    BY <1>1, <1>3, ExitFacts DEF BaseInv, Running
  <2> QED BY <2>1, <2>2
<1>6. \A q \in Pids : OwnPolls(q)' = OwnPolls(q)
  BY <1>1 DEF OwnPolls
<1>7. PollsOwned' /\ InRange'
  BY <1>1, <1>3, <1>6 DEF BaseInv, PollsOwned, InRange
<1> QED
  BY <1>2, <1>5, <1>7 DEF BaseInv

LEMMA BaseStep == ASSUME BaseInv, [Next]_vars PROVE BaseInv'
<1>1. ASSUME NEW p \in Pids, Step(p) PROVE BaseInv'
  BY <1>1, BaseQuiet, BasePoll, BaseSpin, BaseWait, BaseReap, BaseFork, BaseExit DEF Step
<1>2. CASE Tick \/ Key \/ Handler
  BY <1>2, BaseTick, BaseIrq DEF Handler
<1>3. CASE UNCHANGED vars
  BY <1>3 DEF vars, BaseInv, TypeOK, Control, Running, PollsOwned, OwnPolls, InRange
<1> QED
  BY <1>1, <1>2, <1>3 DEF Next

LEMMA BaseInit == Init => BaseInv
<1> SUFFICES ASSUME Init PROVE BaseInv
  OBVIOUS
<1> USE PidsFacts DEF Init
<1>1. TypeOK
  <2>1. status \in [Pids -> Status] /\ pc \in [Pids -> Pcs]
    BY DEF Pcs, Status
  <2>2. irq \in [on : Pids \cup {None}, i : Nat] /\ lines \in Nat /\ notifying \in BOOLEAN
    BY DEF Idle
  <2>3. /\ pending_polls \in Seq(PollEvent) /\ pending_waits \in Seq(WaitRequest)
        /\ happened_waits \in Seq(Pids)
    OBVIOUS
  <2>4. /\ op \in [Pids -> {"none", "poll", "wait", "exit"}]
        /\ timeout \in [Pids -> Int] /\ ret \in [Pids -> Pids \cup {None}]
    OBVIOUS
  <2>5. /\ current \in Pids /\ child_pids \in [Pids -> SUBSET Pids]
        /\ parent_pid \in [Pids -> Pids \cup {None}]
    OBVIOUS
  <2> QED
    BY <2>1, <2>2, <2>3, <2>4, <2>5 DEF TypeOK
<1>2. Control /\ Running /\ InRange
  BY DEF Control, Running, InRange, Row, Idle
<1>3. PollsOwned
  BY DEF PollsOwned, OwnPolls
<1> QED
  BY <1>1, <1>2, <1>3 DEF BaseInv

\* Every variable keeps its type, whatever the windows and whether or not
\* PIDs are reused; in particular wait never looks up a PID that is not one.
THEOREM TypeCorrect == Spec => []TypeOK
<1>1. BaseInv /\ [Next]_vars => BaseInv'
  BY BaseStep
<1>2. BaseInv => TypeOK
  BY DEF BaseInv
<1> QED
  BY <1>1, <1>2, BaseInit, PTL DEF Spec

-----------------------------------------------------------------------------
(* poll: no wake-up is lost.                                               *)

PollWindows == {"check", "sleep", "notify"}

\* A step outside the handler that brings nobody nearer to a sleep in poll.
Bystander ==
    /\ irq' = irq
    /\ lines' \in Nat /\ lines' <= lines
    /\ \A q \in Pids : op'[q] = "poll" /\ pc'[q] \in {"add", "count", "sleep"} =>
         op[q] = "poll" /\ pc[q] = pc'[q] /\ q = current'
    /\ \A q \in Pids : op'[q] = "poll" => (Fired(q)' <=> Fired(q))
    /\ \A q \in Pids : Asleep(q, "poll")' => Asleep(q, "poll")

LEMMA BystanderKeeps ==
    ASSUME PollInv, BaseInv', irq = Idle, Bystander
    PROVE  PollInv'
<1>1. PollAtomic'
  <2>1. \A q \in Pids : pc'[q] \in {"add", "count"} => op'[q] = "poll"
    BY DEF BaseInv, Control, Row
  <2> QED
    BY <2>1 DEF Bystander, PollAtomic, Idle
<1>2. HandlerDone'
  BY DEF Bystander, HandlerDone, Idle
<1>3. lines \in Nat /\ (lines = 0 => lines' = 0)
  BY DEF PollInv, BaseInv, TypeOK, Bystander
<1>4. PollReady'
  BY <1>3 DEF Bystander, PollInv, PollReady, Idle
<1>5. NoLostLine'
  <2> SUFFICES ASSUME NEW q \in Pids, Asleep(q, "poll")'
               PROVE  lines' = 0 /\ ~Fired(q)'
    BY DEF NoLostLine
  <2>1. op'[q] = "poll" /\ Asleep(q, "poll")
    BY DEF Bystander, Asleep
  <2> QED
    BY <1>3, <2>1 DEF Bystander, PollInv, NoLostLine
<1> QED
  BY <1>1, <1>2, <1>4, <1>5 DEF PollInv

\* As long as the handler is not left by a switch no process runs in it.
LEMMA IdleInStep ==
    ASSUME PollInv, NEW p \in Pids, p = current, irq.on # p
    PROVE  irq = Idle /\ irq.on = None
BY DEF PollInv, PollAtomic, Idle

\* The steps that lead to a sleep in poll.
LEMMA PollSleepKeeps ==
    ASSUME PollInv, BaseInv', NEW p \in Pids,
           PollCheck(p) \/ PollAdd(p) \/ PollCount(p) \/ Sleep(p)
    PROVE  PollInv'
<1> USE PidsFacts DEF At, Goto, sched, family, lists, locals
<1>0. /\ p = current /\ irq = Idle /\ irq' = irq /\ current' = current
      /\ lines' = lines /\ lines \in Nat /\ TypeOK
      /\ Row(status[p], pc[p], op[p])
      /\ \A q \in Pids : q # p => status'[q] = status[q] /\ pc'[q] = pc[q] /\ op'[q] = op[q]
  <2>1. p = current /\ irq.on # p /\ TypeOK /\ \A q \in Pids : Row(status[q], pc[q], op[q])
    BY DEF PollCheck, PollAdd, PollCount, Sleep, PollInv, BaseInv, Control
  <2>2. irq = Idle
    BY <2>1, IdleInStep
  <2>3. irq' = irq /\ current' = current /\ lines' = lines
    BY <2>1 DEF PollCheck, PollAdd, PollCount, Sleep, Return
  <2>4. lines \in Nat
    BY <2>1 DEF TypeOK
  <2>5. \A q \in Pids : q # p => status'[q] = status[q] /\ pc'[q] = pc[q] /\ op'[q] = op[q]
    <3>1. CASE PollCheck(p)
      BY <2>1, <3>1 DEF PollCheck, TypeOK, Return
    <3>2. CASE PollAdd(p)
      BY <2>1, <3>2 DEF PollAdd, TypeOK
    <3>3. CASE PollCount(p)
      <4>1. /\ status' = status
            /\ \E v : pc' = [pc EXCEPT ![p] = v]
            /\ op' = op \/ op' = [op EXCEPT ![p] = "none"]
        BY <3>3 DEF PollCount, Return
      <4> QED
        BY <2>1, <4>1 DEF TypeOK
    <3>4. CASE Sleep(p)
      BY <2>1, <3>4 DEF Sleep, TypeOK
    <3> QED BY <3>1, <3>2, <3>3, <3>4
  <2> QED
    BY <2>1, <2>2, <2>3, <2>4, <2>5
<1>1. PollAtomic' /\ HandlerDone'
  BY <1>0 DEF PollInv, PollAtomic, HandlerDone, Idle
<1>2. ASSUME /\ op'[p] = "poll" =>
                  /\ pc'[p] = "add" => lines = 0
                  /\ pc'[p] = "count" => lines = 0
                  /\ pc'[p] = "sleep" => lines = 0 /\ ~Fired(p)'
             /\ Asleep(p, "poll")' => lines = 0 /\ ~Fired(p)'
             /\ \A q \in Pids : q # p => (Fired(q)' <=> Fired(q))
      PROVE  PollInv'
  <2>1. PollReady'
    BY <1>0, <1>2 DEF PollInv, PollReady
  <2>2. NoLostLine'
    BY <1>0, <1>2 DEF PollInv, NoLostLine, Asleep
  <2> QED
    BY <1>1, <2>1, <2>2 DEF PollInv
<1>3. CASE PollCheck(p)
  <2>1. \A q \in Pids : Fired(q)' <=> Fired(q)
    BY <1>3 DEF PollCheck, Fired, OwnPolls
  <2>2. pc'[p] \in {"read", "add"} /\ (pc'[p] = "add" => ~(lines > 0))
    BY <1>0, <1>3 DEF PollCheck, Return, TypeOK
  <2>3. ~Asleep(p, "poll")'
    BY <1>0, <1>3 DEF PollCheck, Asleep, Row
  <2> QED
    BY <1>0, <1>2, <2>1, <2>2, <2>3
<1>4. CASE PollAdd(p)
  <2>1. \A q \in Pids : q # p => (Fired(q)' <=> Fired(q))
    <3> DEFINE e == [pid |-> p, fired |-> FALSE, left |-> timeout[p]]
    <3>1. /\ Len(pending_polls) \in Nat
          /\ Len(pending_polls') = Len(pending_polls) + 1
          /\ pending_polls'[Len(pending_polls) + 1].pid = p
          /\ \A k \in 1 .. Len(pending_polls) : pending_polls'[k] = pending_polls[k]
      BY <1>0, <1>4 DEF PollAdd, TypeOK
    <3> QED
      BY <3>1 DEF Fired, OwnPolls
  <2>2. pc'[p] = "count" /\ lines = 0
    BY <1>0, <1>4 DEF PollAdd, TypeOK, Row, PollInv, PollReady
  <2>3. ~Asleep(p, "poll")'
    BY <1>0, <1>4 DEF PollAdd, Asleep, Row
  <2> QED
    BY <1>2, <2>1, <2>2, <2>3
<1>5. CASE PollCount(p)
  <2>1. CASE Fired(p)
    <3>1. ErasePolls(p) /\ Return(p, "read") /\ op'[p] = "none"
      BY <1>0, <1>5, <2>1 DEF PollCount, Return, TypeOK
    <3>2. \A q \in Pids : q # p => (Fired(q)' <=> Fired(q))
      BY <1>0, <3>1, ErasePollsFacts
    <3> QED
      BY <1>2, <3>1, <3>2 DEF Asleep
  <2>2. CASE ~Fired(p)
    <3>1. \A q \in Pids : Fired(q)' <=> Fired(q)
      BY <1>5, <2>2 DEF PollCount, Fired, OwnPolls
    <3>2. pc'[p] = "sleep" /\ lines = 0
      BY <1>0, <1>5, <2>2 DEF PollCount, TypeOK, Row, PollInv, PollReady
    <3>3. ~Asleep(p, "poll")'
      BY <1>0, <1>5 DEF PollCount, Asleep, Row
    <3> QED
      BY <1>2, <2>2, <3>1, <3>2, <3>3
  <2> QED
    BY <2>1, <2>2
<1>6. CASE Sleep(p)
  <2>1. \A q \in Pids : Fired(q)' <=> Fired(q)
    BY <1>6 DEF Sleep, Fired, OwnPolls
  <2>2. pc'[p] = "yield" /\ op' = op /\ (op[p] = "poll" => lines = 0 /\ ~Fired(p))
    BY <1>0, <1>6 DEF Sleep, TypeOK, PollInv, PollReady
  <2> QED
    BY <1>2, <2>1, <2>2 DEF Asleep
<1> QED
  BY <1>3, <1>4, <1>5, <1>6

\* The handler: what it has passed is fired and awake, and at its end it has
\* passed everything.
LEMMA PollIrqKeeps ==
    ASSUME PollInv, BaseInv', Key \/ NotifyFile \/ NotifyFileEnds,
           Windows \cap PollWindows = {}
    PROVE  PollInv'
<1> USE PidsFacts DEF locals, family, lists, sched
<1>0. BaseInv /\ TypeOK
  BY DEF PollInv, BaseInv
<1>1. CASE Key
  <2>1. irq' # Idle /\ irq'.on = current /\ irq'.i = 1 /\ current' = current
    BY <1>0, <1>1 DEF Key, Idle, TypeOK
  <2>2. PollAtomic'
    <3>1. /\ pc[current] # "add" /\ ~(pc[current] = "sleep" /\ op[current] = "poll")
          /\ pc' = pc /\ op' = op /\ current # None
      BY <1>0, <1>1 DEF Key, Closed, PollWindows, TypeOK
    <3> QED
      BY <2>1, <3>1 DEF PollInv, PollAtomic
  <2>3. HandlerDone' /\ PollReady' /\ NoLostLine'
    BY <2>1 DEF HandlerDone, PollReady, NoLostLine
  <2> QED
    BY <2>2, <2>3 DEF PollInv
<1>2. CASE NotifyFile
  <2>1. irq.on = current /\ current' = current /\ irq' = [irq EXCEPT !.i = @ + 1]
        /\ pc' = pc /\ op' = op
    BY <1>0, <1>2, NotifyFacts DEF NotifyFile
  <2>2. irq'.on = current /\ irq'.i = irq.i + 1 /\ irq.i \in Nat /\ irq' # Idle /\ irq # Idle
    BY <1>0, <2>1 DEF TypeOK, Idle
  <2>3. PollAtomic'
    BY <2>1, <2>2 DEF PollInv, PollAtomic
  <2>4. HandlerDone'
    <3> SUFFICES ASSUME NEW k \in 1 .. Len(pending_polls), k < irq.i + 1
                 PROVE  pending_polls'[k].fired /\ status'[pending_polls'[k].pid] # "sleeping"
      BY <1>0, <1>2, <2>2, NotifyFacts DEF HandlerDone
    <3>1. /\ pending_polls'[k].pid = pending_polls[k].pid
          /\ k # irq.i => pending_polls'[k] = pending_polls[k]
          /\ k = irq.i => pending_polls'[k].fired = TRUE
          /\ status' = WakeUp(status, pending_polls[irq.i].pid)
      BY <1>0, <1>2, NotifyFacts
    <3>2. pending_polls[k].pid \in Pids /\ pending_polls[irq.i].pid \in Pids
      <4>1. pending_polls[k] \in PollEvent /\ pending_polls[irq.i] \in PollEvent
        BY <1>0, <1>2, NotifyFacts DEF TypeOK
      <4> QED
        BY <4>1 DEF PollEvent
    <3>3. CASE k = irq.i
      BY <1>0, <3>1, <3>2, <3>3 DEF WakeUp, TypeOK
    <3>4. CASE k < irq.i
      <4>1. pending_polls[k].fired /\ status[pending_polls[k].pid] # "sleeping"
        BY <2>2, <3>4 DEF PollInv, HandlerDone
      <4>2. pending_polls'[k].fired
        BY <2>2, <3>1, <3>4, <4>1
      <4> QED
        BY <1>0, <3>1, <3>2, <4>1, <4>2 DEF WakeUp, TypeOK
    <3> QED
      BY <2>2, <3>3, <3>4
  <2>5. PollReady' /\ NoLostLine'
    BY <2>2 DEF PollReady, NoLostLine
  <2> QED
    BY <2>3, <2>4, <2>5 DEF PollInv
<1>3. CASE NotifyFileEnds
  <2>1. /\ irq.on = current /\ irq # Idle /\ irq' = Idle /\ irq.i > Len(pending_polls)
        /\ UNCHANGED <<pc, op, status, current, pending_polls, lines>>
    BY <1>0, <1>3 DEF NotifyFileEnds, Idle, TypeOK
  <2>2. PollAtomic' /\ HandlerDone'
    BY <2>1 DEF PollInv, PollAtomic, HandlerDone, Idle
  <2>3. \A q \in Pids : \A k \in OwnPolls(q) : pending_polls[k].fired /\ status[q] # "sleeping"
    <3>1. Len(pending_polls) \in Nat /\ irq.i \in Nat
      BY <1>0 DEF TypeOK
    <3> QED
      BY <2>1, <3>1 DEF PollInv, HandlerDone, OwnPolls
  <2>4. \A q \in Pids : op[q] = "poll" /\ pc[q] \in Registered => OwnPolls(q) # {}
    BY <1>0 DEF BaseInv, PollsOwned
  <2>5. PollReady'
    <3> SUFFICES ASSUME NEW q \in Pids, op[q] = "poll"
                 PROVE  /\ pc[q] = "add" => lines = 0
                        /\ pc[q] = "count" => lines = 0 \/ Fired(q)'
                        /\ pc[q] = "sleep" => lines = 0 /\ ~Fired(q)'
      BY <2>1 DEF PollReady
    <3>1. pc[q] # "add" /\ pc[q] # "sleep"
      BY <1>0, <2>1 DEF PollInv, PollAtomic, TypeOK
    <3>2. pc[q] = "count" => Fired(q)
      BY <2>3, <2>4 DEF Fired, Registered
    <3>3. Fired(q)' <=> Fired(q)
      BY <2>1 DEF Fired, OwnPolls
    <3> QED
      BY <3>1, <3>2, <3>3
  <2>6. NoLostLine'
    <3> SUFFICES ASSUME NEW q \in Pids, status[q] = "sleeping", op[q] = "poll"
                 PROVE  FALSE
      BY <2>1 DEF NoLostLine, Asleep
    <3>1. pc[q] \in Registered
      BY <1>0 DEF BaseInv, Control, Row, Registered
    <3> QED
      BY <2>3, <2>4, <3>1
  <2> QED
    BY <2>2, <2>5, <2>6 DEF PollInv
<1> QED
  BY <1>1, <1>2, <1>3

\* The steps that concern poll not at all, or only what follows the sleep.
LEMMA PollBystanders ==
    ASSUME PollInv, BaseInv', NEW p \in Pids,
           \/ PollCall(p) \/ Yield(p) \/ SpinEnds(p) \/ PollWoken(p) \/ Read(p)
           \/ WaitCall(p) \/ WaitScan(p) \/ WaitWoken(p) \/ Reap(p) \/ Fork(p) \/ Exit(p)
    PROVE  PollInv'
<1> USE PidsFacts DEF At, Goto, sched, family, lists, locals
<1>0. /\ p = current /\ irq = Idle /\ irq' = irq /\ lines \in Nat /\ TypeOK
      /\ Row(status[p], pc[p], op[p]) /\ BaseInv
      /\ status[p] # "active" => pc[p] \in {"yield", "spin"}
  BY IdleInStep DEF PollCall, Yield, SpinEnds, PollWoken, Read, WaitCall, WaitScan,
       WaitWoken, Reap, Fork, Exit, PollInv, BaseInv, TypeOK, Control, Running
<1>1. SUFFICES Bystander
  BY <1>0, BystanderKeeps
\* Nobody but the running process is between the check and the sleep.
<1>2. \A q \in Pids : op[q] = "poll" /\ pc[q] \in {"add", "count", "sleep"} => q = p
  BY <1>0 DEF PollInv, PollAtomic
<1>3. ASSUME pending_polls' = pending_polls
      PROVE  \A q \in Pids : Fired(q)' <=> Fired(q)
  BY <1>3 DEF Fired, OwnPolls
<1>4. CASE PollCall(p)
  BY <1>0, <1>2, <1>3, <1>4 DEF PollCall, Bystander, TypeOK, Asleep, Row
<1>5. CASE Yield(p)
  BY <1>0, <1>2, <1>3, <1>5 DEF Yield, Bystander, TypeOK, Asleep
<1>6. CASE SpinEnds(p)
  <2>1. \A q \in Pids : status'[q] = "sleeping" <=> status[q] = "sleeping"
    BY <1>0, <1>6, NextProcFacts DEF SpinEnds, TypeOK
  <2>2. /\ pc'[p] = "woken" /\ op' = op /\ pending_polls' = pending_polls /\ lines' = lines
        /\ \A q \in Pids : q # p => pc'[q] = pc[q]
    BY <1>0, <1>6 DEF SpinEnds, TypeOK
  <2> QED
    BY <1>0, <1>2, <1>3, <2>1, <2>2 DEF Bystander, Asleep
<1>7. CASE PollWoken(p)
  <2>1. /\ op'[p] = "none" /\ status' = status /\ current' = current /\ lines' = lines
        /\ \A q \in Pids : q # p => pc'[q] = pc[q] /\ op'[q] = op[q]
    BY <1>0, <1>7 DEF PollWoken, Return, TypeOK
  <2>2. \A q \in Pids : q # p => (Fired(q)' <=> Fired(q))
    BY <1>0, <1>7, ErasePollsFacts DEF PollWoken
  <2> QED
    BY <1>0, <1>2, <2>1, <2>2 DEF Bystander, Asleep
<1>8. CASE Read(p)
  BY <1>0, <1>2, <1>3, <1>8 DEF Read, Bystander, TypeOK, Asleep
<1>9. CASE WaitCall(p)
  BY <1>0, <1>2, <1>3, <1>9 DEF WaitCall, Bystander, TypeOK, Asleep
<1>10. CASE WaitScan(p)
  <2>1. /\ pc'[p] \in {"reap", "sleep"} /\ op' = op /\ op[p] = "wait" /\ status' = status
        /\ \A q \in Pids : q # p => pc'[q] = pc[q]
        /\ pending_polls' = pending_polls /\ lines' = lines /\ current' = current
    BY <1>0, <1>10 DEF WaitScan, TypeOK, Row
  <2> QED
    BY <1>0, <1>2, <1>3, <2>1 DEF Bystander, Asleep
<1>11. CASE WaitWoken(p)
  <2>1. /\ pc'[p] \in {"reap", "user"} /\ op'[p] # "poll" /\ status' = status
        /\ \A q \in Pids : q # p => pc'[q] = pc[q] /\ op'[q] = op[q]
        /\ pending_polls' = pending_polls /\ lines' = lines /\ current' = current
    <3>1. CASE OwnWaits(p) # {}
      BY <1>0, <1>11, <3>1 DEF WaitWoken, TypeOK
    <3>2. CASE OwnWaits(p) = {}
      BY <1>0, <1>11, <3>2 DEF WaitWoken, Return, TypeOK
    <3> QED
      BY <3>1, <3>2
  <2> QED
    BY <1>0, <1>2, <1>3, <2>1 DEF Bystander, Asleep
<1>12. CASE Reap(p)
  <2>1. PICK c \in Pids : c = ret[p]
    <3>1. ret[p] # None /\ ret[p] \in Pids \cup {None}
      BY <1>0, <1>12 DEF Reap, BaseInv, InRange, TypeOK
    <3> QED
      BY <3>1
  <2>2. /\ op'[p] = "none" /\ lines' = lines /\ current' = current
        /\ \A q \in Pids : op'[q] # op[q] => op'[q] = "none"
        /\ \A q \in Pids : op'[q] # "none" => pc'[q] = pc[q]
        /\ \A q \in Pids : status'[q] = "sleeping" => status[q] = "sleeping"
    <3>1. CASE status[c] = "zombie"
      BY <1>0, <1>12, <2>1, <3>1, SMTT(20) DEF Reap, TypeOK
    <3>2. CASE status[c] # "zombie"
      BY <1>0, <1>12, <2>1, <3>2 DEF Reap, Return, TypeOK
    <3> QED
      BY <3>1, <3>2
  <2>3. \A q \in Pids : op'[q] = "poll" => (Fired(q)' <=> Fired(q))
    <3>1. CASE status[c] = "zombie"
      <4>1. ErasePolls(c) /\ op'[c] = "none"
        BY <1>0, <1>12, <2>1, <3>1 DEF Reap, PurgeProcess, TypeOK
      <4> QED
        BY <1>0, <4>1, ErasePollsFacts
    <3>2. CASE status[c] # "zombie"
      BY <1>3, <1>12, <2>1, <3>2 DEF Reap
    <3> QED
      BY <3>1, <3>2
  <2> QED
    BY <1>0, <1>2, <2>2, <2>3 DEF Bystander, Asleep
<1>13. CASE Fork(p)
  <2>1. /\ op' = op /\ lines' = lines /\ current' = current /\ pending_polls' = pending_polls
        /\ \A q \in Pids : pc'[q] # pc[q] => pc'[q] = "user"
        /\ \A q \in Pids : status'[q] = "sleeping" => status[q] = "sleeping"
    BY <1>0, <1>13 DEF Fork, TypeOK
  <2> QED
    BY <1>0, <1>2, <1>3, <2>1 DEF Bystander, Asleep
<1>14. CASE Exit(p)
  <2>1. /\ op'[p] = "exit" /\ lines' = lines /\ current' = current
        /\ pending_polls' = pending_polls
        /\ \A q \in Pids : q # p => pc'[q] = pc[q] /\ op'[q] = op[q]
    BY <1>0, <1>14 DEF Exit, TypeOK
  <2>2. \A q \in Pids : status'[q] = "sleeping" => status[q] = "sleeping"
    BY <1>0, <1>14, ExitFacts
  <2> QED
    BY <1>0, <1>2, <1>3, <2>1, <2>2 DEF Bystander, Asleep
<1> QED
  BY <1>4, <1>5, <1>6, <1>7, <1>8, <1>9, <1>10, <1>11, <1>12, <1>13, <1>14

LEMMA PollTick ==
    ASSUME PollInv, BaseInv', Tick, Windows \cap PollWindows = {}
    PROVE  PollInv'
<1>0. TypeOK /\ BaseInv
  BY DEF PollInv, BaseInv
<1>1. /\ irq.on # current /\ pc[current] \notin {"add", "count"}
      /\ ~(pc[current] = "sleep" /\ op[current] = "poll")
  BY DEF Tick, Closed, PollWindows
<1>2. irq = Idle
  BY <1>1 DEF PollInv, PollAtomic
<1>3. \A q \in Pids : ~(op[q] = "poll" /\ pc[q] \in {"add", "count", "sleep"})
  BY <1>1 DEF PollInv, PollAtomic
<1>4. /\ \A q \in Pids : op[q] = "poll" => (Fired(q)' <=> Fired(q))
      /\ \A q \in Pids : status'[q] = "sleeping" => status[q] = "sleeping"
  <2>1. TickDown
    BY DEF Tick
  <2>2. \A q \in Pids : op[q] = "poll" => status[q] # "absent"
    BY <1>0 DEF BaseInv, Control, Row
  <2>3. PICK st \in [Pids -> Status] :
        /\ NextProc(st)
        /\ \A p \in Pids : st[p] # status[p] =>
             status[p] = "sleeping" /\ st[p] = "runnable" /\ OwnPolls(p) # {}
    BY <1>0, <2>1, TickFacts
  <2>4. \A q \in Pids : status'[q] = "sleeping" => status[q] = "sleeping"
    BY <1>0, <2>3, NextProcFacts DEF TypeOK
  <2> QED
    BY <1>0, <2>1, <2>2, <2>4, TickFacts
<1>5. Bystander
  BY <1>0, <1>3, <1>4 DEF Tick, Bystander, Asleep, TypeOK
<1> QED
  BY <1>2, <1>5, BystanderKeeps

\* Once the keyboard handler is through, nobody sleeps in poll while a line
\* is there or with an event fired, for every number of processes, lines and
\* timeouts, PIDs reused or not.  What it takes is that no tick comes between
\* the check and the registration, between the count and the sleep, or inside
\* notify_file; what happens in waitpid does not matter.
THEOREM NoLostWakeUp ==
    ASSUME Windows \cap PollWindows = {}
    PROVE  Spec => []NoLostLine
<1>1. Init => PollInv
  <2> SUFFICES ASSUME Init PROVE PollInv
    OBVIOUS
  <2>1. BaseInv
    BY BaseInit
  <2>2. PollAtomic /\ HandlerDone
    BY PidsFacts DEF Init, PollAtomic, HandlerDone, Idle
  <2>3. PollReady /\ NoLostLine
    BY PidsFacts DEF Init, PollReady, NoLostLine, Asleep
  <2> QED
    BY <2>1, <2>2, <2>3 DEF PollInv
<1>2. PollInv /\ [Next]_vars => PollInv'
  <2> SUFFICES ASSUME PollInv, [Next]_vars PROVE PollInv'
    OBVIOUS
  <2>1. BaseInv'
    BY BaseStep DEF PollInv
  <2>2. ASSUME NEW p \in Pids, Step(p) PROVE PollInv'
    BY <2>1, <2>2, PollSleepKeeps, PollBystanders DEF Step
  <2>3. CASE Tick \/ Key \/ Handler
    BY <2>1, <2>3, PollTick, PollIrqKeeps DEF Handler
  <2>4. CASE UNCHANGED vars
    BY <2>1, <2>4 DEF vars, PollInv, PollAtomic, HandlerDone, PollReady, NoLostLine,
         Asleep, Fired, OwnPolls
  <2> QED
    BY <2>2, <2>3, <2>4 DEF Next
<1>3. PollInv => NoLostLine
  BY DEF PollInv
<1> QED
  BY <1>1, <1>2, <1>3, PTL DEF Spec

-----------------------------------------------------------------------------
(* waitpid: its request stays on the list until it returns.                *)

After == {"yield", "spin", "woken"}

\* A step that leaves waitpid and what it knows of its children alone.
WaitQuiet ==
    /\ UNCHANGED <<pending_waits, happened_waits, child_pids, parent_pid, ret>>
    /\ \A q \in Pids :
         /\ op'[q] = "wait" <=> op[q] = "wait"
         /\ op[q] = "wait" => \/ pc'[q] = pc[q]
                              \/ pc[q] \in After /\ pc'[q] \in After
         /\ op[q] = "wait" => (status'[q] = "sleeping" <=> status[q] = "sleeping")
         /\ status'[q] = "zombie" <=> status[q] = "zombie"
         /\ status'[q] = "absent" <=> status[q] = "absent"
         /\ op[q] = "wait" /\ pc[q] \in {"scan", "sleep"} => q = current'

LEMMA WaitQuietKeeps ==
    ASSUME WaitInv, BaseInv', WaitQuiet
    PROVE  WaitInv'
<1>1. \A q \in Pids : OwnWaits(q)' = OwnWaits(q)
  BY DEF OwnWaits, WaitQuiet
<1>2. \A q \in Pids : op'[q] = "wait" /\ pc'[q] \in Waiting <=>
                      op[q] = "wait" /\ pc[q] \in Waiting
  BY DEF WaitQuiet, After, Waiting
<1>3. WaitsOwned'
  BY <1>1, <1>2 DEF WaitInv, WaitsOwned, WaitQuiet
<1>4. \A q \in Pids : /\ pc'[q] = "scan" => pc[q] = "scan" /\ op[q] = "wait"
                      /\ pc'[q] = "sleep" /\ op'[q] = "wait" => pc[q] = "sleep" /\ op[q] = "wait"
  BY DEF WaitQuiet, After, BaseInv, Control, Row
<1>5. WaitAtomic'
  BY <1>4 DEF WaitInv, WaitAtomic, WaitQuiet
<1> QED
  BY <1>3, <1>5 DEF WaitInv

\* The steps of poll, the yield, the timer and the keyboard are such steps.
LEMMA QuietSteps ==
    ASSUME WaitInv, BaseInv', NEW p \in Pids,
           \/ PollCall(p) \/ PollCheck(p) \/ PollAdd(p) \/ PollCount(p)
           \/ Yield(p) \/ SpinEnds(p) \/ PollWoken(p) \/ Read(p)
    PROVE  WaitQuiet
<1> USE PidsFacts DEF At, Goto, sched, family, lists, locals
<1>0. /\ p = current /\ TypeOK /\ BaseInv
      /\ Row(status[p], pc[p], op[p]) /\ pc[p] \notin {"scan", "sleep"}
      /\ UNCHANGED <<pending_waits, happened_waits, child_pids, parent_pid, ret>>
  BY DEF PollCall, Yield, SpinEnds, PollWoken, Read, PollCheck, PollAdd, PollCount,
         WaitInv, BaseInv, TypeOK, Control
<1>1. \A q \in Pids : ~(op[q] = "wait" /\ pc[q] \in {"scan", "sleep"})
  BY <1>0 DEF WaitInv, WaitAtomic
<1>2. CASE SpinEnds(p)
  <2>1. \A q \in Pids : /\ status'[q] = "sleeping" <=> status[q] = "sleeping"
                        /\ status'[q] = "zombie" <=> status[q] = "zombie"
                        /\ status'[q] = "absent" <=> status[q] = "absent"
    BY <1>0, <1>2, NextProcFacts DEF SpinEnds, TypeOK
  <2>2. /\ op' = op /\ pc[p] = "spin" /\ pc'[p] = "woken"
        /\ \A q \in Pids : q # p => pc'[q] = pc[q]
    BY <1>0, <1>2 DEF SpinEnds, TypeOK
  <2> QED
    BY <1>0, <1>1, <2>1, <2>2 DEF WaitQuiet, After
<1>3. CASE Yield(p)
  BY <1>0, <1>1, <1>3 DEF Yield, WaitQuiet, After, TypeOK
<1>4. CASE PollCall(p) \/ PollCheck(p) \/ PollAdd(p) \/ PollCount(p) \/ PollWoken(p) \/ Read(p)
  <2>1. op[p] # "wait" /\ op'[p] # "wait" /\ status' = status
    BY <1>0, <1>4 DEF PollCall, PollCheck, PollAdd, PollCount, PollWoken, Read, Return,
         TypeOK, Row
  <2>2. \A q \in Pids : q # p => pc'[q] = pc[q] /\ op'[q] = op[q]
    BY <1>0, <1>4 DEF PollCall, PollCheck, PollAdd, PollCount, PollWoken, Read, Return,
         TypeOK
  <2> QED
    BY <1>0, <1>1, <2>1, <2>2 DEF WaitQuiet
<1> QED
  BY <1>2, <1>3, <1>4

LEMMA QuietInterrupts ==
    ASSUME WaitInv, BaseInv', "wait" \notin Windows, Tick \/ Key \/ Handler
    PROVE  WaitQuiet
<1> USE PidsFacts DEF sched, family, lists, locals
<1>0. /\ TypeOK /\ BaseInv /\ pc' = pc /\ op' = op
      /\ UNCHANGED <<pending_waits, happened_waits, child_pids, parent_pid, ret>>
  BY DEF Tick, Key, Handler, NotifyFile, NotifyFileEnds, WaitInv, BaseInv
<1>1. \A q \in Pids : op[q] = "wait" => OwnPolls(q) = {}
  BY <1>0 DEF BaseInv, PollsOwned
<1>2. \A q \in Pids : op[q] = "wait" /\ pc[q] \in {"scan", "sleep"} => q = current
  BY DEF WaitInv, WaitAtomic
<1>3. CASE Tick
  <2>1. PICK st \in [Pids -> Status] :
        /\ NextProc(st)
        /\ \A p \in Pids : st[p] # status[p] =>
             status[p] = "sleeping" /\ st[p] = "runnable" /\ OwnPolls(p) # {}
    BY <1>0, <1>3, TickFacts DEF Tick
  <2>2. \A q \in Pids : /\ status'[q] = "sleeping" <=> st[q] = "sleeping"
                        /\ status'[q] = "zombie" <=> st[q] = "zombie"
                        /\ status'[q] = "absent" <=> st[q] = "absent"
    BY <1>0, <2>1, NextProcFacts DEF TypeOK
  <2>3. \A q \in Pids : ~(op[q] = "wait" /\ pc[q] \in {"scan", "sleep"})
    BY <1>2, <1>3 DEF Tick, Closed
  <2> QED
    BY <1>0, <1>1, <2>1, <2>2, <2>3 DEF WaitQuiet
<1>4. CASE NotifyFile
  <2> DEFINE i == irq.i
  <2>1. /\ pending_polls[i].pid \in Pids
        /\ status' = WakeUp(status, pending_polls[i].pid)
        /\ i \in OwnPolls(pending_polls[i].pid)
    BY <1>0, <1>4, NotifyFacts DEF PollEvent, OwnPolls
  <2>2. op[pending_polls[i].pid] # "wait" /\ current' = current
    BY <1>1, <1>4, <2>1 DEF NotifyFile
  <2> HIDE DEF i
  <2> QED
    BY <1>0, <1>2, <2>1, <2>2 DEF WaitQuiet, WakeUp, TypeOK
<1>5. CASE Key \/ NotifyFileEnds
  BY <1>0, <1>2, <1>5 DEF Key, NotifyFileEnds, WaitQuiet
<1> QED
  BY <1>3, <1>4, <1>5 DEF Handler

\* Dropping the requests of one process leaves those of the others.
LEMMA WaitsDropped ==
    ASSUME WaitInv, NEW p \in Pids, pending_waits' \in Seq(WaitRequest),
           IsKept(pending_waits', pending_waits, (1 .. Len(pending_waits)) \ OwnWaits(p))
    PROVE  /\ OwnWaits(p)' = {}
           /\ \A q \in Pids : q # p => (OwnWaits(q)' # {} <=> OwnWaits(q) # {})
           /\ \A j, k \in 1 .. Len(pending_waits') :
                pending_waits'[j].pid = pending_waits'[k].pid => j = k
<1> DEFINE K == (1 .. Len(pending_waits)) \ OwnWaits(p)
<1>1. K = {k \in 1 .. Len(pending_waits) : pending_waits[k].pid # p}
  BY DEF OwnWaits
<1>2. IsKept(pending_waits', pending_waits, K)
  OBVIOUS
<1> HIDE DEF K
<1>3. ASSUME NEW i \in OwnWaits(p)' PROVE FALSE
  <2>1. PICK k \in K : pending_waits'[i] = pending_waits[k]
    BY <1>2 DEF IsKept, OwnWaits
  <2> QED
    BY <1>1, <2>1 DEF OwnWaits
<1>4. ASSUME NEW q \in Pids, q # p
      PROVE  OwnWaits(q)' # {} <=> OwnWaits(q) # {}
  <2>1. ASSUME NEW k \in OwnWaits(q) PROVE OwnWaits(q)' # {}
    <3>1. k \in K
      BY <1>1, <1>4 DEF OwnWaits
    <3>2. PICK i \in 1 .. Len(pending_waits') : pending_waits'[i] = pending_waits[k]
      BY <1>2, <3>1 DEF IsKept
    <3> QED
      BY <3>2 DEF OwnWaits
  <2>2. ASSUME NEW i \in OwnWaits(q)' PROVE OwnWaits(q) # {}
    <3>1. PICK k \in K : pending_waits'[i] = pending_waits[k]
      BY <1>2 DEF IsKept, OwnWaits
    <3> QED
      BY <1>1, <3>1 DEF OwnWaits
  <2> QED
    BY <2>1, <2>2
<1>5. ASSUME NEW j \in 1 .. Len(pending_waits'), NEW k \in 1 .. Len(pending_waits'),
             pending_waits'[j].pid = pending_waits'[k].pid, j # k
      PROVE  FALSE
  <2>1. PICK a \in K, b \in K :
          a # b /\ pending_waits'[j] = pending_waits[a] /\ pending_waits'[k] = pending_waits[b]
    BY <1>2, <1>5 DEF IsKept
  <2> QED
    BY <1>1, <1>5, <2>1 DEF WaitInv, WaitsOwned
<1> QED
  BY <1>3, <1>4, <1>5

LEMMA OwnRemoved ==
    ASSUME WaitInv, NEW p \in Pids, NEW w \in OwnWaits(p),
           pending_waits' = RemoveAt(pending_waits, w)
    PROVE  /\ pending_waits' \in Seq(WaitRequest)
           /\ IsKept(pending_waits', pending_waits, (1 .. Len(pending_waits)) \ OwnWaits(p))
<1>1. pending_waits \in Seq(WaitRequest) /\ w \in 1 .. Len(pending_waits)
  BY DEF WaitInv, BaseInv, TypeOK, OwnWaits
<1>2. OwnWaits(p) = {w}
  BY DEF WaitInv, WaitsOwned, OwnWaits
<1> HIDE DEF OwnWaits
<1> QED
  BY <1>1, <1>2, RemoveAtFacts

LEMMA WaitCallFacts ==
    ASSUME WaitInv, NEW p \in Pids, WaitCall(p)
    PROVE  /\ \E T \in SUBSET Pids :
                /\ T \subseteq child_pids[p]
                /\ pending_waits' = Append(pending_waits, [pid |-> p, pids |-> T])
                /\ pending_waits'[Len(pending_waits) + 1] = [pid |-> p, pids |-> T]
           /\ Len(pending_waits) \in Nat
           /\ Len(pending_waits') = Len(pending_waits) + 1
           /\ \A k \in 1 .. Len(pending_waits) : pending_waits'[k] = pending_waits[k]
<1>0. TypeOK
  BY DEF WaitInv, BaseInv
<1>1. PICK T \in {child_pids[p]} \cup {{c} : c \in child_pids[p]} :
        pending_waits' = Append(pending_waits, [pid |-> p, pids |-> T])
  BY DEF WaitCall
<1>2. child_pids[p] \in SUBSET Pids
  BY <1>0 DEF TypeOK
<1>3. T \in SUBSET Pids /\ T \subseteq child_pids[p]
  BY <1>1, <1>2
<1>4. /\ Len(pending_waits) \in Nat
      /\ Len(pending_waits') = Len(pending_waits) + 1
      /\ pending_waits'[Len(pending_waits) + 1] = [pid |-> p, pids |-> T]
      /\ \A k \in 1 .. Len(pending_waits) : pending_waits'[k] = pending_waits[k]
  BY <1>0, <1>1 DEF TypeOK
<1> QED
  BY <1>1, <1>3, <1>4

LEMMA RequestExcept ==
    ASSUME NEW r \in WaitRequest, NEW x
    PROVE  [r EXCEPT !.pids = x] = [pid |-> r.pid, pids |-> x]
BY DEF WaitRequest

LEMMA ExceptAt ==
    ASSUME NEW S, NEW s \in Seq(S), NEW i \in 1 .. Len(s), NEW v
    PROVE  /\ Len([s EXCEPT ![i] = v]) = Len(s)
           /\ [s EXCEPT ![i] = v][i] = v
           /\ \A k \in 1 .. Len(s) : k # i => [s EXCEPT ![i] = v][k] = s[k]
<1>1. DOMAIN [s EXCEPT ![i] = v] = 1 .. Len(s) /\ Len(s) \in Nat
  OBVIOUS
<1> QED
  BY <1>1

\* What the end of c does to the requests: the first that names it names
\* nothing else and its process is awake, or the event is kept.
LEMMA NotifyWaitFacts ==
    ASSUME BaseInv, NEW c \in Pids, Exit(c)
    PROVE  \/ \E w \in 1 .. Len(pending_waits) :
                /\ c \in pending_waits[w].pids /\ pending_waits[w].pid \in Pids
                /\ Len(pending_waits') = Len(pending_waits)
                /\ pending_waits'[w] = [pid |-> pending_waits[w].pid, pids |-> {c}]
                /\ \A k \in 1 .. Len(pending_waits) : k # w =>
                     pending_waits'[k] = pending_waits[k]
                /\ status' = WakeUp([status EXCEPT ![c] = "zombie"], pending_waits[w].pid)
                /\ happened_waits' = happened_waits
           \/ /\ \A k \in 1 .. Len(pending_waits) : c \notin pending_waits[k].pids
              /\ pending_waits' = pending_waits
              /\ status' = [status EXCEPT ![c] = "zombie"]
              /\ happened_waits' = Append(happened_waits, c)
<1> DEFINE asking == {k \in 1 .. Len(pending_waits) : c \in pending_waits[k].pids}
<1>0. TypeOK
  BY DEF BaseInv
<1>1. CASE asking # {}
  <2>1. PICK w : w = First(asking)
    OBVIOUS
  <2>2. w \in asking
    <3>1. Len(pending_waits) \in Nat /\ asking \subseteq 1 .. Len(pending_waits)
      BY <1>0 DEF TypeOK
    <3> HIDE DEF asking
    <3> QED
      BY <1>1, <2>1, <3>1, FirstIn
  <2>3. /\ pending_waits' = [pending_waits EXCEPT ![w].pids = {c}]
        /\ status' = WakeUp([status EXCEPT ![c] = "zombie"], pending_waits[w].pid)
        /\ happened_waits' = happened_waits
    BY <1>1, <2>1 DEF Exit, NotifyWait
  <2>4. w \in 1 .. Len(pending_waits) /\ c \in pending_waits[w].pids
    BY <2>2
  <2>5. pending_waits[w] \in WaitRequest /\ pending_waits \in Seq(WaitRequest)
    BY <1>0, <2>4 DEF TypeOK
  <2>6. pending_waits' = [pending_waits EXCEPT ![w] = [pending_waits[w] EXCEPT !.pids = {c}]]
    BY <2>3, <2>4, <2>5
  <2>7. /\ pending_waits[w].pid \in Pids
        /\ [pending_waits[w] EXCEPT !.pids = {c}] = [pid |-> pending_waits[w].pid, pids |-> {c}]
    BY <2>5, RequestExcept DEF WaitRequest
  <2>8. /\ Len(pending_waits') = Len(pending_waits)
        /\ pending_waits'[w] = [pid |-> pending_waits[w].pid, pids |-> {c}]
        /\ \A k \in 1 .. Len(pending_waits) : k # w => pending_waits'[k] = pending_waits[k]
    <3>1. PICK v : v = [pid |-> pending_waits[w].pid, pids |-> {c}]
      OBVIOUS
    <3>2. pending_waits' = [pending_waits EXCEPT ![w] = v]
      BY <2>6, <2>7, <3>1
    <3>3. /\ Len(pending_waits') = Len(pending_waits)
          /\ pending_waits'[w] = v
          /\ \A k \in 1 .. Len(pending_waits) : k # w => pending_waits'[k] = pending_waits[k]
      BY <2>4, <2>5, <3>2, ExceptAt
    <3> QED
      BY <3>1, <3>3
  <2> HIDE DEF asking
  <2> QED
    BY <2>3, <2>4, <2>7, <2>8
<1>2. CASE asking = {}
  <2>1. /\ pending_waits' = pending_waits
        /\ status' = [status EXCEPT ![c] = "zombie"]
        /\ happened_waits' = Append(happened_waits, c)
    BY <1>2 DEF Exit, NotifyWait
  <2> QED
    BY <1>2, <2>1
<1> QED
  BY <1>1, <1>2

\* The steps of waitpid and of the family keep the requests.
LEMMA WaitSteps ==
    ASSUME WaitInv, BaseInv', NEW p \in Pids,
           \/ Sleep(p) \/ WaitCall(p) \/ WaitScan(p) \/ WaitWoken(p)
           \/ Reap(p) \/ Fork(p) \/ Exit(p)
    PROVE  WaitInv'
<1> USE PidsFacts DEF At, Goto, sched, family, lists, locals
<1>0. /\ p = current /\ current' = current /\ TypeOK /\ BaseInv
      /\ Row(status[p], pc[p], op[p])
      /\ status[p] # "active" => pc[p] \in {"yield", "spin"}
  BY DEF Sleep, WaitCall, WaitScan, WaitWoken, Reap, Fork, Exit, WaitInv, BaseInv, TypeOK,
         Control, Running
<1>1. \A q \in Pids : q # p => pc[q] # "scan" /\ ~(op[q] = "wait" /\ pc[q] = "sleep")
  BY <1>0 DEF WaitInv, WaitAtomic
<1>2. ASSUME WaitsOwned', pc'[p] # "scan",
             \A q \in Pids : q # p => pc'[q] \in {pc[q], "user", "gone"} /\ op'[q] \in {op[q], "none"}
      PROVE  WaitInv'
  <2>1. \A q \in Pids : q # p => pc'[q] # "scan" /\ ~(op'[q] = "wait" /\ pc'[q] = "sleep")
    BY <1>1, <1>2
  <2> QED
    BY <1>0, <1>2, <2>1 DEF WaitInv, WaitAtomic
<1>3. ASSUME pending_waits' = pending_waits
      PROVE  /\ \A q \in Pids : OwnWaits(q)' = OwnWaits(q)
             /\ \A j, k \in 1 .. Len(pending_waits') :
                  pending_waits'[j].pid = pending_waits'[k].pid => j = k
  BY <1>3 DEF OwnWaits, WaitInv, WaitsOwned
<1>4. CASE Sleep(p)
  <2>1. /\ pc[p] = "sleep" /\ pc'[p] = "yield" /\ op' = op /\ pending_waits' = pending_waits
        /\ \A q \in Pids : q # p => pc'[q] = pc[q]
    BY <1>0, <1>4 DEF Sleep, TypeOK
  <2>2. WaitsOwned'
    BY <1>3, <2>1 DEF WaitInv, WaitsOwned, Waiting
  <2> QED
    BY <1>2, <2>1, <2>2
<1>5. CASE WaitCall(p)
  <2>1. /\ pc[p] = "user" /\ pc'[p] = "scan" /\ op'[p] = "wait" /\ op[p] = "none"
        /\ \A q \in Pids : q # p => pc'[q] = pc[q] /\ op'[q] = op[q]
    BY <1>0, <1>5 DEF WaitCall, TypeOK, Row
  <2>2. /\ Len(pending_waits) \in Nat
        /\ Len(pending_waits') = Len(pending_waits) + 1
        /\ pending_waits'[Len(pending_waits) + 1].pid = p
        /\ \A k \in 1 .. Len(pending_waits) : pending_waits'[k] = pending_waits[k]
    <3>1. PICK T \in SUBSET Pids :
            pending_waits'[Len(pending_waits) + 1] = [pid |-> p, pids |-> T]
      BY <1>5, WaitCallFacts
    <3> QED
      BY <1>5, <3>1, WaitCallFacts
  <2>3. OwnWaits(p) = {}
    BY <2>1 DEF WaitInv, WaitsOwned
  <2>4. /\ Len(pending_waits) + 1 \in OwnWaits(p)'
        /\ \A q \in Pids : q # p => OwnWaits(q)' = OwnWaits(q)
    BY <2>2 DEF OwnWaits
  <2>5. \A j, k \in 1 .. Len(pending_waits') :
          pending_waits'[j].pid = pending_waits'[k].pid => j = k
    BY <2>2, <2>3 DEF OwnWaits, WaitInv, WaitsOwned
  <2>6. WaitsOwned'
    BY <2>1, <2>4, <2>5 DEF WaitInv, WaitsOwned, Waiting
  <2>7. WaitAtomic'
    BY <1>0, <1>1, <2>1, <2>2 DEF WaitAtomic
  <2> QED
    BY <2>6, <2>7 DEF WaitInv
<1>6. CASE WaitScan(p)
  <2>1. CASE Matches(p) # {}
    <3>1. PICK w : w = Len(pending_waits)
      OBVIOUS
    <3>2. /\ pending_waits' = RemoveAt(pending_waits, w)
          /\ pc'[p] = "reap" /\ op' = op
          /\ \A q \in Pids : q # p => pc'[q] = pc[q]
      BY <1>0, <1>6, <2>1, <3>1 DEF WaitScan, TypeOK
    <3>3. w \in OwnWaits(p)
      BY <1>0, <1>6, <2>1, <3>1, ScanFacts DEF WaitScan, WaitInv, WaitAtomic, OwnWaits
    <3>4. /\ OwnWaits(p)' = {}
          /\ \A q \in Pids : q # p => (OwnWaits(q)' # {} <=> OwnWaits(q) # {})
          /\ \A j, k \in 1 .. Len(pending_waits') :
               pending_waits'[j].pid = pending_waits'[k].pid => j = k
      BY <3>2, <3>3, OwnRemoved, WaitsDropped
    <3>5. WaitsOwned'
      BY <3>2, <3>4 DEF WaitInv, WaitsOwned, Waiting
    <3> QED
      BY <1>2, <3>2, <3>5
  <2>2. CASE Matches(p) = {}
    <3>1. /\ pc[p] = "scan" /\ pc'[p] = "sleep" /\ op' = op /\ pending_waits' = pending_waits
          /\ \A q \in Pids : q # p => pc'[q] = pc[q]
      BY <1>0, <1>6, <2>2 DEF WaitScan, TypeOK
    <3>2. WaitsOwned'
      BY <1>3, <3>1 DEF WaitInv, WaitsOwned, Waiting
    <3> QED
      BY <1>2, <3>1, <3>2
  <2> QED
    BY <2>1, <2>2
<1>7. CASE WaitWoken(p)
  <2>1. OwnWaits(p) # {}
    BY <1>7 DEF WaitWoken, WaitInv, WaitsOwned, Waiting
  <2>2. PICK w : w = First(OwnWaits(p))
    OBVIOUS
  <2>3. w \in OwnWaits(p)
    <3>1. Len(pending_waits) \in Nat /\ OwnWaits(p) \subseteq 1 .. Len(pending_waits)
      BY <1>0 DEF OwnWaits, TypeOK
    <3> QED
      BY <2>1, <2>2, <3>1, FirstIn
  <2>4. /\ pending_waits' = RemoveAt(pending_waits, w) /\ pc'[p] = "reap" /\ op' = op
        /\ \A q \in Pids : q # p => pc'[q] = pc[q]
    BY <1>0, <1>7, <2>1, <2>2 DEF WaitWoken, TypeOK
  <2>5. /\ OwnWaits(p)' = {}
        /\ \A q \in Pids : q # p => (OwnWaits(q)' # {} <=> OwnWaits(q) # {})
        /\ \A j, k \in 1 .. Len(pending_waits') :
             pending_waits'[j].pid = pending_waits'[k].pid => j = k
    BY <2>3, <2>4, OwnRemoved, WaitsDropped
  <2>6. WaitsOwned'
    BY <2>4, <2>5 DEF WaitInv, WaitsOwned, Waiting
  <2> QED
    BY <1>2, <2>4, <2>6
<1>8. CASE Reap(p)
  <2>1. PICK c \in Pids : c = ret[p]
    <3>1. ret[p] # None /\ ret[p] \in Pids \cup {None}
      BY <1>0, <1>8 DEF Reap, BaseInv, InRange, TypeOK
    <3> QED
      BY <3>1
  <2>2. CASE status[c] = "zombie"
    <3> DEFINE K == (1 .. Len(pending_waits)) \ OwnWaits(c)
    <3>1. /\ pending_waits' = Keep(pending_waits, K) /\ c # p
          /\ pc'[p] = "user" /\ op'[p] = "none" /\ pc'[c] = "gone" /\ op'[c] = "none"
          /\ \A q \in Pids : q # p /\ q # c => pc'[q] = pc[q] /\ op'[q] = op[q]
      BY <1>0, <1>8, <2>1, <2>2 DEF Reap, PurgeProcess, TypeOK
    <3>2. pending_waits' \in Seq(WaitRequest) /\ IsKept(pending_waits', pending_waits, K)
      <4>1. pending_waits \in Seq(WaitRequest) /\ K \in SUBSET (1 .. Len(pending_waits))
        BY <1>0 DEF TypeOK
      <4> HIDE DEF K
      <4> QED
        BY <3>1, <4>1, KeepFacts
    <3>3. /\ OwnWaits(c)' = {}
          /\ \A q \in Pids : q # c => (OwnWaits(q)' # {} <=> OwnWaits(q) # {})
          /\ \A j, k \in 1 .. Len(pending_waits') :
               pending_waits'[j].pid = pending_waits'[k].pid => j = k
      BY <3>2, WaitsDropped
    <3>4. OwnWaits(p) = {}
      BY <1>8 DEF Reap, WaitInv, WaitsOwned, Waiting
    <3>5. WaitsOwned'
      BY <3>1, <3>3, <3>4 DEF WaitInv, WaitsOwned, Waiting
    <3> QED
      BY <1>2, <3>1, <3>5
  <2>3. CASE status[c] # "zombie"
    <3>1. /\ pending_waits' = pending_waits /\ pc[p] = "reap" /\ pc'[p] = "user"
          /\ op'[p] = "none"
          /\ \A q \in Pids : q # p => pc'[q] = pc[q] /\ op'[q] = op[q]
      BY <1>0, <1>8, <2>1, <2>3 DEF Reap, Return, TypeOK
    <3>2. WaitsOwned'
      BY <1>3, <3>1 DEF WaitInv, WaitsOwned, Waiting
    <3> QED
      BY <1>2, <3>1, <3>2
  <2> QED
    BY <2>2, <2>3
<1>9. CASE Fork(p)
  <2>1. PICK c \in Pids : status[c] = "absent" /\ pc' = [pc EXCEPT ![c] = "user"]
    BY <1>9 DEF Fork
  <2>2. op[c] = "none" /\ c # p /\ op' = op /\ pending_waits' = pending_waits
    BY <1>0, <1>9, <2>1 DEF Fork, BaseInv, Control, Running, Row
  <2>3. pc'[c] = "user" /\ \A q \in Pids : q # c => pc'[q] = pc[q]
    BY <1>0, <2>1 DEF TypeOK
  <2>4. WaitsOwned'
    BY <1>3, <2>2, <2>3 DEF WaitInv, WaitsOwned
  <2> QED
    BY <1>2, <1>9, <2>2, <2>3, <2>4 DEF Fork
<1>10. CASE Exit(p)
  <2>1. /\ op[p] = "none" /\ op'[p] = "exit" /\ pc'[p] = "spin"
        /\ \A q \in Pids : q # p => pc'[q] = pc[q] /\ op'[q] = op[q]
    BY <1>0, <1>10 DEF Exit, TypeOK, Row
  <2>2. /\ Len(pending_waits') = Len(pending_waits)
        /\ \A k \in 1 .. Len(pending_waits) : pending_waits'[k].pid = pending_waits[k].pid
    <3>1. CASE pending_waits' = pending_waits
      BY <3>1
    <3>2. ASSUME NEW w \in 1 .. Len(pending_waits),
                 Len(pending_waits') = Len(pending_waits),
                 pending_waits'[w] = [pid |-> pending_waits[w].pid, pids |-> {p}],
                 \A k \in 1 .. Len(pending_waits) : k # w =>
                     pending_waits'[k] = pending_waits[k]
          PROVE  \A k \in 1 .. Len(pending_waits) :
                     pending_waits'[k].pid = pending_waits[k].pid
      BY <3>2
    <3> QED
      BY <1>0, <1>10, <3>1, <3>2, NotifyWaitFacts
  <2>3. \A q \in Pids : OwnWaits(q)' = OwnWaits(q)
    BY <2>2 DEF OwnWaits
  <2>4. WaitsOwned'
    BY <2>1, <2>2, <2>3 DEF WaitInv, WaitsOwned
  <2> QED
    BY <1>2, <2>1, <2>4
<1> QED
  BY <1>4, <1>5, <1>6, <1>7, <1>8, <1>9, <1>10

LEMMA WaitStep ==
    ASSUME WaitInv, [Next]_vars, "wait" \notin Windows
    PROVE  WaitInv'
<1>1. BaseInv'
  BY BaseStep DEF WaitInv
<1>2. ASSUME NEW p \in Pids, Step(p) PROVE WaitInv'
  BY <1>1, <1>2, QuietSteps, WaitQuietKeeps, WaitSteps DEF Step
<1>3. CASE Tick \/ Key \/ Handler
  BY <1>1, <1>3, QuietInterrupts, WaitQuietKeeps
<1>4. CASE UNCHANGED vars
  BY <1>1, <1>4 DEF vars, WaitInv, WaitsOwned, WaitAtomic, OwnWaits
<1> QED
  BY <1>2, <1>3, <1>4 DEF Next

LEMMA WaitInit == Init => WaitInv
<1> SUFFICES ASSUME Init PROVE WaitInv
  OBVIOUS
<1>1. WaitsOwned /\ WaitAtomic
  BY DEF Init, WaitsOwned, WaitAtomic, OwnWaits
<1> QED
  BY <1>1, BaseInit DEF WaitInv

\* A process asleep in waitpid has its request on the list, for every number
\* of processes and whether or not PIDs are reused: nobody's pop_back takes
\* another's request away, as long as no interrupt comes between the call and
\* the sleep.
THEOREM RequestStays ==
    ASSUME "wait" \notin Windows
    PROVE  Spec => []WaiterHasRequest
<1>1. WaitInv /\ [Next]_vars => WaitInv'
  BY WaitStep
<1>2. WaitInv => WaiterHasRequest
  BY DEF WaitInv, WaitsOwned, WaiterHasRequest, Asleep, BaseInv, Control, Row, Waiting
<1> QED
  BY <1>1, <1>2, WaitInit, PTL DEF Spec

-----------------------------------------------------------------------------
(* waitpid: every exit is recorded once and no exit is lost.               *)

LEMMA RequestTypes ==
    ASSUME TypeOK
    PROVE  \A k \in 1 .. Len(pending_waits) :
             pending_waits[k].pid \in Pids /\ pending_waits[k].pids \subseteq Pids
<1>1. \A k \in 1 .. Len(pending_waits) : pending_waits[k] \in WaitRequest
  BY DEF TypeOK
<1> QED
  BY <1>1 DEF WaitRequest

LEMMA ExitQuietKeeps ==
    ASSUME ExitInv, WaitInv', WaitQuiet
    PROVE  ExitInv'
<1>0. /\ WaitInv /\ pending_waits' = pending_waits /\ happened_waits' = happened_waits
      /\ \A q \in Pids : OwnWaits(q)' = OwnWaits(q)
      /\ \A c \in Pids : Happened(c)' <=> Happened(c)
  BY DEF ExitInv, WaitQuiet, OwnWaits, Happened
<1>1. \A k \in 1 .. Len(pending_waits) : /\ pending_waits[k].pid \in Pids
                                         /\ op[pending_waits[k].pid] = "wait"
  <2>1. \A k \in 1 .. Len(pending_waits) : pending_waits[k].pid \in Pids
    BY <1>0, RequestTypes DEF WaitInv, BaseInv
  <2>2. \A k \in 1 .. Len(pending_waits) : OwnWaits(pending_waits[k].pid) # {}
    BY DEF OwnWaits
  <2> QED
    BY <1>0, <2>1, <2>2 DEF WaitInv, WaitsOwned
<1>2. \A k \in 1 .. Len(pending_waits) : pending_waits[k].pids \subseteq Pids
  BY <1>0, RequestTypes DEF WaitInv, BaseInv
<1>3. Family' /\ Events'
  <2>1. \A k \in 1 .. Len(happened_waits) : happened_waits[k] \in Pids
    BY <1>0 DEF WaitInv, BaseInv, TypeOK
  <2> QED
    BY <2>1, PidsFacts DEF ExitInv, Family, Events, WaitQuiet
<1>4. Returned'
  <2>1. \A q \in Pids : pc'[q] = "reap" <=> pc[q] = "reap"
    BY <1>0 DEF WaitQuiet, After, WaitInv, BaseInv, Control, Row
  <2>2. \A q \in Pids : ret[q] # None => ret[q] \in Pids
    BY <1>0 DEF WaitInv, BaseInv, TypeOK
  <2> QED
    BY <1>0, <2>1, <2>2 DEF ExitInv, Returned, WaitQuiet
<1>5. Requests'
  <2> SUFFICES ASSUME NEW k \in 1 .. Len(pending_waits), NEW w, w = pending_waits[k]
               PROVE  /\ pc'[w.pid] = "scan" =>
                           \A c \in w.pids : status'[c] = "zombie" => Happened(c)'
                      /\ pc'[w.pid] # "scan" => \A c \in w.pids : ~Happened(c)'
                      /\ pc'[w.pid] = "sleep" \/ status'[w.pid] = "sleeping" =>
                           \A c \in w.pids : status'[c] # "zombie"
                      /\ pc'[w.pid] \in {"yield", "spin", "woken"} /\ status'[w.pid] # "sleeping" =>
                           \E c \in w.pids : w.pids = {c} /\ status'[c] = "zombie"
    BY <1>0 DEF Requests
  <2>1. w.pid \in Pids /\ op[w.pid] = "wait" /\ w.pids \subseteq Pids
    BY <1>1, <1>2
  <2>2. /\ \A c \in w.pids : status'[c] = "zombie" <=> status[c] = "zombie"
        /\ \A c \in w.pids : Happened(c)' <=> Happened(c)
        /\ status'[w.pid] = "sleeping" <=> status[w.pid] = "sleeping"
        /\ pc'[w.pid] = pc[w.pid] \/ (pc[w.pid] \in After /\ pc'[w.pid] \in After)
    BY <1>0, <2>1 DEF WaitQuiet
  <2>3. /\ pc[w.pid] = "scan" =>
             \A c \in w.pids : status[c] = "zombie" => Happened(c)
        /\ pc[w.pid] # "scan" => \A c \in w.pids : ~Happened(c)
        /\ pc[w.pid] = "sleep" \/ status[w.pid] = "sleeping" =>
             \A c \in w.pids : status[c] # "zombie"
        /\ pc[w.pid] \in {"yield", "spin", "woken"} /\ status[w.pid] # "sleeping" =>
             \E c \in w.pids : w.pids = {c} /\ status[c] = "zombie"
    BY DEF ExitInv, Requests
  <2> QED
    BY <2>2, <2>3 DEF After
<1>6. Recorded'
  <2> SUFFICES ASSUME NEW c \in Pids, status'[c] = "zombie",
                      status'[parent_pid[c]] \notin {"zombie", "absent"}
               PROVE  \/ Happened(c)' \/ ret[parent_pid[c]] = c
                      \/ \E k \in OwnWaits(parent_pid[c]) :
                           pending_waits[k].pids = {c} /\ pc'[parent_pid[c]] # "scan"
    BY <1>0 DEF Recorded, WaitQuiet, OwnWaits
  <2>1. status[c] = "zombie"
    BY DEF WaitQuiet
  <2>2. parent_pid[c] \in Pids
    BY <1>0, <2>1, PidsFacts DEF ExitInv, Family, WaitInv, BaseInv, TypeOK
  <2>3. \/ Happened(c) \/ ret[parent_pid[c]] = c
        \/ \E k \in OwnWaits(parent_pid[c]) :
             pending_waits[k].pids = {c} /\ pc[parent_pid[c]] # "scan"
    BY <2>1, <2>2 DEF ExitInv, Recorded, WaitQuiet
  <2>4. pc'[parent_pid[c]] = "scan" => pc[parent_pid[c]] = "scan"
    BY <1>0, <2>2 DEF WaitQuiet, After, WaitInv, BaseInv, Control, Row
  <2> QED
    BY <1>0, <2>3, <2>4
<1> QED
  BY <1>3, <1>4, <1>5, <1>6 DEF ExitInv

\* What holds in any step of the running process p outside the quiet ones.
LEMMA AtStep ==
    ASSUME ExitInv, NEW p \in Pids, p = current, irq.on # p
    PROVE  /\ BaseInv /\ TypeOK /\ WaitInv
           /\ Row(status[p], pc[p], op[p])
           /\ status[p] # "active" => pc[p] \in {"yield", "spin"}
           /\ \A q \in Pids : q # p => pc[q] # "scan" /\ ~(op[q] = "wait" /\ pc[q] = "sleep")
           /\ \A k \in 1 .. Len(happened_waits) : happened_waits[k] \in Pids
           /\ \A q \in Pids : ret[q] # None => ret[q] \in Pids
           /\ \A c \in Pids : status[c] = "zombie" => parent_pid[c] \in Pids
           /\ \A k \in 1 .. Len(pending_waits) :
                /\ pending_waits[k].pid \in Pids /\ pending_waits[k].pids \subseteq Pids
                /\ op[pending_waits[k].pid] = "wait" /\ pc[pending_waits[k].pid] \in Waiting
                /\ \A c \in pending_waits[k].pids : parent_pid[c] = pending_waits[k].pid
<1>1. BaseInv /\ TypeOK /\ WaitInv
  BY DEF ExitInv, WaitInv, BaseInv
<1>2. Row(status[p], pc[p], op[p]) /\ (status[p] # "active" => pc[p] \in {"yield", "spin"})
  BY <1>1 DEF BaseInv, Control, Running
<1>3. \A q \in Pids : q # p => pc[q] # "scan" /\ ~(op[q] = "wait" /\ pc[q] = "sleep")
  BY <1>1 DEF WaitInv, WaitAtomic
<1>4. /\ \A k \in 1 .. Len(happened_waits) : happened_waits[k] \in Pids
      /\ \A q \in Pids : ret[q] # None => ret[q] \in Pids
      /\ \A c \in Pids : parent_pid[c] # None => parent_pid[c] \in Pids
  BY <1>1 DEF TypeOK
<1>5. \A c \in Pids : status[c] = "zombie" => parent_pid[c] \in Pids
  BY <1>4 DEF ExitInv, Family
<1>6. ASSUME NEW k \in 1 .. Len(pending_waits)
      PROVE  /\ pending_waits[k].pid \in Pids /\ pending_waits[k].pids \subseteq Pids
             /\ op[pending_waits[k].pid] = "wait" /\ pc[pending_waits[k].pid] \in Waiting
             /\ \A c \in pending_waits[k].pids : parent_pid[c] = pending_waits[k].pid
  <2>1. pending_waits[k].pid \in Pids /\ pending_waits[k].pids \subseteq Pids
    BY <1>1, RequestTypes
  <2>2. OwnWaits(pending_waits[k].pid) # {}
    BY DEF OwnWaits
  <2>3. op[pending_waits[k].pid] = "wait" /\ pc[pending_waits[k].pid] \in Waiting
    BY <1>1, <2>1, <2>2 DEF WaitInv, WaitsOwned
  <2>4. pending_waits[k].pids \subseteq child_pids[pending_waits[k].pid]
    BY DEF ExitInv, Family
  <2>5. \A c \in pending_waits[k].pids : parent_pid[c] = pending_waits[k].pid
    BY <2>1, <2>4 DEF ExitInv, Family
  <2> QED
    BY <2>1, <2>3, <2>5
<1> QED
  BY <1>1, <1>2, <1>3, <1>4, <1>5, <1>6

\* A request in the state it is in, from Requests.
RequestOK(w) ==
    /\ pc[w.pid] = "scan" =>
         \A c \in w.pids : status[c] = "zombie" => Happened(c)
    /\ pc[w.pid] # "scan" => \A c \in w.pids : ~Happened(c)
    /\ pc[w.pid] = "sleep" \/ status[w.pid] = "sleeping" =>
         \A c \in w.pids : status[c] # "zombie"
    /\ pc[w.pid] \in {"yield", "spin", "woken"} /\ status[w.pid] # "sleeping" =>
         \E c \in w.pids : w.pids = {c} /\ status[c] = "zombie"

LEMMA RequestsAll ==
    Requests <=> \A k \in 1 .. Len(pending_waits) : RequestOK(pending_waits[k])
BY DEF Requests, RequestOK

\* A request of a process the step does not touch stays as it is.
LEMMA RequestStaysOK ==
    ASSUME NEW w, RequestOK(w), pc'[w.pid] = pc[w.pid], status'[w.pid] = status[w.pid],
           \A c \in w.pids : /\ status'[c] = "zombie" <=> status[c] = "zombie"
                             /\ Happened(c)' => Happened(c)
                             /\ pc[w.pid] = "scan" => (Happened(c)' <=> Happened(c))
    PROVE  RequestOK(w)'
BY DEF RequestOK

\* Where the exit of c is kept, from Recorded.
RecordedOK(c) ==
    (/\ status[c] = "zombie"
     /\ status[parent_pid[c]] \notin {"zombie", "absent"}) =>
        \/ Happened(c)
        \/ ret[parent_pid[c]] = c
        \/ \E k \in 1 .. Len(pending_waits) :
             /\ pending_waits[k].pid = parent_pid[c] /\ pending_waits[k].pids = {c}
             /\ pc[parent_pid[c]] # "scan"

LEMMA RecordedAll == Recorded <=> \A c \in Pids : RecordedOK(c)
BY DEF Recorded, RecordedOK, OwnWaits

LEMMA HappenedSame ==
    ASSUME happened_waits' = happened_waits
    PROVE  \A c : Happened(c)' <=> Happened(c)
BY DEF Happened

LEMMA ExitSleep ==
    ASSUME ExitInv, WaitInv', NEW p \in Pids, Sleep(p)
    PROVE  ExitInv'
<1> USE PidsFacts DEF At, Goto, family, lists, locals
<1>0. /\ p = current /\ irq.on # p /\ pc[p] = "sleep" /\ UNCHANGED <<op, ret, child_pids, parent_pid>>
      /\ pending_waits' = pending_waits /\ happened_waits' = happened_waits
  BY DEF Sleep
<1>1. BaseInv /\ TypeOK /\ WaitInv /\ Row(status[p], pc[p], op[p]) /\ status[p] = "active"
  BY <1>0, AtStep
<1>2. /\ pc'[p] = "yield" /\ status'[p] = "sleeping"
      /\ \A q \in Pids : q # p => pc'[q] = pc[q] /\ status'[q] = status[q]
  BY <1>0, <1>1 DEF Sleep, TypeOK
<1>3. \A c \in Pids : (Happened(c)' <=> Happened(c)) /\ (status'[c] = "zombie" <=> status[c] = "zombie")
                      /\ (status'[c] = "absent" <=> status[c] = "absent")
  BY <1>0, <1>1, <1>2, HappenedSame
<1>4. Family'
  BY <1>0, <1>3 DEF ExitInv, Family
<1>5. Events'
  BY <1>0, <1>3, AtStep DEF ExitInv, Events
<1>6. Returned'
  <2>1. \A q \in Pids : pc'[q] = "reap" <=> pc[q] = "reap"
    BY <1>0, <1>2
  <2> QED
    BY <1>0, <1>3, <2>1, AtStep DEF ExitInv, Returned
<1>7. ASSUME NEW k \in 1 .. Len(pending_waits)
      PROVE  RequestOK(pending_waits[k])'
  <2>1. PICK w : w = pending_waits[k]
    OBVIOUS
  <2>2. RequestOK(w) /\ w.pid \in Pids /\ w.pids \subseteq Pids
    BY <1>0, <2>1, AtStep, RequestsAll DEF ExitInv
  <2>3. CASE w.pid # p
    <3>1. RequestOK(w)'
      BY <1>2, <1>3, <2>2, <2>3, RequestStaysOK
    <3> QED
      BY <1>0, <2>1, <3>1
  <2>4. CASE w.pid = p
    <3>1. RequestOK(w)'
      BY <1>0, <1>2, <1>3, <2>2, <2>4 DEF RequestOK
    <3> QED
      BY <1>0, <2>1, <3>1
  <2> QED
    BY <2>3, <2>4
<1>8. Requests'
  BY <1>0, <1>7 DEF Requests, RequestOK
<1>9. ASSUME NEW c \in Pids
      PROVE  RecordedOK(c)'
  <2>1. RecordedOK(c) /\ (status[c] = "zombie" => parent_pid[c] \in Pids)
    BY <1>0, AtStep, RecordedAll DEF ExitInv
  <2> QED
    BY <1>0, <1>2, <1>3, <2>1 DEF RecordedOK
<1>10. Recorded'
  BY <1>9 DEF Recorded, RecordedOK, OwnWaits
<1> QED
  BY <1>4, <1>5, <1>6, <1>8, <1>10 DEF ExitInv

LEMMA ExitFork ==
    ASSUME ExitInv, WaitInv', NEW p \in Pids, Fork(p), ReusePids = FALSE
    PROVE  ExitInv'
<1> USE PidsFacts DEF At, Goto, family, lists, locals
<1>0. /\ p = current /\ irq.on # p /\ pc[p] = "user" /\ UNCHANGED <<op, ret>>
      /\ pending_waits' = pending_waits /\ happened_waits' = happened_waits
  BY DEF Fork
<1>1. BaseInv /\ TypeOK /\ WaitInv /\ Row(status[p], pc[p], op[p]) /\ status[p] = "active"
  BY <1>0, AtStep
<1>2. PICK c \in Pids :
        /\ status[c] = "absent" /\ parent_pid[c] = None
        /\ status' = [status EXCEPT ![c] = "runnable"]
        /\ pc' = [pc EXCEPT ![c] = "user"]
        /\ child_pids' = [child_pids EXCEPT ![p] = @ \cup {c}, ![c] = {}]
        /\ parent_pid' = [parent_pid EXCEPT ![c] = p]
  BY DEF Fork
<1>3. c # p /\ c # InitPid /\ pc[c] = "gone" /\ ret[c] = None /\ OwnWaits(c) = {}
  BY <1>1, <1>2 DEF ExitInv, Family, BaseInv, Control, Row, Returned, WaitInv, WaitsOwned, Waiting
<1>4. /\ pc'[c] = "user" /\ status'[c] = "runnable" /\ parent_pid'[c] = p
      /\ \A q \in Pids : q # c => /\ pc'[q] = pc[q] /\ status'[q] = status[q]
                                  /\ parent_pid'[q] = parent_pid[q]
                                  /\ child_pids[q] \subseteq child_pids'[q]
                                  /\ child_pids'[q] \subseteq child_pids[q] \cup (IF q = p THEN {c} ELSE {})
      /\ child_pids'[c] = {}
  BY <1>1, <1>2, <1>3 DEF TypeOK
<1>5. \A q \in Pids : c \notin child_pids[q] /\ parent_pid[q] # c
  BY <1>1, <1>2, <1>3 DEF ExitInv, Family
<1>6. \A d \in Pids : (Happened(d)' <=> Happened(d)) /\ (status'[d] = "zombie" <=> status[d] = "zombie")
  BY <1>0, <1>2, <1>4, HappenedSame
<1>7. \A k \in 1 .. Len(pending_waits) :
        /\ pending_waits[k].pid \in Pids /\ pending_waits[k].pids \subseteq Pids
        /\ pending_waits[k].pid # c /\ c \notin pending_waits[k].pids
  <2>1. \A k \in 1 .. Len(pending_waits) :
          /\ pending_waits[k].pid \in Pids /\ pending_waits[k].pids \subseteq Pids
          /\ \A d \in pending_waits[k].pids : parent_pid[d] = pending_waits[k].pid
    BY <1>0, AtStep
  <2>2. \A k \in 1 .. Len(pending_waits) : pending_waits[k].pid # c
    BY <1>3 DEF OwnWaits
  <2> QED
    BY <1>2, <2>1, <2>2
<1>8. Family'
  <2>0. Family
    BY DEF ExitInv
  <2>1. ASSUME NEW q \in Pids, NEW d \in Pids, d \in child_pids'[q]
        PROVE  parent_pid'[d] = q
    <3>1. q # c
      BY <1>4, <2>1
    <3>2. CASE d = c
      BY <1>4, <1>5, <2>1, <3>1, <3>2
    <3>3. CASE d # c
      <4>1. d \in child_pids[q]
        BY <1>4, <2>1, <3>1, <3>3
      <4>2. parent_pid[d] = q
        BY <2>0, <4>1 DEF Family
      <4> QED
        BY <1>4, <3>3, <4>2
    <3> QED
      BY <3>2, <3>3
  <2>2. \A d \in Pids : parent_pid'[d] \in Pids =>
          parent_pid'[d] = InitPid \/ parent_pid'[parent_pid'[d]] # None
    <3>1. p = InitPid \/ parent_pid[p] # None
      BY <1>1 DEF ExitInv, Family
    <3>2. ASSUME NEW d \in Pids, d # c, parent_pid[d] \in Pids
          PROVE  parent_pid[d] # c /\ (parent_pid[d] = InitPid \/ parent_pid[parent_pid[d]] # None)
      BY <1>5, <2>0, <3>2 DEF Family
    <3> SUFFICES ASSUME NEW d \in Pids, parent_pid'[d] \in Pids
                 PROVE  parent_pid'[d] = InitPid \/ parent_pid'[parent_pid'[d]] # None
      OBVIOUS
    <3>3. CASE d = c
      <4>1. parent_pid'[d] = p /\ parent_pid'[p] = parent_pid[p]
        BY <1>3, <1>4, <3>3
      <4> QED
        BY <3>1, <4>1
    <3>4. CASE d # c
      <4>1. parent_pid'[d] = parent_pid[d]
        BY <1>4, <3>4
      <4>2. PICK q \in Pids : q = parent_pid[d]
        BY <4>1
      <4>3. q # c /\ (q = InitPid \/ parent_pid[q] # None)
        BY <3>2, <3>4, <4>2
      <4>4. parent_pid'[q] = parent_pid[q]
        BY <1>4, <4>3
      <4> QED
        BY ONLY <4>1, <4>2, <4>3, <4>4
    <3> QED
      BY <3>3, <3>4
  <2>3. \A d \in Pids : status'[d] # "absent" /\ d # InitPid => parent_pid'[d] # None
    <3>1. \A d \in Pids : status[d] # "absent" /\ d # InitPid => parent_pid[d] # None
      BY <2>0 DEF Family
    <3>2. p # None
      OBVIOUS
    <3> HIDE DEF None, InitPid
    <3> QED
      BY <1>4, <3>1, <3>2
  <2>4. status'[InitPid] \notin {"absent", "zombie"}
    BY <1>3, <1>4 DEF ExitInv, Family
  <2>5. \A k \in 1 .. Len(pending_waits') :
          pending_waits'[k].pids \subseteq child_pids'[pending_waits'[k].pid]
    <3>1. \A k \in 1 .. Len(pending_waits) :
            pending_waits[k].pids \subseteq child_pids[pending_waits[k].pid]
      BY <2>0 DEF Family
    <3>2. \A k \in 1 .. Len(pending_waits) :
            child_pids[pending_waits[k].pid] \subseteq child_pids'[pending_waits[k].pid]
      BY <1>4, <1>7
    <3> QED
      BY <1>0, <3>1, <3>2
  <2> QED
    BY <2>1, <2>2, <2>3, <2>4, <2>5 DEF Family
<1>9. Events'
  BY <1>0, <1>6, AtStep DEF ExitInv, Events
<1>10. Returned'
  <2>1. \A q \in Pids : pc'[q] = "reap" <=> pc[q] = "reap"
    BY <1>3, <1>4
  <2>2. \A q \in Pids : ret[q] # None => /\ ret[q] \in Pids /\ ret[q] # c
                                         /\ parent_pid'[ret[q]] = q /\ status'[ret[q]] = "zombie"
                                         /\ ~Happened(ret[q])
    BY <1>0, <1>2, <1>4, AtStep DEF ExitInv, Returned
  <2>3. \A q \in Pids : ret[q] # None <=> pc[q] = "reap"
    BY DEF ExitInv, Returned
  <2> QED
    BY <1>0, <2>1, <2>2, <2>3 DEF Returned, Happened
<1>11. ASSUME NEW k \in 1 .. Len(pending_waits)
      PROVE  RequestOK(pending_waits[k])'
  <2>1. PICK w : w = pending_waits[k]
    OBVIOUS
  <2>2. RequestOK(w) /\ w.pid \in Pids /\ w.pids \subseteq Pids /\ w.pid # c
    BY <1>0, <1>7, <2>1, RequestsAll DEF ExitInv
  <2>3. RequestOK(w)'
    BY <1>4, <1>6, <2>2, RequestStaysOK
  <2> QED
    BY <1>0, <2>1, <2>3
<1>12. Requests'
  BY <1>0, <1>11 DEF Requests, RequestOK
<1>13. ASSUME NEW d \in Pids
      PROVE  RecordedOK(d)'
  <2>1. RecordedOK(d) /\ (status[d] = "zombie" => parent_pid[d] \in Pids)
    BY <1>0, AtStep, RecordedAll DEF ExitInv
  <2> QED
    BY <1>0, <1>2, <1>4, <1>5, <1>6, <2>1 DEF RecordedOK
<1>14. Recorded'
  BY <1>13 DEF Recorded, RecordedOK, OwnWaits
<1> QED
  BY <1>8, <1>9, <1>10, <1>12, <1>14 DEF ExitInv

LEMMA ExitWaitCall ==
    ASSUME ExitInv, WaitInv', NEW p \in Pids, WaitCall(p)
    PROVE  ExitInv'
<1> USE PidsFacts DEF At, Goto, family, lists, locals, sched
<1>0. /\ p = current /\ irq.on # p /\ pc[p] = "user"
      /\ UNCHANGED <<ret, status, child_pids, parent_pid>>
      /\ happened_waits' = happened_waits
  BY DEF WaitCall
<1>1. BaseInv /\ TypeOK /\ WaitInv /\ Row(status[p], pc[p], op[p]) /\ status[p] = "active"
  BY <1>0, AtStep
<1>2. pc'[p] = "scan" /\ \A q \in Pids : q # p => pc'[q] = pc[q]
  BY <1>1 DEF WaitCall, TypeOK
<1>3. OwnWaits(p) = {} /\ ret[p] = None
  BY <1>0, <1>1 DEF WaitInv, WaitsOwned, Waiting, ExitInv, Returned
<1>4. PICK T \in SUBSET Pids :
        T \subseteq child_pids[p] /\ pending_waits'[Len(pending_waits) + 1] = [pid |-> p, pids |-> T]
  BY <1>1, WaitCallFacts
<1>5. /\ Len(pending_waits) \in Nat
      /\ Len(pending_waits') = Len(pending_waits) + 1
      /\ \A k \in 1 .. Len(pending_waits) : pending_waits'[k] = pending_waits[k]
  BY <1>1, WaitCallFacts
<1>6. \A c : Happened(c)' <=> Happened(c)
  BY <1>0, HappenedSame
<1>7. \A c \in T : status[c] = "zombie" => Happened(c)
  <2> SUFFICES ASSUME NEW c \in T, status[c] = "zombie" PROVE Happened(c)
    OBVIOUS
  <2>1. RecordedOK(c) /\ parent_pid[c] = p
    BY <1>4, RecordedAll DEF ExitInv, Family
  <2> QED
    BY <1>1, <1>3, <2>1 DEF RecordedOK, OwnWaits
<1>8. Family'
  <2>1. \A k \in 1 .. Len(pending_waits') :
          pending_waits'[k].pids \subseteq child_pids'[pending_waits'[k].pid]
    <3>1. \A k \in 1 .. Len(pending_waits) :
            pending_waits[k].pids \subseteq child_pids[pending_waits[k].pid]
      BY DEF ExitInv, Family
    <3>2. ASSUME NEW k \in 1 .. Len(pending_waits'), k # Len(pending_waits) + 1
          PROVE  k \in 1 .. Len(pending_waits)
      BY <1>5, <3>2
    <3>3. /\ pending_waits'[Len(pending_waits) + 1].pid = p
          /\ pending_waits'[Len(pending_waits) + 1].pids \subseteq child_pids[p]
      BY <1>4
    <3>4. ASSUME NEW k \in 1 .. Len(pending_waits')
          PROVE  pending_waits'[k].pids \subseteq child_pids[pending_waits'[k].pid]
      <4>1. CASE k = Len(pending_waits) + 1
        BY <3>3, <4>1
      <4>2. CASE k # Len(pending_waits) + 1
        BY <1>5, <3>1, <3>2, <4>2
      <4> QED
        BY <4>1, <4>2
    <3> QED
      BY <1>0, <3>4
  <2> QED
    BY <1>0, <2>1 DEF ExitInv, Family
<1>9. Events'
  BY <1>0 DEF ExitInv, Events
<1>10. Returned'
  <2>1. \A q \in Pids : pc'[q] = "reap" <=> pc[q] = "reap"
    BY <1>0, <1>2
  <2> QED
    BY <1>0, <1>6, <2>1 DEF ExitInv, Returned, Happened
<1>11. ASSUME NEW k \in 1 .. Len(pending_waits')
       PROVE  RequestOK(pending_waits[k])'
  <2>1. PICK w : w = pending_waits'[k]
    OBVIOUS
  <2>2. CASE k = Len(pending_waits) + 1
    <3>1. w.pid = p /\ w.pids = T
      BY <1>4, <2>1, <2>2
    <3>2. RequestOK(w)'
      BY <1>0, <1>1, <1>2, <1>6, <1>7, <3>1 DEF RequestOK
    <3> QED
      BY <2>1, <3>2
  <2>3. CASE k # Len(pending_waits) + 1
    <3>1. k \in 1 .. Len(pending_waits) /\ w = pending_waits[k]
      BY <1>5, <2>1, <2>3
    <3>2. RequestOK(w) /\ w.pid \in Pids /\ w.pids \subseteq Pids
      BY <1>0, <3>1, AtStep, RequestsAll DEF ExitInv
    <3>3. w.pid # p
      BY <1>3, <3>1 DEF OwnWaits
    <3>4. RequestOK(w)'
      BY <1>0, <1>2, <1>6, <3>2, <3>3, RequestStaysOK
    <3> QED
      BY <2>1, <3>4
  <2> QED
    BY <2>2, <2>3
<1>12. Requests'
  BY <1>11 DEF Requests, RequestOK
<1>13. ASSUME NEW d \in Pids
      PROVE  RecordedOK(d)'
  <2>1. RecordedOK(d) /\ (status[d] = "zombie" => parent_pid[d] \in Pids)
    BY <1>0, AtStep, RecordedAll DEF ExitInv
  <2>2. \A k \in 1 .. Len(pending_waits) : pending_waits[k].pid # p /\ k \in 1 .. Len(pending_waits')
    BY <1>3, <1>5 DEF OwnWaits
  <2> QED
    BY <1>0, <1>2, <1>5, <1>6, <2>1, <2>2 DEF RecordedOK
<1>14. Recorded'
  BY <1>13 DEF Recorded, RecordedOK, OwnWaits
<1> QED
  BY <1>8, <1>9, <1>10, <1>12, <1>14 DEF ExitInv

\* Dropping the event of c leaves the others.
LEMMA EventsKept ==
    ASSUME Events, NEW c \in Pids,
           IsKept(happened_waits', happened_waits,
                  {k \in 1 .. Len(happened_waits) : happened_waits[k] # c})
    PROVE  /\ \A d : Happened(d)' <=> Happened(d) /\ d # c
           /\ \A j, k \in 1 .. Len(happened_waits') :
                happened_waits'[j] = happened_waits'[k] => j = k
<1> DEFINE K == {k \in 1 .. Len(happened_waits) : happened_waits[k] # c}
<1>1. /\ IsKept(happened_waits', happened_waits, K)
      /\ \A k \in K : k \in 1 .. Len(happened_waits) /\ happened_waits[k] # c
      /\ \A k \in 1 .. Len(happened_waits) : happened_waits[k] # c => k \in K
  OBVIOUS
<1> HIDE DEF K
<1>2. \A d : Happened(d)' => Happened(d) /\ d # c
  <2> SUFFICES ASSUME NEW d, NEW i \in 1 .. Len(happened_waits'), happened_waits'[i] = d
               PROVE  Happened(d) /\ d # c
    BY DEF Happened
  <2>1. PICK k \in K : happened_waits'[i] = happened_waits[k]
    BY <1>1 DEF IsKept
  <2> QED
    BY <1>1, <2>1 DEF Happened
<1>3. \A d : Happened(d) /\ d # c => Happened(d)'
  <2> SUFFICES ASSUME NEW d, NEW k \in 1 .. Len(happened_waits), happened_waits[k] = d, d # c
               PROVE  Happened(d)'
    BY DEF Happened
  <2>1. PICK i \in 1 .. Len(happened_waits') : happened_waits'[i] = happened_waits[k]
    BY <1>1 DEF IsKept
  <2> QED
    BY <2>1 DEF Happened
<1>4. \A j, k \in 1 .. Len(happened_waits') :
        happened_waits'[j] = happened_waits'[k] => j = k
  <2> SUFFICES ASSUME NEW j \in 1 .. Len(happened_waits'), NEW k \in 1 .. Len(happened_waits'),
                      happened_waits'[j] = happened_waits'[k], j # k
               PROVE  FALSE
    OBVIOUS
  <2>1. PICK a \in K, b \in K :
          a # b /\ happened_waits'[j] = happened_waits[a] /\ happened_waits'[k] = happened_waits[b]
    BY <1>1 DEF IsKept
  <2> QED
    BY <1>1, <2>1 DEF Events
<1> QED
  BY <1>2, <1>3, <1>4

\* waitpid returns the child c, which it takes off the events or whose exit
\* its request names, and drops its request.
LEMMA ExitTaken ==
    ASSUME ExitInv, WaitInv', NEW p \in Pids, NEW c \in Pids, p = current, irq.on # p,
           pc[p] \in {"scan", "woken"},
           UNCHANGED <<status, child_pids, parent_pid>>,
           pc' = [pc EXCEPT ![p] = "reap"], ret' = [ret EXCEPT ![p] = c],
           IsKept(pending_waits', pending_waits, (1 .. Len(pending_waits)) \ OwnWaits(p)),
           \A d : Happened(d)' <=> Happened(d) /\ d # c,
           \A j, k \in 1 .. Len(happened_waits') :
             happened_waits'[j] = happened_waits'[k] => j = k,
           status[c] = "zombie", parent_pid[c] = p,
           \A k \in OwnWaits(p) : pc[p] # "scan" => c \in pending_waits[k].pids
    PROVE  ExitInv'
<1> USE PidsFacts
<1>1. BaseInv /\ TypeOK /\ WaitInv
  BY AtStep
<1>2. /\ pc'[p] = "reap" /\ ret'[p] = c
      /\ \A q \in Pids : q # p => pc'[q] = pc[q] /\ ret'[q] = ret[q]
  BY <1>1 DEF TypeOK
<1>3. ret[p] = None
  BY DEF ExitInv, Returned
<1>4. \A i \in 1 .. Len(pending_waits') :
        \E k \in 1 .. Len(pending_waits) : pending_waits'[i] = pending_waits[k] /\ pending_waits[k].pid # p
  <2> DEFINE K == (1 .. Len(pending_waits)) \ OwnWaits(p)
  <2>1. \A k \in K : k \in 1 .. Len(pending_waits) /\ pending_waits[k].pid # p
    BY DEF OwnWaits
  <2>2. \A i \in 1 .. Len(pending_waits') : \E k \in K : pending_waits'[i] = pending_waits[k]
    BY Zenon DEF IsKept
  <2> QED
    BY ONLY <2>1, <2>2, Zenon
<1>5. \A k \in 1 .. Len(pending_waits) : pending_waits[k].pid # p =>
        \E i \in 1 .. Len(pending_waits') : pending_waits'[i] = pending_waits[k]
  <2> SUFFICES ASSUME NEW k \in 1 .. Len(pending_waits), pending_waits[k].pid # p
               PROVE  \E i \in 1 .. Len(pending_waits') : pending_waits'[i] = pending_waits[k]
    OBVIOUS
  <2>1. k \in (1 .. Len(pending_waits)) \ OwnWaits(p)
    BY DEF OwnWaits
  <2> HIDE DEF OwnWaits
  <2> QED
    BY <2>1 DEF IsKept
<1>6. Family'
  <2>1. \A k \in 1 .. Len(pending_waits) :
          pending_waits[k].pids \subseteq child_pids[pending_waits[k].pid]
    BY DEF ExitInv, Family
  <2>2. \A i \in 1 .. Len(pending_waits') :
          pending_waits'[i].pids \subseteq child_pids[pending_waits'[i].pid]
    BY <1>4, <2>1
  <2> QED
    BY <2>2 DEF ExitInv, Family
<1>7. Events'
  <2>1. ASSUME NEW i \in 1 .. Len(happened_waits')
        PROVE  status'[happened_waits'[i]] = "zombie"
    <3>1. PICK d : d = happened_waits'[i]
      OBVIOUS
    <3>2. Happened(d)'
      BY <3>1 DEF Happened
    <3>3. Happened(d)
      BY <3>2
    <3> QED
      BY <3>1, <3>3 DEF Happened, ExitInv, Events
  <2> QED
    BY <2>1 DEF Events
<1>8. Returned'
  <2>1. ASSUME NEW q \in Pids
        PROVE  /\ ret'[q] # None <=> pc'[q] = "reap"
               /\ ret'[q] # None => /\ parent_pid'[ret'[q]] = q
                                    /\ status'[ret'[q]] = "zombie"
                                    /\ ~Happened(ret[q])'
    <3>1. CASE q = p
      <4>1. ~Happened(c)'
        OBVIOUS
      <4> QED
        BY <1>2, <3>1, <4>1 DEF Happened
    <3>2. CASE q # p
      <4>1. PICK d : d = ret[q]
        OBVIOUS
      <4>2. /\ d # None <=> pc[q] = "reap"
            /\ d # None => parent_pid[d] = q /\ status[d] = "zombie" /\ ~Happened(d)
        BY <4>1 DEF ExitInv, Returned
      <4>3. d # None => ~Happened(d)'
        BY <4>2
      <4> QED
        BY <1>2, <3>2, <4>1, <4>2, <4>3 DEF Happened
    <3> QED
      BY <3>1, <3>2
  <2> QED
    BY <2>1 DEF Returned, Happened
<1>9. ASSUME NEW i \in 1 .. Len(pending_waits')
      PROVE  RequestOK(pending_waits[i])'
  <2>1. PICK k \in 1 .. Len(pending_waits) :
          pending_waits'[i] = pending_waits[k] /\ pending_waits[k].pid # p
    BY <1>4
  <2>2. PICK w : w = pending_waits[k]
    OBVIOUS
  <2>3. /\ RequestOK(w) /\ w.pid \in Pids /\ w.pids \subseteq Pids
        /\ \A d \in w.pids : parent_pid[d] = w.pid
    BY <2>2, AtStep, RequestsAll DEF ExitInv
  <2>4. c \notin w.pids
    BY <2>1, <2>2, <2>3
  <2>5. RequestOK(w)'
    BY <1>2, <2>1, <2>2, <2>3, <2>4, RequestStaysOK
  <2> QED
    BY <2>1, <2>2, <2>5
<1>10. Requests'
  BY <1>9 DEF Requests, RequestOK
<1>11. ASSUME NEW d \in Pids
       PROVE  RecordedOK(d)'
  <2>1. RecordedOK(d) /\ (status[d] = "zombie" => parent_pid[d] \in Pids)
    BY AtStep, RecordedAll DEF ExitInv
  <2>2. CASE d = c
    BY <1>2, <2>2 DEF RecordedOK
  <2>3. CASE d # c
    <3>1. ASSUME NEW k \in 1 .. Len(pending_waits), pending_waits[k].pid = p,
                 pending_waits[k].pids = {d}, pc[p] # "scan"
          PROVE  FALSE
      BY <2>3, <3>1 DEF OwnWaits
    <3> QED
      <4>1. CASE \E k \in 1 .. Len(pending_waits) :
                   /\ pending_waits[k].pid = parent_pid[d] /\ pending_waits[k].pids = {d}
                   /\ pc[parent_pid[d]] # "scan"
        <5>1. PICK k \in 1 .. Len(pending_waits) :
                   /\ pending_waits[k].pid = parent_pid[d] /\ pending_waits[k].pids = {d}
                   /\ pc[parent_pid[d]] # "scan"
          BY <4>1
        <5>2. pending_waits[k].pid # p
          BY <3>1, <5>1
        <5>3. \E i \in 1 .. Len(pending_waits') : pending_waits'[i] = pending_waits[k]
          BY <1>5, <5>2
        <5> QED
          BY <1>2, <2>1, <5>1, <5>2, <5>3 DEF RecordedOK
      <4>2. CASE ~\E k \in 1 .. Len(pending_waits) :
                   /\ pending_waits[k].pid = parent_pid[d] /\ pending_waits[k].pids = {d}
                   /\ pc[parent_pid[d]] # "scan"
        BY <1>2, <1>3, <2>1, <2>3, <4>2 DEF RecordedOK
      <4> QED
        BY <4>1, <4>2
  <2> QED
    BY <2>2, <2>3
<1>12. Recorded'
  BY <1>11 DEF Recorded, RecordedOK, OwnWaits
<1> QED
  BY <1>6, <1>7, <1>8, <1>10, <1>12 DEF ExitInv

LEMMA ExitWoken ==
    ASSUME ExitInv, WaitInv', NEW p \in Pids, WaitWoken(p)
    PROVE  ExitInv'
<1> USE PidsFacts DEF At, Goto, family, lists, locals, sched
<1>0. /\ p = current /\ irq.on # p /\ pc[p] = "woken" /\ op[p] = "wait"
      /\ UNCHANGED <<status, child_pids, parent_pid>>
      /\ happened_waits' = happened_waits
  BY DEF WaitWoken
<1>1. BaseInv /\ TypeOK /\ WaitInv /\ Row(status[p], pc[p], op[p]) /\ status[p] = "active"
  BY <1>0, AtStep
<1>2. OwnWaits(p) # {}
  BY <1>0, <1>1 DEF WaitInv, WaitsOwned, Waiting
<1>3. PICK w : w = First(OwnWaits(p))
  OBVIOUS
<1>4. w \in OwnWaits(p)
  <2>1. Len(pending_waits) \in Nat /\ OwnWaits(p) \subseteq 1 .. Len(pending_waits)
    BY <1>1 DEF OwnWaits, TypeOK
  <2> QED
    BY <1>2, <1>3, <2>1, FirstIn
<1>5. PICK c \in pending_waits[w].pids : ret' = [ret EXCEPT ![p] = c]
  BY <1>2, <1>3 DEF WaitWoken
<1>6. pending_waits' = RemoveAt(pending_waits, w) /\ pc' = [pc EXCEPT ![p] = "reap"]
  BY <1>2, <1>3 DEF WaitWoken
<1>7. IsKept(pending_waits', pending_waits, (1 .. Len(pending_waits)) \ OwnWaits(p))
  BY <1>1, <1>4, <1>6, OwnRemoved
<1>8. w \in 1 .. Len(pending_waits) /\ pending_waits[w].pid = p
  BY <1>4 DEF OwnWaits
<1>9. c \in Pids /\ parent_pid[c] = p /\ RequestOK(pending_waits[w])
  BY <1>0, <1>5, <1>8, AtStep, RequestsAll DEF ExitInv
<1>10. status[c] = "zombie" /\ ~Happened(c)
  BY <1>0, <1>1, <1>5, <1>8, <1>9 DEF RequestOK
<1>11. \A k \in OwnWaits(p) : c \in pending_waits[k].pids
  BY <1>1, <1>5, <1>8 DEF OwnWaits, WaitInv, WaitsOwned
<1>12. \A d : Happened(d)' <=> Happened(d) /\ d # c
  BY <1>0, <1>10, HappenedSame
<1>13. \A j, k \in 1 .. Len(happened_waits') :
         happened_waits'[j] = happened_waits'[k] => j = k
  BY <1>0 DEF ExitInv, Events
<1> QED
  BY <1>0, <1>5, <1>6, <1>7, <1>9, <1>10, <1>11, <1>12, <1>13, ExitTaken

LEMMA ExitScan ==
    ASSUME ExitInv, WaitInv', NEW p \in Pids, WaitScan(p)
    PROVE  ExitInv'
<1> USE PidsFacts DEF At, Goto, family, lists, locals, sched
<1>0. /\ p = current /\ irq.on # p /\ pc[p] = "scan" /\ op' = op
      /\ UNCHANGED <<status, child_pids, parent_pid>>
  BY DEF WaitScan
<1>1. BaseInv /\ TypeOK /\ WaitInv /\ Row(status[p], pc[p], op[p]) /\ status[p] = "active"
  BY <1>0, AtStep
<1>2. CASE Matches(p) # {}
  <2>1. PICK e : e = First(Matches(p))
    OBVIOUS
  <2>2. PICK w : w = Len(pending_waits)
    OBVIOUS
  <2>3. /\ e \in Matches(p) /\ e \in 1 .. Len(happened_waits) /\ happened_waits[e] \in Pids
        /\ w \in 1 .. Len(pending_waits)
    BY <1>1, <1>2, <2>1, <2>2, ScanFacts
  <2>4. PICK c \in Pids : c = happened_waits[e]
    BY <2>3
  <2>5. /\ ret' = [ret EXCEPT ![p] = c]
        /\ happened_waits' = RemoveAt(happened_waits, e)
        /\ pending_waits' = RemoveAt(pending_waits, w)
        /\ pc' = [pc EXCEPT ![p] = "reap"]
    BY <1>2, <2>1, <2>2, <2>4 DEF WaitScan
  <2>6. w \in OwnWaits(p)
    BY <1>0, <1>1, <2>2, <2>3 DEF WaitInv, WaitAtomic, OwnWaits
  <2>7. IsKept(pending_waits', pending_waits, (1 .. Len(pending_waits)) \ OwnWaits(p))
    BY <1>1, <2>5, <2>6, OwnRemoved
  <2>8. IsKept(happened_waits', happened_waits, (1 .. Len(happened_waits)) \ {e})
    <3>1. happened_waits \in Seq(Pids)
      BY <1>1 DEF TypeOK
    <3> QED
      BY <2>3, <2>5, <3>1, RemoveAtFacts
  <2>9. (1 .. Len(happened_waits)) \ {e}
          = {k \in 1 .. Len(happened_waits) : happened_waits[k] # c}
    BY <2>3, <2>4 DEF ExitInv, Events
  <2>10. /\ \A d : Happened(d)' <=> Happened(d) /\ d # c
         /\ \A j, k \in 1 .. Len(happened_waits') :
              happened_waits'[j] = happened_waits'[k] => j = k
    BY <2>8, <2>9, EventsKept DEF ExitInv
  <2>11. status[c] = "zombie" /\ parent_pid[c] = p
    <3>1. PICK v \in OwnWaits(p) : c \in pending_waits[v].pids
      BY <2>3, <2>4 DEF Matches
    <3>2. v \in 1 .. Len(pending_waits) /\ pending_waits[v].pid = p
      BY <3>1 DEF OwnWaits
    <3>3. parent_pid[c] = p
      BY <1>0, <3>1, <3>2, AtStep
    <3> QED
      BY <2>3, <2>4, <3>3 DEF ExitInv, Events
  <2> QED
    BY <1>0, <2>5, <2>7, <2>10, <2>11, ExitTaken
<1>3. CASE Matches(p) = {}
  <2>1. /\ UNCHANGED <<ret, happened_waits, pending_waits>>
        /\ pc' = [pc EXCEPT ![p] = "sleep"]
    BY <1>3 DEF WaitScan
  <2>2. pc'[p] = "sleep" /\ \A q \in Pids : q # p => pc'[q] = pc[q]
    BY <1>1, <2>1 DEF TypeOK
  <2>3. \A d : Happened(d)' <=> Happened(d)
    BY <2>1, HappenedSame
  <2>4. Family' /\ Events'
    BY <1>0, <2>1 DEF ExitInv, Family, Events
  <2>5. Returned'
    <3>1. \A q \in Pids : pc'[q] = "reap" <=> pc[q] = "reap"
      BY <1>0, <2>2
    <3> QED
      BY <1>0, <2>1, <2>3, <3>1 DEF ExitInv, Returned, Happened
  <2>6. ASSUME NEW k \in 1 .. Len(pending_waits)
        PROVE  RequestOK(pending_waits[k])'
    <3>1. PICK w : w = pending_waits[k]
      OBVIOUS
    <3>2. RequestOK(w) /\ w.pid \in Pids /\ w.pids \subseteq Pids
      BY <1>0, <3>1, AtStep, RequestsAll DEF ExitInv
    <3>3. CASE w.pid # p
      <4>1. RequestOK(w)'
        BY <1>0, <2>2, <2>3, <3>2, <3>3, RequestStaysOK
      <4> QED
        BY <2>1, <3>1, <4>1
    <3>4. CASE w.pid = p
      <4>1. \A c \in w.pids : ~Happened(c)
        BY <1>3, <3>1, <3>4 DEF Matches, OwnWaits, Happened
      <4>2. \A c \in w.pids : status[c] # "zombie"
        BY <1>0, <3>2, <3>4, <4>1 DEF RequestOK
      <4>3. RequestOK(w)'
        BY <1>0, <1>1, <2>2, <2>3, <3>2, <3>4, <4>1, <4>2 DEF RequestOK
      <4> QED
        BY <2>1, <3>1, <4>3
    <3> QED
      BY <3>3, <3>4
  <2>7. Requests'
    BY <2>1, <2>6 DEF Requests, RequestOK
  <2>8. ASSUME NEW d \in Pids
        PROVE  RecordedOK(d)'
    <3>1. RecordedOK(d) /\ (status[d] = "zombie" => parent_pid[d] \in Pids)
      BY <1>0, AtStep, RecordedAll DEF ExitInv
    <3> QED
      BY <1>0, <2>1, <2>2, <2>3, <3>1 DEF RecordedOK
  <2>9. Recorded'
    BY <2>8 DEF Recorded, RecordedOK, OwnWaits
  <2> QED
    BY <2>4, <2>5, <2>7, <2>9 DEF ExitInv
<1> QED
  BY <1>2, <1>3

LEMMA ExitReap ==
    ASSUME ExitInv, WaitInv', NEW p \in Pids, Reap(p)
    PROVE  ExitInv'
<1> USE PidsFacts DEF At, Goto, family
<1>0. /\ p = current /\ irq.on # p /\ pc[p] = "reap" /\ ret' = [ret EXCEPT ![p] = None]
      /\ UNCHANGED <<child_pids, parent_pid>>
  BY DEF Reap
<1>1. BaseInv /\ TypeOK /\ WaitInv /\ Row(status[p], pc[p], op[p]) /\ status[p] = "active"
  BY <1>0, AtStep
<1>2. PICK c : c = ret[p]
  OBVIOUS
<1>3. c \in Pids /\ parent_pid[c] = p /\ status[c] = "zombie" /\ ~Happened(c)
  BY <1>0, <1>2, AtStep DEF ExitInv, Returned
<1>4. /\ PurgeProcess(c)
      /\ status' = [status EXCEPT ![c] = "absent"]
      /\ pc' = [pc EXCEPT ![p] = "user", ![c] = "gone"]
  BY <1>2, <1>3 DEF Reap
<1>5. c # p /\ c # InitPid /\ op[c] = "exit" /\ pc[c] \in {"spin", "woken"} /\ ret[c] = None
  BY <1>1, <1>3 DEF ExitInv, Family, Returned, BaseInv, Control, Row
<1>6. OwnWaits(p) = {} /\ OwnWaits(c) = {}
  BY <1>0, <1>1, <1>3, <1>5 DEF WaitInv, WaitsOwned, Waiting
<1>7. /\ pc'[p] = "user" /\ pc'[c] = "gone" /\ status'[c] = "absent" /\ ret'[p] = None
      /\ \A q \in Pids : q # c => status'[q] = status[q]
      /\ \A q \in Pids : q # p => ret'[q] = ret[q]
      /\ \A q \in Pids : q # p /\ q # c => pc'[q] = pc[q]
  BY <1>0, <1>1, <1>3, <1>4, <1>5 DEF TypeOK
<1>8. IsKept(pending_waits', pending_waits, 1 .. Len(pending_waits))
  <2>1. /\ (1 .. Len(pending_waits)) \ OwnWaits(c) = 1 .. Len(pending_waits)
        /\ pending_waits \in Seq(WaitRequest)
    BY <1>1, <1>6 DEF TypeOK
  <2>2. pending_waits' = Keep(pending_waits, 1 .. Len(pending_waits))
    BY <1>4, <2>1 DEF PurgeProcess
  <2> QED
    BY <2>1, <2>2, KeepFacts
<1>9. IsKept(happened_waits', happened_waits,
             {k \in 1 .. Len(happened_waits) : happened_waits[k] # c})
  <2>1. PICK K \in SUBSET (1 .. Len(happened_waits)) :
          K = {k \in 1 .. Len(happened_waits) : happened_waits[k] # c}
    OBVIOUS
  <2>2. happened_waits' = Keep(happened_waits, K) /\ happened_waits \in Seq(Pids)
    BY <1>1, <1>4, <2>1 DEF PurgeProcess, TypeOK
  <2>3. IsKept(happened_waits', happened_waits, K)
    BY <2>2, KeepFacts
  <2> QED
    BY <2>1, <2>3
<1>10. /\ \A d : Happened(d)' <=> Happened(d)
       /\ \A j, k \in 1 .. Len(happened_waits') :
            happened_waits'[j] = happened_waits'[k] => j = k
  BY <1>3, <1>9, EventsKept DEF ExitInv
<1>11. Family'
  <2>1. \A k \in 1 .. Len(pending_waits) :
          pending_waits[k].pids \subseteq child_pids[pending_waits[k].pid]
    BY DEF ExitInv, Family
  <2>2. \A i \in 1 .. Len(pending_waits') :
          pending_waits'[i].pids \subseteq child_pids[pending_waits'[i].pid]
    BY <1>8, <2>1 DEF IsKept
  <2> QED
    BY <1>0, <1>5, <1>7, <2>2 DEF ExitInv, Family
<1>12. Events'
  <2>1. ASSUME NEW i \in 1 .. Len(happened_waits')
        PROVE  status'[happened_waits'[i]] = "zombie"
    <3>1. PICK d : d = happened_waits'[i]
      OBVIOUS
    <3>2. Happened(d)'
      BY <3>1 DEF Happened
    <3>3. Happened(d)
      BY <1>10, <3>2
    <3>4. status[d] = "zombie" /\ d \in Pids /\ d # c
      BY <1>0, <1>3, <3>3, AtStep DEF Happened, ExitInv, Events
    <3> QED
      BY <1>7, <3>1, <3>4
  <2> QED
    BY <1>10, <2>1 DEF Events
<1>13. Returned'
  <2>1. ASSUME NEW q \in Pids
        PROVE  /\ ret'[q] # None <=> pc'[q] = "reap"
               /\ ret'[q] # None => /\ parent_pid'[ret'[q]] = q
                                    /\ status'[ret'[q]] = "zombie"
                                    /\ ~Happened(ret[q])'
    <3>1. CASE q = p
      BY <1>7, <3>1
    <3>2. CASE q # p
      <4>1. PICK d : d = ret[q]
        OBVIOUS
      <4>2. /\ d # None <=> pc[q] = "reap"
            /\ d # None => parent_pid[d] = q /\ status[d] = "zombie" /\ ~Happened(d) /\ d \in Pids
        BY <1>0, <4>1, AtStep DEF ExitInv, Returned
      <4>3. d # None => ~Happened(d)' /\ d # c
        BY <1>3, <1>10, <3>2, <4>2
      <4>4. pc'[q] = "reap" <=> pc[q] = "reap"
        BY <1>5, <1>7, <3>2
      <4> QED
        <5>1. ret'[q] = d /\ parent_pid' = parent_pid
          BY <1>0, <1>7, <3>2, <4>1
        <5>2. d # None => status'[d] = "zombie"
          BY <1>7, <4>2, <4>3
        <5>3. ~Happened(d)' => ~Happened(ret[q])'
          BY <5>1 DEF Happened
        <5> QED
          BY <4>2, <4>3, <4>4, <5>1, <5>2, <5>3
    <3> QED
      BY <3>1, <3>2
  <2> QED
    BY <2>1 DEF Returned, Happened
<1>14. ASSUME NEW i \in 1 .. Len(pending_waits')
       PROVE  RequestOK(pending_waits[i])'
  <2>1. PICK k \in 1 .. Len(pending_waits) : pending_waits'[i] = pending_waits[k]
    BY <1>8 DEF IsKept
  <2>2. PICK w : w = pending_waits[k]
    OBVIOUS
  <2>3. /\ RequestOK(w) /\ w.pid \in Pids /\ w.pids \subseteq Pids
        /\ \A d \in w.pids : parent_pid[d] = w.pid
    BY <1>0, <2>2, AtStep, RequestsAll DEF ExitInv
  <2>4. w.pid # p /\ w.pid # c /\ c \notin w.pids
    BY <1>3, <1>6, <2>2, <2>3 DEF OwnWaits
  <2>5. RequestOK(w)'
    BY <1>7, <1>10, <2>3, <2>4, RequestStaysOK
  <2> QED
    BY <2>1, <2>2, <2>5
<1>15. Requests'
  BY <1>14 DEF Requests, RequestOK
<1>16. ASSUME NEW d \in Pids
       PROVE  RecordedOK(d)'
  <2>1. RecordedOK(d) /\ (status[d] = "zombie" => parent_pid[d] \in Pids)
    BY <1>0, AtStep, RecordedAll DEF ExitInv
  <2>2. \A k \in 1 .. Len(pending_waits) : \E i \in 1 .. Len(pending_waits') :
          pending_waits'[i] = pending_waits[k]
    BY <1>8 DEF IsKept
  <2>3. \A k \in 1 .. Len(pending_waits) : pending_waits[k].pid # p /\ pending_waits[k].pid # c
    BY <1>6 DEF OwnWaits
  <2> SUFFICES ASSUME status'[d] = "zombie", status'[parent_pid[d]] \notin {"zombie", "absent"}
               PROVE  RecordedOK(d)'
    BY <1>0 DEF RecordedOK
  <2>4. d # c /\ parent_pid[d] # c /\ status[d] = "zombie" /\ parent_pid[d] \in Pids
    BY <1>7, <2>1
  <2>5. status[parent_pid[d]] \notin {"zombie", "absent"}
    BY <1>7, <2>4
  <2>6. \/ Happened(d)'
        \/ ret'[parent_pid[d]] = d
        \/ \E k \in 1 .. Len(pending_waits) :
             /\ pending_waits[k].pid = parent_pid[d] /\ pending_waits[k].pids = {d}
             /\ pc'[parent_pid[d]] # "scan"
    BY <1>2, <1>7, <1>10, <2>1, <2>3, <2>4, <2>5 DEF RecordedOK
  <2> QED
    BY <1>0, <2>2, <2>6 DEF RecordedOK
<1>17. Recorded'
  BY <1>16 DEF Recorded, RecordedOK, OwnWaits
<1> QED
  BY <1>11, <1>12, <1>13, <1>15, <1>17 DEF ExitInv

\* The process whose request the end of c answers sleeps: the requests of
\* the others do not name c.
LEMMA AskingSleeps ==
    ASSUME ExitInv, NEW c \in Pids, Exit(c), NEW w \in 1 .. Len(pending_waits),
           c \in pending_waits[w].pids
    PROVE  /\ pending_waits[w].pid # c /\ status[pending_waits[w].pid] = "sleeping"
           /\ pc[pending_waits[w].pid] \in After
<1>1. /\ c = current /\ irq.on # c /\ status[c] = "active" /\ pc[c] = "user"
  BY ExitFacts DEF ExitInv, WaitInv, Exit, At
<1>2. PICK r : r = pending_waits[w]
  OBVIOUS
<1>3. /\ r.pid \in Pids /\ op[r.pid] = "wait" /\ pc[r.pid] \in Waiting /\ RequestOK(r)
      /\ r.pid # c => pc[r.pid] # "scan" /\ ~(op[r.pid] = "wait" /\ pc[r.pid] = "sleep")
  BY <1>1, <1>2, AtStep, RequestsAll DEF ExitInv
<1>4. r.pid # c
  BY <1>1, <1>3 DEF Waiting
<1>5. pc[r.pid] \in {"yield", "spin", "woken"}
  BY <1>3, <1>4 DEF Waiting
<1> QED
  BY <1>1, <1>2, <1>3, <1>4, <1>5 DEF RequestOK, After

LEMMA ExitExit ==
    ASSUME ExitInv, WaitInv', NEW c \in Pids, Exit(c)
    PROVE  ExitInv'
<1> USE PidsFacts DEF At, Goto, family, locals
<1>0. /\ c = current /\ irq.on # c /\ pc[c] = "user" /\ c # InitPid
      /\ UNCHANGED <<child_pids, parent_pid, ret>>
  BY DEF Exit
<1>1. BaseInv /\ TypeOK /\ WaitInv /\ Row(status[c], pc[c], op[c]) /\ status[c] = "active"
  BY <1>0, AtStep
<1>2. pc'[c] = "spin" /\ \A q \in Pids : q # c => pc'[q] = pc[q]
  BY <1>1 DEF Exit, TypeOK
<1>3. /\ status'[c] = "zombie"
      /\ \A q \in Pids : q # c /\ status'[q] # status[q] =>
           status[q] = "sleeping" /\ status'[q] = "runnable"
  BY <1>1, ExitFacts
<1>4. /\ \A q \in Pids : status'[q] = "zombie" <=> status[q] = "zombie" \/ q = c
      /\ \A q \in Pids : status'[q] = "absent" <=> status[q] = "absent"
      /\ \A q \in Pids : pc'[q] = "reap" <=> pc[q] = "reap"
      /\ \A q \in Pids : pc'[q] = "scan" <=> pc[q] = "scan"
  BY <1>0, <1>1, <1>2, <1>3
<1>5. ~Happened(c) /\ OwnWaits(c) = {} /\ \A q \in Pids : ret[q] # c
  <2>1. ~Happened(c)
    BY <1>1 DEF Happened, ExitInv, Events
  <2>2. OwnWaits(c) = {}
    BY <1>0, <1>1 DEF WaitInv, WaitsOwned, Waiting
  <2> QED
    BY <1>1, <2>1, <2>2 DEF ExitInv, Returned
<1>6. ASSUME \A d : Happened(d)' => Happened(d) \/ d = c
      PROVE  Returned'
  <2>1. ASSUME NEW q \in Pids
        PROVE  /\ ret'[q] # None <=> pc'[q] = "reap"
               /\ ret'[q] # None => /\ parent_pid'[ret'[q]] = q
                                    /\ status'[ret'[q]] = "zombie"
                                    /\ ~Happened(ret[q])'
    <3>1. PICK d : d = ret[q]
      OBVIOUS
    <3>2. /\ d # None <=> pc[q] = "reap"
          /\ d # None => parent_pid[d] = q /\ status[d] = "zombie" /\ ~Happened(d) /\ d \in Pids
      BY <1>0, <3>1, AtStep DEF ExitInv, Returned
    <3>3. d # None => ~Happened(d)'
      BY <1>5, <1>6, <3>1, <3>2
    <3> QED
      BY <1>0, <1>4, <3>1, <3>2, <3>3 DEF Happened
  <2> QED
    BY <2>1 DEF Returned, Happened
<1>7. ASSUME \A k \in 1 .. Len(pending_waits') :
               pending_waits'[k].pids \subseteq child_pids[pending_waits'[k].pid]
      PROVE  Family'
  BY <1>0, <1>4, <1>7 DEF ExitInv, Family
<1>8. ASSUME NEW w, RequestOK(w), w.pid \in Pids, w.pids \subseteq Pids, w.pid # c, c \notin w.pids,
             status'[w.pid] = status[w.pid],
             \A d : Happened(d)' <=> Happened(d) \/ (d = c /\ Happened(c)')
      PROVE  RequestOK(w)'
  BY <1>2, <1>4, <1>8, RequestStaysOK
<1>9. CASE /\ \A k \in 1 .. Len(pending_waits) : c \notin pending_waits[k].pids
           /\ pending_waits' = pending_waits
           /\ status' = [status EXCEPT ![c] = "zombie"]
           /\ happened_waits' = Append(happened_waits, c)
  <2>1. /\ Len(happened_waits') = Len(happened_waits) + 1 /\ Len(happened_waits) \in Nat
        /\ happened_waits'[Len(happened_waits) + 1] = c
        /\ \A k \in 1 .. Len(happened_waits) : happened_waits'[k] = happened_waits[k]
    BY <1>1, <1>9 DEF TypeOK
  <2>2. ASSUME NEW k \in 1 .. Len(happened_waits')
        PROVE  k \in 1 .. Len(happened_waits) \/ k = Len(happened_waits) + 1
    BY <2>1, <2>2
  <2>3. \A d : Happened(d)' <=> Happened(d) \/ d = c
    BY <2>1, <2>2 DEF Happened
  <2>4. Family'
    BY <1>7, <1>9 DEF ExitInv, Family
  <2>5. Events'
    <3>1. \A k \in 1 .. Len(happened_waits) :
            status'[happened_waits[k]] = "zombie" /\ happened_waits[k] # c
      BY <1>0, <1>4, <1>5, AtStep DEF ExitInv, Events, Happened
    <3>2. \A k \in 1 .. Len(happened_waits') : status'[happened_waits'[k]] = "zombie"
      BY <1>3, <2>1, <2>2, <3>1
    <3>3. \A j, k \in 1 .. Len(happened_waits') : happened_waits'[j] = happened_waits'[k] => j = k
      BY <2>1, <2>2, <3>1 DEF ExitInv, Events
    <3> QED
      BY <3>2, <3>3 DEF Events
  <2>6. Returned'
    BY <1>6, <2>3
  <2>7. ASSUME NEW k \in 1 .. Len(pending_waits)
        PROVE  RequestOK(pending_waits[k])'
    <3>1. PICK w : w = pending_waits[k]
      OBVIOUS
    <3>2. RequestOK(w) /\ w.pid \in Pids /\ w.pids \subseteq Pids /\ w.pid # c /\ c \notin w.pids
      BY <1>0, <1>5, <1>9, <3>1, AtStep, RequestsAll DEF ExitInv, OwnWaits
    <3>3. status'[w.pid] = status[w.pid]
      BY <1>1, <1>9, <3>2 DEF TypeOK
    <3>4. RequestOK(w)'
      BY <1>8, <2>3, <3>2, <3>3
    <3> QED
      BY <1>9, <3>1, <3>4
  <2>8. Requests'
    BY <1>9, <2>7 DEF Requests, RequestOK
  <2>9. ASSUME NEW d \in Pids
        PROVE  RecordedOK(d)'
    <3>1. RecordedOK(d) /\ (status[d] = "zombie" => parent_pid[d] \in Pids)
      BY <1>0, AtStep, RecordedAll DEF ExitInv
    <3> QED
      BY <1>0, <1>4, <1>9, <2>3, <3>1 DEF RecordedOK
  <2>10. Recorded'
    BY <2>9 DEF Recorded, RecordedOK, OwnWaits
  <2> QED
    BY <2>4, <2>5, <2>6, <2>8, <2>10 DEF ExitInv
<1>10. ASSUME NEW a \in 1 .. Len(pending_waits),
              c \in pending_waits[a].pids, pending_waits[a].pid \in Pids,
              Len(pending_waits') = Len(pending_waits),
              pending_waits'[a] = [pid |-> pending_waits[a].pid, pids |-> {c}],
              \A k \in 1 .. Len(pending_waits) : k # a => pending_waits'[k] = pending_waits[k],
              status' = WakeUp([status EXCEPT ![c] = "zombie"], pending_waits[a].pid),
              happened_waits' = happened_waits
       PROVE  ExitInv'
  <2>1. PICK q \in Pids : q = pending_waits[a].pid
    BY <1>10
  <2>2. q # c /\ status[q] = "sleeping" /\ pc[q] \in After /\ parent_pid[c] = q
    BY <1>0, <1>10, <2>1, AskingSleeps, AtStep
  <2>3. /\ status'[q] = "runnable"
        /\ \A r \in Pids : r # q /\ r # c => status'[r] = status[r]
    BY <1>1, <1>10, <2>1, <2>2 DEF WakeUp, TypeOK
  <2>4. \A d : Happened(d)' <=> Happened(d)
    BY <1>10, HappenedSame
  <2>5. \A k \in 1 .. Len(pending_waits) : pending_waits[k].pid = q => k = a
    BY <1>1, <2>1 DEF WaitInv, WaitsOwned
  <2>6. pending_waits'[a].pid = q /\ pending_waits'[a].pids = {c}
    BY <1>10, <2>1
  <2>7. \A k \in 1 .. Len(pending_waits) : k # a => c \notin pending_waits[k].pids
    BY <1>0, <2>2, <2>5, AtStep
  <2>8. Family'
    <3>1. \A k \in 1 .. Len(pending_waits) :
            pending_waits[k].pids \subseteq child_pids[pending_waits[k].pid]
      BY DEF ExitInv, Family
    <3>2. \A k \in 1 .. Len(pending_waits') :
            pending_waits'[k].pids \subseteq child_pids[pending_waits'[k].pid]
      BY <1>10, <2>1, <2>6, <3>1
    <3> QED
      BY <1>7, <3>2
  <2>9. Events'
    <3>1. \A k \in 1 .. Len(happened_waits) : status'[happened_waits[k]] = "zombie"
      BY <1>0, <1>4, AtStep DEF ExitInv, Events
    <3> QED
      BY <1>10, <3>1 DEF ExitInv, Events
  <2>10. Returned'
    BY <1>6, <2>4
  <2>11. ASSUME NEW k \in 1 .. Len(pending_waits')
         PROVE  RequestOK(pending_waits[k])'
    <3>1. PICK w : w = pending_waits'[k]
      OBVIOUS
    <3>2. CASE k = a
      <4>1. w.pid = q /\ w.pids = {c}
        BY <2>6, <3>1, <3>2
      <4>2. RequestOK(w)'
        BY <1>2, <1>3, <1>5, <2>2, <2>3, <2>4, <4>1 DEF RequestOK, After
      <4> QED
        BY <3>1, <4>2
    <3>3. CASE k # a
      <4>1. w = pending_waits[k] /\ k \in 1 .. Len(pending_waits)
        BY <1>10, <3>1, <3>3
      <4>2. RequestOK(w) /\ w.pid \in Pids /\ w.pids \subseteq Pids /\ w.pid # c /\ c \notin w.pids
        BY <1>0, <1>5, <2>7, <3>3, <4>1, AtStep, RequestsAll DEF ExitInv, OwnWaits
      <4>3. status'[w.pid] = status[w.pid]
        BY <2>3, <2>5, <3>3, <4>1, <4>2
      <4>4. RequestOK(w)'
        BY <1>8, <2>4, <4>2, <4>3
      <4> QED
        BY <3>1, <4>4
    <3> QED
      BY <3>2, <3>3
  <2>12. Requests'
    BY <2>11 DEF Requests, RequestOK
  <2>13. ASSUME NEW d \in Pids
         PROVE  RecordedOK(d)'
    <3>1. RecordedOK(d) /\ (status[d] = "zombie" => parent_pid[d] \in Pids)
      BY <1>0, AtStep, RecordedAll DEF ExitInv
    <3>2. CASE d = c
      BY <1>0, <1>2, <1>10, <2>2, <2>6, <3>2 DEF RecordedOK, After
    <3>3. CASE d # c
      <4> SUFFICES ASSUME status'[d] = "zombie", status'[parent_pid[d]] \notin {"zombie", "absent"}
                   PROVE  RecordedOK(d)'
        BY <1>0 DEF RecordedOK
      <4>1. status[d] = "zombie" /\ parent_pid[d] \in Pids
        BY <1>4, <3>1, <3>3
      <4>2. status[parent_pid[d]] \notin {"zombie", "absent"}
        BY <1>4, <4>1
      <4>3. ASSUME NEW k \in 1 .. Len(pending_waits), pending_waits[k].pids = {d}
            PROVE  pending_waits'[k] = pending_waits[k]
        BY <1>10, <3>3, <4>3
      <4> QED
        <5>1. CASE Happened(d)
          BY <2>4, <5>1 DEF RecordedOK
        <5>2. CASE ret[parent_pid[d]] = d
          BY <1>0, <5>2 DEF RecordedOK
        <5>3. CASE \E k \in 1 .. Len(pending_waits) :
                     /\ pending_waits[k].pid = parent_pid[d] /\ pending_waits[k].pids = {d}
                     /\ pc[parent_pid[d]] # "scan"
          <6>1. PICK k \in 1 .. Len(pending_waits) :
                  /\ pending_waits[k].pid = parent_pid[d] /\ pending_waits[k].pids = {d}
                  /\ pc[parent_pid[d]] # "scan"
            BY <5>3
          <6>2. pending_waits'[k] = pending_waits[k] /\ k \in 1 .. Len(pending_waits')
            BY <1>10, <4>3, <6>1
          <6>3. parent_pid'[d] = parent_pid[d] /\ pc'[parent_pid[d]] # "scan"
            BY <1>0, <1>4, <4>1, <6>1
          <6>4. \E m \in 1 .. Len(pending_waits') :
                  /\ pending_waits'[m].pid = parent_pid'[d] /\ pending_waits'[m].pids = {d}
                  /\ pc'[parent_pid'[d]] # "scan"
            BY ONLY <6>1, <6>2, <6>3, Zenon
          <6> QED
            BY ONLY <6>4, Zenon DEF RecordedOK
        <5> QED
          BY <3>1, <4>1, <4>2, <5>1, <5>2, <5>3 DEF RecordedOK
    <3> QED
      BY <3>2, <3>3
  <2>14. Recorded'
    BY <2>13 DEF Recorded, RecordedOK, OwnWaits
  <2> QED
    BY <2>8, <2>9, <2>10, <2>12, <2>14 DEF ExitInv
<1> QED
  BY <1>1, <1>9, <1>10, NotifyWaitFacts

LEMMA ExitStep ==
    ASSUME ExitInv, [Next]_vars, "wait" \notin Windows, ReusePids = FALSE
    PROVE  ExitInv'
<1>1. WaitInv /\ WaitInv' /\ BaseInv'
  BY WaitStep DEF ExitInv, WaitInv
<1>2. ASSUME NEW p \in Pids, Step(p) PROVE ExitInv'
  BY <1>1, <1>2, QuietSteps, ExitQuietKeeps, ExitSleep, ExitWaitCall, ExitScan, ExitWoken,
     ExitReap, ExitFork, ExitExit DEF Step
<1>3. CASE Tick \/ Key \/ Handler
  BY <1>1, <1>3, QuietInterrupts, ExitQuietKeeps
<1>4. CASE UNCHANGED vars
  <2>1. Family' /\ Events' /\ Returned'
    BY <1>4 DEF vars, ExitInv, Family, Events, Returned, Happened
  <2>2. Requests'
    BY <1>4 DEF vars, ExitInv, Requests, Happened
  <2>3. Recorded'
    BY <1>4 DEF vars, ExitInv, Recorded, Happened, OwnWaits
  <2> QED
    BY <1>1, <2>1, <2>2, <2>3 DEF ExitInv
<1> QED
  BY <1>2, <1>3, <1>4 DEF Next

LEMMA ExitInit == Init => ExitInv
<1> SUFFICES ASSUME Init PROVE ExitInv
  OBVIOUS
<1>1. Family /\ Events
  BY PidsFacts DEF Init, Family, Events
<1>2. Returned /\ Requests /\ Recorded
  BY PidsFacts DEF Init, Returned, Requests, Recorded
<1> QED
  BY <1>1, <1>2, WaitInit DEF ExitInv

\* No exit slips between the scan of happened_waits and the sleep: nobody
\* sleeps in waitpid for a child that has ended.  The theorem is about the
\* code without interrupts between the call and the sleep, and while every
\* PID is given out once; for every number of processes and of requests.
THEOREM NoExitLost ==
    ASSUME "wait" \notin Windows, ReusePids = FALSE
    PROVE  Spec => []NoLostExit
<1>1. ExitInv /\ [Next]_vars => ExitInv'
  BY ExitStep
<1>2. ExitInv => NoLostExit
  BY DEF ExitInv, Requests, NoLostExit, Asleep, OwnWaits
<1> QED
  BY <1>1, <1>2, ExitInit, PTL DEF Spec

\* The event, the request and the return value exclude one another, and each
\* is there once: the exit of a child is kept in exactly one place from the
\* moment it ends until wait erases it.
THEOREM ExitOnce ==
    ASSUME "wait" \notin Windows, ReusePids = FALSE
    PROVE  Spec => []ExitRecordedOnce
<1>1. ExitInv /\ [Next]_vars => ExitInv'
  BY ExitStep
<1>2. ASSUME ExitInv, NEW c \in Pids, NEW p, p = parent_pid[c],
             status[c] = "zombie", status[p] # "zombie", status[p] # "absent"
      PROVE  Cardinality({<<"event", k>> : k \in
                           {j \in 1 .. Len(happened_waits) : happened_waits[j] = c}}
                  \cup {<<"request", k>> : k \in
                           {j \in 1 .. Len(pending_waits) :
                                /\ pc[p] # "scan"
                                /\ pending_waits[j] = [pid |-> p, pids |-> {c}]}}
                  \cup {<<"return", k>> : k \in {j \in {p} : ret[p] = c}}) = 1
  <2> DEFINE E == {j \in 1 .. Len(happened_waits) : happened_waits[j] = c}
             R == {j \in 1 .. Len(pending_waits) :
                     /\ pc[p] # "scan"
                     /\ pending_waits[j] = [pid |-> p, pids |-> {c}]}
             V == {j \in {p} : ret[p] = c}
  <2>0. BaseInv /\ TypeOK /\ WaitInv
    BY <1>2 DEF ExitInv, WaitInv, BaseInv
  <2>1. p \in Pids
    BY <1>2, <2>0, PidsFacts DEF ExitInv, Family, TypeOK
  <2>2. \A j, k \in E : j = k
    BY <1>2 DEF ExitInv, Events
  <2>3. \A j, k \in R : j = k
    BY <2>0 DEF WaitInv, WaitsOwned
  <2>4. \A j \in R : pc[p] # "reap" /\ ~Happened(c)
    <3> SUFFICES ASSUME NEW j \in R PROVE pc[p] # "reap" /\ ~Happened(c)
      OBVIOUS
    <3>1. j \in OwnWaits(p) /\ pending_waits[j].pids = {c}
      BY DEF OwnWaits
    <3>2. pc[p] \in Waiting
      BY <2>0, <2>1, <3>1 DEF WaitInv, WaitsOwned
    <3> QED
      BY <1>2, <3>1, <3>2 DEF ExitInv, Requests, Waiting, OwnWaits
  <2>5. V # {} => pc[p] = "reap" /\ ~Happened(c)
    BY <1>2, <2>1, PidsFacts DEF ExitInv, Returned
  <2>6. E # {} => Happened(c)
    BY DEF Happened
  <2>7. E # {} \/ R # {} \/ V # {}
    <3>1. \/ Happened(c) \/ ret[p] = c
          \/ \E k \in OwnWaits(p) : pending_waits[k].pids = {c} /\ pc[p] # "scan"
      BY <1>2 DEF ExitInv, Recorded
    <3>2. ASSUME NEW k \in OwnWaits(p), pending_waits[k].pids = {c}, pc[p] # "scan"
          PROVE  k \in R
      <4>1. pending_waits[k] \in WaitRequest /\ k \in 1 .. Len(pending_waits) /\ pending_waits[k].pid = p
        BY <2>0, <3>2 DEF OwnWaits, TypeOK
      <4>2. pending_waits[k] = [pid |-> p, pids |-> {c}]
        BY <3>2, <4>1 DEF WaitRequest
      <4> QED
        BY <3>2, <4>1, <4>2
    <3> QED
      BY <3>1, <3>2 DEF Happened
  <2> HIDE DEF E, R, V
  <2>8. \E x : {<<"event", k>> : k \in E} \cup {<<"request", k>> : k \in R}
                \cup {<<"return", k>> : k \in V} = {x}
    <3>1. CASE E # {}
      <4>1. PICK e \in E : TRUE
        BY <3>1
      <4>2. E = {e} /\ R = {} /\ V = {}
        BY <2>2, <2>4, <2>5, <2>6, <4>1
      <4> QED
        BY <4>2
    <3>2. CASE R # {}
      <4>1. PICK e \in R : TRUE
        BY <3>2
      <4>2. R = {e} /\ E = {} /\ V = {}
        BY <2>3, <2>4, <2>5, <2>6, <4>1
      <4> QED
        BY <4>2
    <3>3. CASE V # {}
      <4>1. V = {p}
        BY <3>3 DEF V
      <4>2. E = {} /\ R = {}
        BY <2>4, <2>5, <2>6, <3>3
      <4> QED
        BY <4>1, <4>2
    <3> QED
      BY <2>7, <3>1, <3>2, <3>3
  <2>9. Cardinality({<<"event", k>> : k \in E} \cup {<<"request", k>> : k \in R}
                    \cup {<<"return", k>> : k \in V}) = 1
    BY <2>8, FS_Singleton
  <2> QED
    BY <2>9 DEF E, R, V
<1>3. ExitInv => ExitRecordedOnce
  BY <1>2 DEF ExitRecordedOnce
<1> QED
  BY <1>1, <1>3, ExitInit, PTL DEF Spec
=============================================================================
