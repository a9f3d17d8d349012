--------------------------- MODULE ProcTableProofs ---------------------------
(***************************************************************************)
(* ProcTable::insert searches the whole table before it gives up, and      *)
(* takes only a free PID, for every max_pid, as long as it is not          *)
(* preempted.                                                              *)
(*                                                                         *)
(* The invariant says what the loop has seen so far: every PID cyclically  *)
(* after start and before last_pid is in use.                              *)
(***************************************************************************)
EXTENDS ProcTable, TLAPS

\* The PIDs cyclically after s and before l; with l = s, all but s.
Between(s, l) == {q \in Pids : IF s < l THEN s < q /\ q < l ELSE q > s \/ q < l}

\* Stepping to the next PID adds the one just left to the ones seen.
LEMMA BetweenGrows ==
    ASSUME NEW s \in Pids, NEW l \in Pids, l # s
    PROVE  Between(s, StepPid(l)) \subseteq Between(s, l) \cup {l}
BY MaxPidAssumption DEF Between, StepPid, Pids

\* At the beginning of the search nothing has been seen.
LEMMA BetweenStarts ==
    ASSUME NEW s \in Pids
    PROVE  Between(s, StepPid(s)) = {}
BY MaxPidAssumption DEF Between, StepPid, Pids

\* Back at the start, everything else has been seen.
LEMMA BetweenAll ==
    ASSUME NEW s \in Pids
    PROVE  Between(s, s) = Pids \ {s}
BY MaxPidAssumption DEF Between, Pids

LEMMA StepPidType ==
    ASSUME NEW l \in Pids
    PROVE  StepPid(l) \in Pids
BY MaxPidAssumption DEF StepPid, Pids

-----------------------------------------------------------------------------
\* Only the running process is in a system call.
Exclusive == \A p \in Pids : pc[p] # "user" => p = running

\* What the search of p has seen is in use; what it has found is free.
Searched == \A p \in Pids :
    /\ pc[p] = "loop" => \A q \in Between(start[p], last_pid) : Used(q)
    /\ pc[p] = "store" => ~Used(last_pid)
    /\ pc[p] = "child" => ret[p] \in Pids \cup {Failed}
    /\ pc[p] = "remove" => ret[p] \in Pids

Inv == TypeOK /\ Exclusive /\ Searched

LEMMA InitInv == Init => Inv
BY MaxPidAssumption
   DEF Init, Inv, TypeOK, Exclusive, Searched, Pids, init_pid

\* The invariant is inductive.
LEMMA StepInv ==
    ASSUME Inv, [Next]_vars, Preempt = FALSE
    PROVE  Inv'
<1> USE DEF Inv
<1>1. ASSUME NEW p \in Pids, InsertBegin(p)
      PROVE  Inv'
  <2>1. StepPid(last_pid) \in Pids /\ Between(last_pid, StepPid(last_pid)) = {}
    BY StepPidType, BetweenStarts DEF TypeOK
  <2>2. TypeOK'
    BY <1>1, <2>1 DEF InsertBegin, At, Goto, TypeOK
  <2>3. Exclusive'
    BY <1>1 DEF InsertBegin, At, Goto, TypeOK, Exclusive
  <2>4. Searched'
    BY <1>1, <2>1 DEF InsertBegin, At, Goto, TypeOK, Exclusive, Searched
  <2> QED BY <2>2, <2>3, <2>4
<1>2. ASSUME NEW p \in Pids, InsertLoop(p)
      PROVE  Inv'
  <2>1. StepPid(last_pid) \in Pids
    BY StepPidType DEF TypeOK
  <2>2. TypeOK'
    BY <1>2, <2>1 DEF InsertLoop, At, Goto, TypeOK
  <2>3. Exclusive'
    BY <1>2 DEF InsertLoop, At, Goto, TypeOK, Exclusive
  <2>4. CASE ~Used(last_pid)
    BY <1>2, <2>2, <2>3, <2>4
       DEF InsertLoop, At, Goto, TypeOK, Exclusive, Searched, Used
  <2>5. CASE Used(last_pid) /\ last_pid = start[p]
    BY <1>2, <2>2, <2>3, <2>5
       DEF InsertLoop, At, Goto, TypeOK, Exclusive, Searched, Used
  <2>6. CASE Used(last_pid) /\ last_pid # start[p]
    <3>1. Between(start[p], StepPid(last_pid)) \subseteq
            Between(start[p], last_pid) \cup {last_pid}
      BY <2>6, BetweenGrows DEF TypeOK
    <3>2. \A q \in Between(start[p], StepPid(last_pid)) : Used(q)
      BY <1>2, <2>6, <3>1 DEF InsertLoop, At, Searched
    <3>3. UNCHANGED <<tab, pc, start, ret>> /\ last_pid' = StepPid(last_pid)
      BY <1>2, <2>6 DEF InsertLoop, At
    <3>4. \A q \in Pids : pc[q] # "user" => q = p
      BY <1>2 DEF InsertLoop, At, Exclusive
    <3>5. Searched'
      BY <1>2, <3>2, <3>3, <3>4 DEF InsertLoop, At, Searched, Used
    <3> QED BY <2>2, <2>3, <3>5
  <2> QED BY <2>4, <2>5, <2>6
<1>3. ASSUME NEW p \in Pids, InsertStore(p)
      PROVE  Inv'
  <2>1. \A q \in Pids : pc'[q] = "child" => ret'[q] \in Pids
    BY <1>3 DEF InsertStore, At, TypeOK, Exclusive
  <2>2. TypeOK'
    BY <1>3 DEF InsertStore, At, TypeOK
  <2>3. Exclusive'
    BY <1>3 DEF InsertStore, At, TypeOK, Exclusive
  <2>4. \A q \in Pids : pc'[q] \notin {"loop", "store", "remove"}
    BY <1>3 DEF InsertStore, At, TypeOK, Exclusive
  <2>5. Searched'
    BY <2>1, <2>4 DEF Searched
  <2> QED BY <2>2, <2>3, <2>5
<1>4. ASSUME NEW p \in Pids, AddChild(p)
      PROVE  Inv'
  <2>1. TypeOK'
    BY <1>4 DEF AddChild, At, Goto, TypeOK, Exclusive, Searched
  <2>2. Exclusive'
    BY <1>4 DEF AddChild, At, Goto, TypeOK, Exclusive
  <2>3. Searched'
    BY <1>4 DEF AddChild, At, Goto, TypeOK, Exclusive, Searched, Used
  <2> QED BY <2>1, <2>2, <2>3
<1>5. ASSUME NEW p \in Pids, NEW q \in Pids, EraseDelete(p, q)
      PROVE  Inv'
  <2>1. TypeOK'
    BY <1>5 DEF EraseDelete, At, Goto, TypeOK, Exclusive, Searched
  <2>2. Exclusive'
    BY <1>5 DEF EraseDelete, At, Goto, TypeOK, Exclusive
  <2>3. Searched'
    BY <1>5 DEF EraseDelete, At, Goto, TypeOK, Exclusive, Searched, Used
  <2> QED BY <2>1, <2>2, <2>3
<1>6. ASSUME NEW p \in Pids, EraseRemove(p)
      PROVE  Inv'
  <2>1. TypeOK'
    BY <1>6 DEF EraseRemove, At, Goto, TypeOK, Exclusive, Searched
  <2>2. Exclusive'
    BY <1>6 DEF EraseRemove, At, Goto, TypeOK, Exclusive
  <2>3. Searched'
    BY <1>6 DEF EraseRemove, At, Goto, TypeOK, Exclusive, Searched, Used
  <2> QED BY <2>1, <2>2, <2>3
<1>7. ASSUME NEW q \in Pids, Switch(q)
      PROVE  Inv'
  BY <1>7 DEF Switch, TypeOK, Exclusive, Searched, Used
<1>8. CASE UNCHANGED vars
  BY <1>8 DEF vars, TypeOK, Exclusive, Searched, Used
<1> QED BY <1>1, <1>2, <1>3, <1>4, <1>5, <1>6, <1>7, <1>8 DEF Next

\* ProcTable::insert reports failure only when every PID is in use, if it is
\* not preempted.
THEOREM FailsWhenFull ==
    ASSUME Preempt = FALSE
    PROVE  Spec => FailsOnlyWhenFull
<1>1. Init => Inv
  BY InitInv
<1>2. Inv /\ [Next]_vars => Inv'
  BY StepInv
<1>3. Inv /\ Next => \A p \in Pids :
        (pc[p] = "loop" /\ pc'[p] = "child") => \A q \in Pids : Used(q)
  <2> SUFFICES ASSUME Inv, Next, NEW p \in Pids, pc[p] = "loop", pc'[p] = "child"
               PROVE  \A q \in Pids : Used(q)
    OBVIOUS
  <2>1. p = running
    BY DEF Inv, Exclusive
  <2>2. InsertLoop(p)
    BY <2>1 DEF Next, InsertBegin, InsertLoop, InsertStore, AddChild,
                EraseDelete, EraseRemove, Switch, At, Goto, Inv, TypeOK
  <2>3. Used(last_pid) /\ last_pid = start[p]
    BY <2>2 DEF InsertLoop, At, Goto, Inv, TypeOK
  <2>4. \A q \in Between(last_pid, last_pid) : Used(q)
    BY <2>3 DEF Inv, Searched
  <2>5. Between(last_pid, last_pid) = Pids \ {last_pid}
    BY BetweenAll DEF Inv, TypeOK
  <2> QED BY <2>3, <2>4, <2>5
<1>4. Inv /\ [Next]_vars => [\A p \in Pids :
        (pc[p] = "loop" /\ pc'[p] = "child") => \A q \in Pids : Used(q)]_vars
  BY <1>3
<1> QED BY <1>1, <1>2, <1>4, PTL DEF Spec, FailsOnlyWhenFull

\* ProcTable::insert enters no process over another, if it is not preempted.
THEOREM InsertsAtFreePid ==
    ASSUME Preempt = FALSE
    PROVE  Spec => NoOverwrite
<1>1. Init => Inv
  BY InitInv
<1>2. Inv /\ [Next]_vars => Inv'
  BY StepInv
<1>3. Inv /\ [Next]_vars => [\A p \in Pids :
        (pc[p] = "store" /\ pc'[p] = "child") => tab[last_pid] = "free"]_vars
  BY DEF Inv, Searched, Used
<1> QED BY <1>1, <1>2, <1>3, PTL DEF Spec, NoOverwrite

-----------------------------------------------------------------------------
(* The table implements the pool.                                          *)
\* The running process has an entry, and so has init, which is never removed.
RunningLive ==
    /\ tab[running] = "live"
    /\ tab[init_pid] # "free"
    /\ \A p \in Pids : pc[p] = "remove" => ret[p] # init_pid /\ tab[ret[p]] = "freed"

LEMMA InitPidIsPid == init_pid \in Pids
BY MaxPidAssumption DEF init_pid, Pids

LEMMA InitLive == Init => RunningLive
BY InitPidIsPid DEF Init, RunningLive

\* RunningLive is inductive relative to Inv.
LEMMA StepLive ==
    ASSUME Inv, RunningLive, [Next]_vars, Preempt = FALSE
    PROVE  RunningLive'
<1> USE InitPidIsPid DEF Inv, RunningLive
<1>1. ASSUME NEW p \in Pids, InsertBegin(p) \/ InsertLoop(p) \/ AddChild(p)
      PROVE  RunningLive'
  BY <1>1 DEF InsertBegin, InsertLoop, AddChild, At, Goto, TypeOK, Exclusive
<1>2. ASSUME NEW p \in Pids, InsertStore(p)
      PROVE  RunningLive'
  BY <1>2 DEF InsertStore, At, TypeOK, Exclusive
<1>3. ASSUME NEW p \in Pids, NEW q \in Pids, EraseDelete(p, q)
      PROVE  RunningLive'
  BY <1>3 DEF EraseDelete, At, Goto, TypeOK, Exclusive
<1>4. ASSUME NEW p \in Pids, EraseRemove(p)
      PROVE  RunningLive'
  <2>1. ret[p] \in Pids \ {init_pid}
    BY <1>4 DEF EraseRemove, At, Searched
  <2>2. \A q \in Pids : pc'[q] # "remove"
    BY <1>4 DEF EraseRemove, At, Goto, TypeOK, Exclusive
  <2>3. tab'[init_pid] # "free"
    BY <1>4, <2>1 DEF EraseRemove, TypeOK
  <2>4. tab'[running'] = "live"
    BY <1>4, <2>1 DEF EraseRemove, TypeOK, At, Searched
  <2> QED BY <2>2, <2>3, <2>4
<1>5. ASSUME NEW q \in Pids, Switch(q)
      PROVE  RunningLive'
  BY <1>5 DEF Switch, TypeOK
<1>6. CASE UNCHANGED vars
  BY <1>6 DEF vars
<1> QED BY <1>1, <1>2, <1>3, <1>4, <1>5, <1>6 DEF Next

\* The pool as the table shows it.
Taken == {q \in Pids : Used(q)}
Want == {p \in Pids : pc[p] \in {"loop", "store"}}
Answer == [p \in Pids |-> IF pc[p] = "child" THEN ret[p] ELSE 0]

\* Every step of the table is a step of the pool or none.
LEMMA StepPool ==
    ASSUME Inv, RunningLive, Next
    PROVE  Pool!PoolNext \/ UNCHANGED <<Taken, Want, Answer>>
<1> USE DEF Inv, Taken, Want, Answer, Used
<1>1. ASSUME NEW p \in Pids, InsertBegin(p)
      PROVE  Pool!Ask(p)
  BY <1>1 DEF InsertBegin, At, Goto, TypeOK, Pool!Ask
<1>2. ASSUME NEW p \in Pids, InsertLoop(p)
      PROVE  Pool!Refuse(p) \/ UNCHANGED <<Taken, Want, Answer>>
  <2>1. CASE ~Used(last_pid)
    BY <1>2, <2>1 DEF InsertLoop, At, Goto, TypeOK
  <2>2. CASE Used(last_pid) /\ last_pid # start[p]
    BY <1>2, <2>2 DEF InsertLoop, At, Goto, TypeOK
  <2>3. CASE Used(last_pid) /\ last_pid = start[p]
    <3>1. \A q \in Between(last_pid, last_pid) : Used(q)
      BY <1>2, <2>3 DEF InsertLoop, At, Searched
    <3>2. Taken = Pids
      BY <2>3, <3>1, BetweenAll DEF TypeOK
    <3>3. UNCHANGED tab /\ pc[p] = "loop" /\ p \in DOMAIN pc /\ p \in DOMAIN ret
          /\ pc' = [pc EXCEPT ![p] = "child"] /\ ret' = [ret EXCEPT ![p] = Failed]
      BY <1>2, <2>3 DEF InsertLoop, At, Goto, TypeOK
    <3>4. Want' = Want \ {p}
      BY <3>3 DEF TypeOK
    <3>5. Answer' = [Answer EXCEPT ![p] = Failed]
      BY <3>3 DEF TypeOK
    <3> QED BY <3>2, <3>3, <3>4, <3>5 DEF Pool!Refuse, Pool!Answered
  <2> QED BY <2>1, <2>2, <2>3
<1>3. ASSUME NEW p \in Pids, InsertStore(p)
      PROVE  Pool!Grant(p, last_pid)
  <2>1. p = running /\ last_pid \in Pids /\ tab[last_pid] = "free" /\ last_pid # p
    BY <1>3 DEF InsertStore, At, Searched, TypeOK, RunningLive
  <2>2. pc[last_pid] = "user"
    BY <2>1 DEF Exclusive
  <2>3. Taken' = Taken \cup {last_pid}
    BY <1>3, <2>1 DEF InsertStore, TypeOK
  <2>4. pc' = [pc EXCEPT ![p] = "child"] /\ ret' = [ret EXCEPT ![p] = last_pid] /\ pc[p] = "store"
    BY <1>3, <2>1, <2>2 DEF InsertStore, At, TypeOK
  <2>5. Want' = Want \ {p}
    BY <2>4 DEF TypeOK
  <2>6. Answer' = [Answer EXCEPT ![p] = last_pid]
    BY <2>4 DEF TypeOK
  <2> QED BY <2>1, <2>3, <2>4, <2>5, <2>6 DEF Pool!Grant, Pool!Answered
<1>4. ASSUME NEW p \in Pids, AddChild(p)
      PROVE  Pool!Accept(p)
  <2>1. Answer[p] # 0
    BY <1>4, MaxPidAssumption DEF AddChild, At, Searched, Failed, Pids
  <2>2. Answer' = [Answer EXCEPT ![p] = 0]
    BY <1>4 DEF AddChild, At, Goto, TypeOK
  <2>3. UNCHANGED <<Taken, Want>>
    BY <1>4 DEF AddChild, At, Goto, TypeOK
  <2> QED BY <2>1, <2>2, <2>3 DEF Pool!Accept
<1>5. ASSUME NEW p \in Pids, NEW q \in Pids, EraseDelete(p, q)
      PROVE  UNCHANGED <<Taken, Want, Answer>>
  BY <1>5 DEF EraseDelete, At, Goto, TypeOK
<1>6. ASSUME NEW p \in Pids, EraseRemove(p)
      PROVE  Pool!Release(ret[p]) /\ ret[p] \in Pids
  <2>1. ret[p] \in Pids \ {init_pid} /\ tab[ret[p]] = "freed"
    BY <1>6 DEF EraseRemove, At, Searched, RunningLive
  <2>2. Taken' = Taken \ {ret[p]}
    BY <1>6, <2>1 DEF EraseRemove, TypeOK
  <2>3. UNCHANGED <<Want, Answer>>
    BY <1>6 DEF EraseRemove, At, Goto, TypeOK
  <2> QED BY <2>1, <2>2, <2>3 DEF Pool!Release
<1>7. ASSUME NEW q \in Pids, Switch(q)
      PROVE  UNCHANGED <<Taken, Want, Answer>>
  BY <1>7 DEF Switch
<1>8. last_pid \in Pids
  BY DEF TypeOK
<1> HIDE DEF Inv, Taken, Want, Answer, Used
<1>9. ASSUME NEW p \in Pids, Pool!Ask(p) \/ Pool!Reply(p) \/ Pool!Accept(p) \/ Pool!Release(p)
      PROVE  Pool!PoolNext
  BY <1>9 DEF Pool!PoolNext
<1>10. ASSUME NEW p \in Pids, Pool!Refuse(p) \/ Pool!Grant(p, last_pid)
       PROVE  Pool!Reply(p)
  BY <1>8, <1>10 DEF Pool!Reply
<1> QED BY <1>1, <1>2, <1>3, <1>4, <1>5, <1>6, <1>7, <1>9, <1>10 DEF Next

\* The process table is a pool of PIDs, as far as safety goes: ProcTable::insert
\* and erase give out only free PIDs and refuse only when there is none, if they
\* are not preempted.
THEOREM TableIsPool ==
    ASSUME Preempt = FALSE
    PROVE  Spec => Pool!PoolSafe
<1>1. Init => Inv /\ RunningLive /\ Pool!PoolInit
  <2>1. Init => Pool!PoolInit
    BY InitPidIsPid DEF Init, Pool!PoolInit, Used
  <2> QED BY <2>1, InitInv, InitLive
<1>2. Inv /\ RunningLive /\ [Next]_vars => (Inv /\ RunningLive)'
  BY StepInv, StepLive
<1>3. Inv /\ RunningLive /\ [Next]_vars => [Pool!PoolNext]_(Pool!poolVars)
  <2>1. CASE Next
    BY <2>1, StepPool DEF Pool!poolVars, Taken, Want, Answer
  <2>2. CASE UNCHANGED vars
    BY <2>2 DEF vars, Pool!poolVars, Used
  <2> QED BY <2>1, <2>2
<1> QED BY <1>1, <1>2, <1>3, PTL DEF Spec, Pool!PoolSafe
=============================================================================
