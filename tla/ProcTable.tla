------------------------------ MODULE ProcTable ------------------------------
(***************************************************************************)
(* The process table and the allocation of PIDs: ProcTable::insert for     *)
(* fork, set_process for execve, erase for wait.                           *)
(*                                                                         *)
(* insert searches with the member last_pid itself, step by step, and      *)
(* erase deletes the process before it removes the entry.  With Preempt a  *)
(* tick may let another process run between those steps, as it may in the  *)
(* kernel; without it ticks come only between system calls.                *)
(***************************************************************************)
EXTENDS Integers, FiniteSets

CONSTANTS
    max_pid,   \* PIDs are below max_pid (32768 in the kernel)
    Preempt    \* whether ticks are delivered inside insert and erase

ASSUME MaxPidAssumption == max_pid \in Nat /\ max_pid >= 2
ASSUME PreemptAssumption == Preempt \in BOOLEAN

init_pid == 1
Pids == 1 .. max_pid - 1
Failed == -1    \* what fork adds to child_pids when insert returns 0

VARIABLES
    tab,        \* the table: "free", "live" or "freed" (deleted, still there)
    last_pid,   \* ProcTable::last_pid
    running,    \* the process that has the CPU
    pc,         \* "user", "loop", "store", "child", "remove"
    start,      \* insert's start_pid
    ret,        \* what insert returns; the PID erase was given
    child_pids  \* Process::child_pids

vars == <<tab, last_pid, running, pc, start, ret, child_pids>>

Used(q) == tab[q] # "free"

Init ==
    /\ tab = [q \in Pids |-> IF q = init_pid THEN "live" ELSE "free"]
    /\ last_pid = init_pid
    /\ running = init_pid
    /\ pc = [q \in Pids |-> "user"]
    /\ start = [q \in Pids |-> init_pid]
    /\ ret = [q \in Pids |-> 0]
    /\ child_pids = [q \in Pids |-> {}]

At(p, where) == running = p /\ pc[p] = where
Goto(p, where) == pc' = [pc EXCEPT ![p] = where]

\* The next PID to try.
StepPid(l) == IF l = max_pid - 1 THEN 1 ELSE l + 1

\* insert begins: it remembers last_pid and steps past it.
InsertBegin(p) ==
    /\ At(p, "user")
    /\ start' = [start EXCEPT ![p] = last_pid]
    /\ last_pid' = StepPid(last_pid)
    /\ Goto(p, "loop")
    /\ UNCHANGED <<tab, running, ret, child_pids>>

\* Mutant: the test for having come round is missing.
InsertLoopEndless(p) ==
    /\ At(p, "loop")
    /\ \/ /\ ~Used(last_pid)
          /\ Goto(p, "store")
          /\ UNCHANGED last_pid
       \/ /\ Used(last_pid)
          /\ last_pid' = StepPid(last_pid)
          /\ UNCHANGED pc
    /\ UNCHANGED <<tab, running, start, ret, child_pids>>

\* Mutant: having come round ends the loop as a free PID does.
InsertLoopTakes(p) ==
    /\ At(p, "loop")
    /\ \/ /\ ~Used(last_pid) \/ last_pid = start[p]
          /\ Goto(p, "store")
          /\ UNCHANGED last_pid
       \/ /\ Used(last_pid)
          /\ last_pid # start[p]
          /\ last_pid' = StepPid(last_pid)
          /\ UNCHANGED pc
    /\ UNCHANGED <<tab, running, start, ret, child_pids>>

\* One turn of the loop: a free PID ends it, so does having come round to
\* the start, which is reported as 0 and by fork as -1.
InsertLoop(p) ==
    /\ At(p, "loop")
    /\ \/ /\ ~Used(last_pid)
          /\ Goto(p, "store")
          /\ UNCHANGED <<last_pid, ret>>
       \/ /\ Used(last_pid)
          /\ last_pid = start[p]
          /\ ret' = [ret EXCEPT ![p] = Failed]
          /\ Goto(p, "child")
          /\ UNCHANGED last_pid
       \/ /\ Used(last_pid)
          /\ last_pid # start[p]
          /\ last_pid' = StepPid(last_pid)
          /\ UNCHANGED <<pc, ret>>
    /\ UNCHANGED <<tab, running, start, child_pids>>

\* The process is entered under last_pid, and last_pid returned.  The child
\* starts with no children of its own.
InsertStore(p) ==
    /\ At(p, "store")
    /\ tab' = [tab EXCEPT ![last_pid] = "live"]
    /\ pc' = [pc EXCEPT ![last_pid] = "user", ![p] = "child"]
    /\ child_pids' = [child_pids EXCEPT ![last_pid] = {}]
    /\ ret' = [ret EXCEPT ![p] = last_pid]
    /\ UNCHANGED <<last_pid, running, start>>

\* fork adds what it returns to the children, -1 included.
AddChild(p) ==
    /\ At(p, "child")
    /\ child_pids' = [child_pids EXCEPT ![p] = @ \cup {ret[p]}]
    /\ ret' = [ret EXCEPT ![p] = 0]
    /\ Goto(p, "user")
    /\ UNCHANGED <<tab, last_pid, running, start>>

\* wait deletes a child that is a zombie; any process but init may be one
\* when it is not in a system call.
EraseDelete(p, q) ==
    /\ At(p, "user")
    /\ q \in Pids \ {p, init_pid}
    /\ tab[q] = "live" /\ pc[q] = "user"
    /\ q \in child_pids[p]
    /\ tab' = [tab EXCEPT ![q] = "freed"]
    /\ ret' = [ret EXCEPT ![p] = q]
    /\ Goto(p, "remove")
    /\ UNCHANGED <<last_pid, running, start, child_pids>>

\* Then it removes the entry.
EraseRemove(p) ==
    /\ At(p, "remove")
    /\ tab' = [tab EXCEPT ![ret[p]] = "free"]
    /\ ret' = [ret EXCEPT ![p] = 0]
    /\ Goto(p, "user")
    /\ UNCHANGED <<last_pid, running, start, child_pids>>

\* The scheduler walks the table and gives the CPU to another process.
Switch(q) ==
    /\ pc[running] = "user" \/ Preempt
    /\ q \in Pids \ {running}
    /\ tab[q] = "live"
    /\ running' = q
    /\ UNCHANGED <<tab, last_pid, pc, start, ret, child_pids>>

Next == \E p \in Pids :
            \/ InsertBegin(p) \/ InsertLoop(p) \/ InsertStore(p) \/ AddChild(p)
            \/ EraseRemove(p) \/ Switch(p)
            \/ \E q \in Pids : EraseDelete(p, q)

Spec == Init /\ [][Next]_vars
FairSpec == Spec /\ \A p \in Pids : WF_vars(InsertLoop(p) \/ InsertStore(p))

-----------------------------------------------------------------------------
\* Every variable has its type.
TypeOK ==
    /\ tab \in [Pids -> {"free", "live", "freed"}]
    /\ last_pid \in Pids
    /\ running \in Pids
    /\ pc \in [Pids -> {"user", "loop", "store", "child", "remove"}]
    /\ start \in [Pids -> Pids]
    /\ ret \in [Pids -> Pids \cup {0, Failed}]
    /\ child_pids \in [Pids -> SUBSET (Pids \cup {Failed})]

\* insert gives up only when every PID is in use, however often allocation
\* has wrapped round and wherever it starts (the pool below promises it too).
FailsOnlyWhenFull == [][\A p \in Pids :
    (pc[p] = "loop" /\ pc'[p] = "child") => \A q \in Pids : Used(q)]_vars

\* insert never enters a process over another: the PID it returns was free.
NoOverwrite == [][\A p \in Pids :
    (pc[p] = "store" /\ pc'[p] = "child") => tab[last_pid] = "free"]_vars

\* The table is a pool of PIDs: a fork takes a PID that no entry has, also none
\* that is being removed, it fails only when all are in use, and its search
\* ends, in a full table too.
Pool == INSTANCE PidPool WITH
    PoolPids <- Pids, First <- init_pid, Refused <- Failed,
    taken <- {q \in Pids : Used(q)},
    want <- {p \in Pids : pc[p] \in {"loop", "store"}},
    answer <- [p \in Pids |-> IF pc[p] = "child" THEN ret[p] ELSE 0]
ImplementsPool == Pool!PoolSpec
=============================================================================
