------------------------------- MODULE PidPool -------------------------------
(***************************************************************************)
(* What the process table promises to fork and wait: a pool of PIDs.       *)
(* A request is answered with a PID nobody has, or refused if there is     *)
(* none; one way or the other it is answered.  ProcTable implements it.    *)
(***************************************************************************)
EXTENDS Integers

CONSTANTS
    PoolPids,  \* the PIDs there are
    First,     \* the PID of init, which is never given back
    Refused    \* the answer if all are taken

VARIABLES
    taken,     \* the PIDs in use
    want,      \* processes that have asked for one
    answer     \* what each was answered, 0 before and after
poolVars == <<taken, want, answer>>

PoolInit ==
    /\ taken = {First} /\ want = {}
    /\ answer = [p \in PoolPids |-> 0]

Ask(p) ==
    /\ p \notin want /\ answer[p] = 0
    /\ want' = want \cup {p}
    /\ UNCHANGED <<taken, answer>>

Answered(p, a) == want' = want \ {p} /\ answer' = [answer EXCEPT ![p] = a]
Grant(p, q) == p \in want /\ q \notin taken /\ taken' = taken \cup {q} /\ Answered(p, q)
Refuse(p) == p \in want /\ taken = PoolPids /\ UNCHANGED taken /\ Answered(p, Refused)

Accept(p) ==
    /\ answer[p] # 0
    /\ answer' = [answer EXCEPT ![p] = 0]
    /\ UNCHANGED <<taken, want>>

Release(q) ==
    /\ q \in taken \ {First}
    /\ taken' = taken \ {q}
    /\ UNCHANGED <<want, answer>>

Reply(p) == Refuse(p) \/ \E q \in PoolPids : Grant(p, q)
PoolNext == \E p \in PoolPids : Ask(p) \/ Reply(p) \/ Accept(p) \/ Release(p)

PoolSafe == PoolInit /\ [][PoolNext]_poolVars
PoolSpec == PoolSafe /\ \A p \in PoolPids : WF_poolVars(Reply(p))
=============================================================================
