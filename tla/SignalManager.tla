---------------------------- MODULE SignalManager ----------------------------
(***************************************************************************)
(* The signal manager: processes that sleep in poll and in waitpid, and    *)
(* the interrupts, ticks and exits that wake them up.                      *)
(*                                                                         *)
(* Processes run one at a time; the module Tasking models how the CPU      *)
(* passes from one to another, here a switch is one step.  The keyboard    *)
(* interrupt runs on the stack of the process it finds running, and stays  *)
(* there if a tick takes the CPU away in the middle of its scan.           *)
(*                                                                         *)
(* The only device that notifies is the Tty, and the Tty is always ready   *)
(* for writing, so a poll here is one request for pollin on the Tty.       *)
(*                                                                         *)
(* PitHandler::handle calls tick_down before it looks at the flags, and    *)
(* tick_down ends by clearing switch_blocked_for_notify: the flag stops no *)
(* tick.  Windows lists the stretches of code in which this instance       *)
(* delivers interrupts although the code relies on there being none.       *)
(***************************************************************************)
EXTENDS Integers, Sequences, FiniteSets

CONSTANTS
    NPids,      \* the process table holds the PIDs 1 .. NPids; init is 1
    MaxLines,   \* bound on the lines waiting in the Tty buffer
    Timeouts,   \* the finite timeouts passed to poll, in ticks
    Windows,    \* the unprotected stretches in which interrupts are delivered
    ReusePids   \* whether PID allocation has wrapped round

AllWindows == {"check", "sleep", "notify", "wait"}

ASSUME NPidsAssumption == NPids \in Nat \ {0}
ASSUME LinesAssumption == MaxLines \in Nat
ASSUME TimeoutsAssumption == Timeouts \subseteq Nat \ {0}
ASSUME WindowsAssumption == Windows \subseteq AllWindows
ASSUME ReuseAssumption == ReusePids \in BOOLEAN

Pids == 1 .. NPids
InitPid == 1
None == 0
Infinite == -1
Status == {"absent", "active", "runnable", "sleeping", "zombie"}

\* Where a process is: in user code, in poll (check, add, count), in waitpid
\* (scan), in what the two have in common (sleep, yield, spin, woken), back
\* in the read or the wait system call, or gone for good.
Pcs == {"user", "check", "add", "count", "scan", "sleep", "yield", "spin",
        "woken", "read", "reap", "gone"}

VARIABLES
    status,         \* Process::stat, "absent" for a PID not in the table
    pc,             \* where each process is
    op,             \* the call it is in: "none", "poll", "wait", "exit"
    timeout,        \* poll's argument
    ret,            \* the PID waitpid returns
    current,        \* Scheduler::current_proc
    child_pids,     \* Process::child_pids
    parent_pid,     \* Process::parent_pid
    pending_polls,  \* poll_event: pid, whether revents is set, time_left
    pending_waits,  \* wait_request: pid, wait_pids
    happened_waits, \* wait_event: the pid
    notifying,      \* switch_blocked_for_notify
    lines,          \* newlines in the Tty buffer; newline_pos = -1 iff 0
    irq             \* the keyboard handler: whose stack it is on, its index

vars == <<status, pc, op, timeout, ret, current, child_pids, parent_pid,
          pending_polls, pending_waits, happened_waits, notifying, lines, irq>>

locals == <<timeout, ret>>
family == <<child_pids, parent_pid>>
lists == <<pending_polls, pending_waits, happened_waits>>
sched == <<status, current>>

Idle == [on |-> None, i |-> 0]

Init ==
    /\ status = [p \in Pids |-> IF p = InitPid THEN "active" ELSE "absent"]
    /\ pc = [p \in Pids |-> IF p = InitPid THEN "user" ELSE "gone"]
    /\ op = [p \in Pids |-> "none"]
    /\ timeout = [p \in Pids |-> Infinite]
    /\ ret = [p \in Pids |-> None]
    /\ current = InitPid
    /\ child_pids = [p \in Pids |-> {}]
    /\ parent_pid = [p \in Pids |-> None]
    /\ pending_polls = <<>>
    /\ pending_waits = <<>>
    /\ happened_waits = <<>>
    /\ notifying = FALSE
    /\ lines = 0
    /\ irq = Idle

-----------------------------------------------------------------------------
(* Scheduling.                                                             *)

Eligible(st) == {p \in Pids : st[p] \in {"runnable", "active"}}

\* How far round the table q comes after the current process, itself last.
Turn(q) == (q - current - 1) % NPids

Chosen(st) == CHOOSE q \in Eligible(st) :
                 \A r \in Eligible(st) : Turn(q) <= Turn(r)

\* next_proc, given what the statuses are by now.  If nobody can run it
\* loops where it is, with interrupts enabled.
NextProc(st) ==
    IF Eligible(st) = {}
    THEN status' = st /\ UNCHANGED current
    ELSE /\ status' = [st EXCEPT
                        ![current] = IF @ = "active" THEN "runnable" ELSE @,
                        ![Chosen(st)] = "active"]
         /\ current' = Chosen(st)

\* The process code runs: the CPU is not in the keyboard handler.
At(p, where) == p = current /\ irq.on # p /\ pc[p] = where

WakeUp(st, p) == IF st[p] = "sleeping" THEN [st EXCEPT ![p] = "runnable"] ELSE st

\* The stretches in which no interrupt is delivered.
Closed(p) ==
    \/ pc[p] = "add" /\ "check" \notin Windows
    \/ pc[p] = "sleep" /\ op[p] = "poll" /\ "sleep" \notin Windows
    \/ pc[p] = "sleep" /\ op[p] = "wait" /\ "wait" \notin Windows
    \/ pc[p] = "scan" /\ "wait" \notin Windows

-----------------------------------------------------------------------------
(* poll, called by the read system call.                                   *)

\* The elements of s at the positions in K, in their order.
Keep(s, K) == [i \in 1 .. Cardinality(K) |->
                 s[CHOOSE k \in K : Cardinality({j \in K : j <= k}) = i]]

OwnPolls(p) == {k \in 1 .. Len(pending_polls) : pending_polls[k].pid = p}
ErasePolls(p) ==
    pending_polls' = Keep(pending_polls, (1 .. Len(pending_polls)) \ OwnPolls(p))
Fired(p) == \E k \in OwnPolls(p) : pending_polls[k].fired
Goto(p, where) == pc' = [pc EXCEPT ![p] = where]
Return(p, where) ==
    /\ Goto(p, where)
    /\ op' = [op EXCEPT ![p] = "none"]
    /\ timeout' = [timeout EXCEPT ![p] = Infinite]

\* poll is entered and the flag raised.
PollCall(p) ==
    /\ At(p, "user")
    /\ \E t \in Timeouts \cup {Infinite} : timeout' = [timeout EXCEPT ![p] = t]
    /\ Goto(p, "check")
    /\ op' = [op EXCEPT ![p] = "poll"]
    /\ notifying' = TRUE
    /\ UNCHANGED <<ret, sched, family, lists, lines, irq>>

\* The device is asked; if it is ready poll returns at once.
PollCheck(p) ==
    /\ At(p, "check")
    /\ IF lines > 0
       THEN /\ Return(p, "read")
            /\ notifying' = FALSE
       ELSE Goto(p, "add") /\ UNCHANGED <<op, timeout, notifying>>
    /\ UNCHANGED <<ret, sched, family, lists, lines, irq>>

\* The request goes on the list.
PollAdd(p) ==
    /\ At(p, "add")
    /\ pending_polls' = Append(pending_polls,
            [pid |-> p, fired |-> FALSE, left |-> timeout[p]])
    /\ Goto(p, "count")
    /\ UNCHANGED <<op, locals, sched, family, pending_waits, happened_waits,
                   notifying, lines, irq>>

\* Mutant: what an interrupt has fired meanwhile is not looked at.
PollCountBlind(p) ==
    /\ At(p, "count")
    /\ Goto(p, "sleep")
    /\ UNCHANGED <<op, locals, sched, family, lists, notifying, lines, irq>>

\* If an interrupt has fired the request already, poll takes it back and
\* returns; otherwise the process will sleep.
PollCount(p) ==
    /\ At(p, "count")
    /\ IF Fired(p)
       THEN ErasePolls(p) /\ Return(p, "read") /\ notifying' = FALSE
       ELSE Goto(p, "sleep") /\ UNCHANGED <<op, timeout, pending_polls, notifying>>
    /\ UNCHANGED <<ret, sched, family, pending_waits, happened_waits, lines,
                   irq>>

\* poll or waitpid puts the process to sleep.
Sleep(p) ==
    /\ At(p, "sleep")
    /\ status' = [status EXCEPT ![p] = "sleeping"]
    /\ Goto(p, "yield")
    /\ UNCHANGED <<op, locals, current, family, lists, notifying, lines, irq>>

\* RoundRobin::yield lowers the flags.
Yield(p) ==
    /\ At(p, "yield")
    /\ notifying' = FALSE
    /\ Goto(p, "spin")
    /\ UNCHANGED <<op, locals, sched, family, lists, lines, irq>>

\* The next_proc of the yield finds somebody to run, perhaps itself.
SpinEnds(p) ==
    /\ At(p, "spin")
    /\ Eligible(status) # {}
    /\ NextProc(status)
    /\ Goto(p, "woken")
    /\ UNCHANGED <<op, locals, family, lists, notifying, lines, irq>>

\* poll goes on after the sleep: it counts what has fired, takes its request
\* back and returns to the read, which gives up if nothing has.
PollWoken(p) ==
    /\ At(p, "woken")
    /\ op[p] = "poll"
    /\ Return(p, IF Fired(p) THEN "read" ELSE "user")
    /\ ErasePolls(p)
    /\ notifying' = FALSE
    /\ UNCHANGED <<ret, sched, family, pending_waits, happened_waits, lines,
                   irq>>

\* The read takes characters up to the end of some of the lines.
Read(p) ==
    /\ At(p, "read")
    /\ lines' \in 0 .. lines
    /\ Goto(p, "user")
    /\ UNCHANGED <<op, locals, sched, family, lists, notifying, irq>>

-----------------------------------------------------------------------------
(* The keyboard: Tty::add_char of a newline, and SignalManager::notify_file *)

\* A newline is typed; the handler enters notify_file.
Key ==
    /\ irq = Idle
    /\ lines < MaxLines
    /\ ~Closed(current)
    /\ lines' = lines + 1
    /\ irq' = [on |-> current, i |-> 1]
    /\ notifying' = TRUE
    /\ UNCHANGED <<pc, op, locals, sched, family, lists>>

\* Mutant: the iterator is advanced twice.
NotifyFileSkips ==
    /\ irq.on = current
    /\ irq.i <= Len(pending_polls)
    /\ pending_polls' = [pending_polls EXCEPT ![irq.i].fired = TRUE]
    /\ status' = WakeUp(status, pending_polls[irq.i].pid)
    /\ irq' = [irq EXCEPT !.i = @ + 2]
    /\ UNCHANGED <<pc, op, locals, current, family, pending_waits,
                   happened_waits, notifying, lines>>

\* What erasing the element at i leaves.
RemoveAt(s, i) == [k \in 1 .. Len(s) - 1 |-> s[IF k < i THEN k ELSE k + 1]]

\* One turn of the loop over pending_polls.
NotifyFile ==
    /\ irq.on = current
    /\ irq.i <= Len(pending_polls)
    /\ IF status[pending_polls[irq.i].pid] = "absent"
       THEN /\ pending_polls' = RemoveAt(pending_polls, irq.i)
            /\ UNCHANGED <<status, irq>>
       ELSE /\ pending_polls' = [pending_polls EXCEPT ![irq.i].fired = TRUE]
            /\ status' = WakeUp(status, pending_polls[irq.i].pid)
            /\ irq' = [irq EXCEPT !.i = @ + 1]
    /\ UNCHANGED <<pc, op, locals, current, family, pending_waits,
                   happened_waits, notifying, lines>>

\* The loop ends and the handler returns.
NotifyFileEnds ==
    /\ irq.on = current
    /\ irq.i > Len(pending_polls)
    /\ irq' = Idle
    /\ notifying' = FALSE
    /\ UNCHANGED <<pc, op, locals, sched, family, lists, lines>>

-----------------------------------------------------------------------------
(* The timer: tick_down, then the switch that no flag of this component    *)
(* prevents any more.                                                      *)

Ticked(e) == IF e.left >= 0 THEN [e EXCEPT !.left = @ - 1] ELSE e

\* Mutant: both comparisons with zero are strict.
ExpiresStrictly(e) == e.left > 0 /\ Ticked(e).left < 0

Expires(e) == e.left >= 0 /\ Ticked(e).left <= 0

\* Every request counts down and those that expire wake their process, or
\* go if it is gone.
TickDown ==
    LET woken == {pending_polls[k].pid : k \in
                    {j \in 1 .. Len(pending_polls) : Expires(pending_polls[j])}}
        kept == Keep(pending_polls, {k \in 1 .. Len(pending_polls) :
                    ~(/\ Expires(pending_polls[k])
                      /\ status[pending_polls[k].pid] = "absent")})
    IN  /\ pending_polls' = [k \in 1 .. Len(kept) |-> Ticked(kept[k])]
        /\ notifying' = FALSE
        /\ NextProc([p \in Pids |-> IF p \in woken /\ status[p] = "sleeping"
                                    THEN "runnable" ELSE status[p]])

\* PitHandler::handle.
Tick ==
    /\ ~Closed(current)
    /\ pc[current] = "count" => "sleep" \in Windows
    /\ irq.on = current => "notify" \in Windows
    /\ TickDown
    /\ UNCHANGED <<pc, op, locals, family, pending_waits, happened_waits, lines,
                   irq>>

-----------------------------------------------------------------------------
(* waitpid and the wait system call, fork, and the end of a process.       *)

OwnWaits(p) == {k \in 1 .. Len(pending_waits) : pending_waits[k].pid = p}
First(S) == CHOOSE k \in S : \A j \in S : k <= j

\* waitpid for any child, or for one of them: the request goes on the list.
WaitCall(p) ==
    /\ At(p, "user")
    /\ \E S \in {child_pids[p]} \cup {{c} : c \in child_pids[p]} :
         /\ S # {}
         /\ pending_waits' = Append(pending_waits, [pid |-> p, pids |-> S])
    /\ Goto(p, "scan")
    /\ op' = [op EXCEPT ![p] = "wait"]
    /\ notifying' = TRUE
    /\ UNCHANGED <<locals, sched, family, pending_polls, happened_waits, lines,
                   irq>>

\* The events in happened_waits that p's request matches.
Matches(p) == {k \in 1 .. Len(happened_waits) :
                 \E w \in OwnWaits(p) : happened_waits[k] \in pending_waits[w].pids}

\* Mutant: the event stays on the list.
WaitScanKeeps(p) ==
    /\ At(p, "scan")
    /\ IF Matches(p) # {}
       THEN /\ ret' = [ret EXCEPT ![p] = happened_waits[First(Matches(p))]]
            /\ pending_waits' = RemoveAt(pending_waits, Len(pending_waits))
            /\ notifying' = FALSE
            /\ Goto(p, "reap")
       ELSE /\ Goto(p, "sleep")
            /\ UNCHANGED <<ret, pending_waits, notifying>>
    /\ UNCHANGED <<op, timeout, sched, family, pending_polls, happened_waits,
                   lines, irq>>

\* Mutant: the first request of the list is removed, not the last.
WaitScanPopsFirst(p) ==
    /\ At(p, "scan")
    /\ IF Matches(p) # {}
       THEN /\ ret' = [ret EXCEPT ![p] = happened_waits[First(Matches(p))]]
            /\ happened_waits' = RemoveAt(happened_waits, First(Matches(p)))
            /\ pending_waits' = Tail(pending_waits)
            /\ notifying' = FALSE
            /\ Goto(p, "reap")
       ELSE /\ Goto(p, "sleep")
            /\ UNCHANGED <<ret, happened_waits, pending_waits, notifying>>
    /\ UNCHANGED <<op, timeout, sched, family, pending_polls, lines, irq>>

\* An event that has happened already is taken, with the last request of the
\* list, which should be p's own; otherwise the process will sleep.
WaitScan(p) ==
    /\ At(p, "scan")
    /\ IF Matches(p) # {}
       THEN /\ ret' = [ret EXCEPT ![p] = happened_waits[First(Matches(p))]]
            /\ happened_waits' = RemoveAt(happened_waits, First(Matches(p)))
            /\ pending_waits' = RemoveAt(pending_waits, Len(pending_waits))
            /\ notifying' = FALSE
            /\ Goto(p, "reap")
       ELSE /\ Goto(p, "sleep")
            /\ UNCHANGED <<ret, happened_waits, pending_waits, notifying>>
    /\ UNCHANGED <<op, timeout, sched, family, pending_polls, lines, irq>>

\* waitpid goes on after the sleep: its request names the child by now.
WaitWoken(p) ==
    /\ At(p, "woken")
    /\ op[p] = "wait"
    /\ IF OwnWaits(p) # {}
       THEN LET w == First(OwnWaits(p))
            IN  /\ \E c \in pending_waits[w].pids : ret' = [ret EXCEPT ![p] = c]
                /\ pending_waits' = RemoveAt(pending_waits, w)
                /\ Goto(p, "reap")
                /\ UNCHANGED <<op, timeout>>
       ELSE Return(p, "user") /\ UNCHANGED <<ret, pending_waits>>
    /\ UNCHANGED <<sched, family, pending_polls, happened_waits,
                   notifying, lines, irq>>

\* Everything the lists hold for a process that is deleted goes.
PurgeProcess(c) ==
    /\ ErasePolls(c)
    /\ happened_waits' = Keep(happened_waits,
            {k \in 1 .. Len(happened_waits) : happened_waits[k] # c})
    /\ pending_waits' = Keep(pending_waits, (1 .. Len(pending_waits)) \ OwnWaits(c))

\* The wait system call erases the zombie; its PID stays in child_pids.
Reap(p) ==
    /\ At(p, "reap")
    /\ IF status[ret[p]] = "zombie"
       THEN /\ PurgeProcess(ret[p])
            /\ status' = [status EXCEPT ![ret[p]] = "absent"]
            /\ pc' = [pc EXCEPT ![p] = "user", ![ret[p]] = "gone"]
            /\ op' = [op EXCEPT ![p] = "none", ![ret[p]] = "none"]
            /\ UNCHANGED timeout
       ELSE Return(p, "user") /\ UNCHANGED <<status, lists>>
    /\ ret' = [ret EXCEPT ![p] = None]
    /\ UNCHANGED <<current, family, notifying, lines, irq>>

\* fork.  Until PID allocation wraps round, a PID is given out once.
Fork(p) ==
    /\ At(p, "user")
    /\ \E c \in Pids :
         /\ status[c] = "absent"
         /\ parent_pid[c] = None \/ ReusePids
         /\ status' = [status EXCEPT ![c] = "runnable"]
         /\ pc' = [pc EXCEPT ![c] = "user"]
         /\ child_pids' = [child_pids EXCEPT ![p] = @ \cup {c}, ![c] = {}]
         /\ parent_pid' = [parent_pid EXCEPT ![c] = p]
    /\ UNCHANGED <<op, locals, current, lists, notifying, lines, irq>>

\* Mutant: the request is answered but its process not woken.
NotifyWaitNoWake(c) ==
    LET asking == {k \in 1 .. Len(pending_waits) : c \in pending_waits[k].pids}
    IN  /\ status' = [status EXCEPT ![c] = "zombie"]
        /\ IF asking # {}
           THEN /\ pending_waits' = [pending_waits EXCEPT ![First(asking)].pids = {c}]
                /\ UNCHANGED happened_waits
           ELSE /\ happened_waits' = Append(happened_waits, c)
                /\ UNCHANGED pending_waits

\* The first request that names the process is answered; if there is none
\* the event is kept.
NotifyWait(c) ==
    LET asking == {k \in 1 .. Len(pending_waits) : c \in pending_waits[k].pids}
    IN  IF asking # {}
        THEN /\ pending_waits' = [pending_waits EXCEPT ![First(asking)].pids = {c}]
             /\ status' = WakeUp([status EXCEPT ![c] = "zombie"],
                                 pending_waits[First(asking)].pid)
             /\ UNCHANGED happened_waits
        ELSE /\ happened_waits' = Append(happened_waits, c)
             /\ status' = [status EXCEPT ![c] = "zombie"]
             /\ UNCHANGED pending_waits

\* The end of a process.  No system call calls notify_wait yet: this is the
\* caller its interface asks for, in one step, so that no race is the
\* caller's own.  The zombie yields and spins until somebody can run.
Exit(c) ==
    /\ At(c, "user")
    /\ c # InitPid
    /\ NotifyWait(c)
    /\ Goto(c, "spin")
    /\ op' = [op EXCEPT ![c] = "exit"]
    /\ notifying' = FALSE
    /\ UNCHANGED <<locals, current, family, pending_polls, lines, irq>>

-----------------------------------------------------------------------------
Step(p) == \/ PollCall(p) \/ PollCheck(p) \/ PollAdd(p) \/ PollCount(p)
           \/ Sleep(p) \/ Yield(p) \/ SpinEnds(p) \/ PollWoken(p) \/ Read(p)
           \/ WaitCall(p) \/ WaitScan(p) \/ WaitWoken(p) \/ Reap(p)
           \/ Fork(p) \/ Exit(p)
Handler == NotifyFile \/ NotifyFileEnds
Next == Tick \/ Key \/ Handler \/ \E p \in Pids : Step(p)
Spec == Init /\ [][Next]_vars

\* Kernel code that is given the CPU again and again makes progress, a time
\* slice being longer than a step, and the timer keeps ticking.  User code
\* need not make any system call, and nobody need type.
InKernel(p) == ~At(p, "user")
FairSpec == /\ Spec
            /\ SF_vars(Handler)
            /\ \A p \in Pids : SF_vars(InKernel(p) /\ Step(p))
            /\ SF_vars(Tick)

-----------------------------------------------------------------------------
PollEvent == [pid : Pids, fired : BOOLEAN, left : Int]
WaitRequest == [pid : Pids, pids : SUBSET Pids]

\* Every variable has its type.
TypeOK ==
    /\ status \in [Pids -> Status]
    /\ pc \in [Pids -> Pcs]
    /\ op \in [Pids -> {"none", "poll", "wait", "exit"}]
    /\ timeout \in [Pids -> Int]
    /\ ret \in [Pids -> Pids \cup {None}]
    /\ current \in Pids
    /\ child_pids \in [Pids -> SUBSET Pids]
    /\ parent_pid \in [Pids -> Pids \cup {None}]
    /\ pending_polls \in Seq(PollEvent)
    /\ pending_waits \in Seq(WaitRequest)
    /\ happened_waits \in Seq(Pids)
    /\ notifying \in BOOLEAN
    /\ lines \in Nat
    /\ irq \in [on : Pids \cup {None}, i : Nat]

Asleep(p, call) == status[p] = "sleeping" /\ op[p] = call
InPoll(p) == op[p] = "poll"

\* Once the keyboard handler is through, nobody sleeps in poll while the Tty
\* holds a line, or with an event already fired: no wake-up is lost between
\* the check, the registration and the sleep.
NoLostLine ==
    irq = Idle => \A p \in Pids : Asleep(p, "poll") => lines = 0 /\ ~Fired(p)

\* A process asleep in waitpid has its request on the list: the pop_back of
\* another process has not taken it away.
WaiterHasRequest == \A p \in Pids : Asleep(p, "wait") => OwnWaits(p) # {}

\* None of the children a process sleeps for has terminated: no exit slips
\* between the scan of happened_waits and the sleep.
NoLostExit ==
    \A p \in Pids : Asleep(p, "wait") =>
        \A w \in OwnWaits(p) : \A c \in pending_waits[w].pids :
            status[c] # "zombie"

\* The exit of a process is recorded exactly once for a parent that has not
\* ended: in happened_waits, in the parent's request (once it has been
\* compared with happened_waits), or in its return value.
ExitRecordedOnce ==
    \A c \in Pids : LET p == parent_pid[c] IN
        (status[c] = "zombie" /\ status[p] # "zombie" /\ status[p] # "absent") =>
            Cardinality({<<"event", k>> : k \in
                           {j \in 1 .. Len(happened_waits) : happened_waits[j] = c}}
                  \cup {<<"request", k>> : k \in
                           {j \in 1 .. Len(pending_waits) :
                                /\ pc[p] # "scan"
                                /\ pending_waits[j] = [pid |-> p, pids |-> {c}]}}
                  \cup {<<"return", k>> : k \in {j \in {p} : ret[p] = c}}) = 1

\* A poll with a timeout, or whose event has fired, returns.
PollReturns ==
    \A p \in Pids :
        (InPoll(p) /\ (timeout[p] > 0 \/ Fired(p))) ~> ~InPoll(p)

\* A process asleep in poll when a line is there is woken: the handler that
\* announces the line gets through its scan.
LineWakes ==
    \A p \in Pids : (Asleep(p, "poll") /\ lines > 0) ~> ~Asleep(p, "poll")

\* A wait for a child that has terminated returns.
WaitReturns ==
    \A p, c \in Pids :
        (op[p] = "wait" /\ parent_pid[c] = p /\ status[c] = "zombie"
            /\ \E w \in OwnWaits(p) : c \in pending_waits[w].pids)
        ~> op[p] # "wait" \/ status[p] = "zombie"
=============================================================================
