------------------------------- MODULE Tasking -------------------------------
(***************************************************************************)
(* Task switching in the kernel: the round robin scheduler, the process    *)
(* table's swap_in/swap_out, the PIT and keyboard interrupts, the launch   *)
(* and resume of a process and the system calls that change who runs.      *)
(*                                                                         *)
(* One CPU; every process has a kernel stack of its own and every gate of  *)
(* the IDT is a trap gate, so interrupts stay enabled inside handlers and  *)
(* system calls.  A kernel stack is an array of frames; the CPU executes   *)
(* the frame that esp names (depth 0 is user mode) and a context saved in  *)
(* a Process (its ir and is members) is such an esp.  A frame that has     *)
(* been left is "dead": its memory is reused by the next interrupt.        *)
(*                                                                         *)
(* Four global flags stop the PIT from switching.  Windows lists the       *)
(* stretches of code that no flag protects and in which this instance      *)
(* delivers timer ticks nevertheless; with Windows = {} a tick that falls  *)
(* in one of them stays latched in the PIC until the stretch is left.      *)
(***************************************************************************)
EXTENDS Integers

CONSTANTS
    Pids,         \* the PIDs the process table can hold
    InitPid,      \* init_pid
    Boot,         \* the stack the kernel boots on
    MaxDepth,     \* bound on the nesting of frames on one kernel stack
    MaxKeys,      \* bound on the number of keyboard interrupts
    Calls,        \* the system calls the user programs make
    Binaries,     \* the binaries they exec: "valid", "invalid"
    Windows,      \* the unprotected stretches in which ticks are delivered
    MovlClobbers  \* the flags that share the 4 bytes "movl $0" writes

SysCalls == {"getpid", "yield", "block", "exec", "fork"}
AllWindows == {"yield", "launch", "exec"}

ASSUME PidsAssumption == /\ Pids \subseteq Nat
                         /\ InitPid \in Pids
                         /\ Boot \notin Pids
ASSUME DepthAssumption == MaxDepth \in Nat /\ MaxDepth >= 3
ASSUME KeysAssumption == MaxKeys \in Nat
ASSUME CallsAssumption == Calls \subseteq SysCalls
ASSUME BinariesAssumption == Binaries \subseteq {"valid", "invalid"}
ASSUME WindowsAssumption == Windows \subseteq AllWindows
ASSUME ClobberAssumption == MovlClobbers \subseteq {"exec", "notify"}

Stacks == Pids \cup {Boot}
Depths == 1 .. MaxDepth
Status == {"active", "runnable", "sleeping"}

\* Where the CPU is, or will be when a saved context is restored.
Ctx == [home : Stacks, depth : 0 .. MaxDepth]
UserOf(p) == [home |-> p, depth |-> 0]

\* The steps of next_proc and of Process::launch/resume, in code order.
SwitchPcs == {"scan", "chosen", "swapped", "resume", "args", "iret", "ret"}
Pcs == SwitchPcs \cup
       {"dead", "panic", "getpid", "fork", "exec", "execing", "launch",
        "block", "sleep", "yield", "woken", "counted",
        "kbd", "notify", "ack"}

\* by: what entered the frame.  it: the PID the frame works on (the iterator
\* of next_proc, the pid local of a system call).  ret: the context the
\* interrupt saved.  arg: the context pushed as arguments of launch_process.
Frame == [pc : Pcs, by : {"pit", "yield", "call", "start", "kbd"},
          it : Pids, ret : Ctx, arg : Ctx]

Dead == [pc |-> "dead", by |-> "call", it |-> InitPid,
         ret |-> UserOf(InitPid), arg |-> UserOf(InitPid)]

VARIABLES
    tab,        \* PIDs in the process table
    status,     \* Process::stat of each process
    saved,      \* Process::ir and Process::is
    kstack,     \* the kernel stacks
    esp,        \* where the CPU executes
    tss,        \* whose kernel stack the TSS names for entries from user mode
    current,    \* Scheduler::current_proc
    blocked,    \* the flags switch_blocked_for_...
    kbdBusy,    \* IRQ1 is in service in the PIC
    keys        \* keyboard interrupts so far

vars == <<tab, status, saved, kstack, esp, tss, current, blocked, kbdBusy,
          keys>>

Flags == {"switch", "init", "exec", "notify"}

Init ==
    /\ tab = {InitPid}
    /\ status = [p \in Pids |-> "sleeping"]
    /\ saved = [p \in Pids |-> UserOf(p)]
    /\ kstack = [s \in Stacks |-> [d \in Depths |->
                    IF s = Boot /\ d = 1
                    THEN [Dead EXCEPT !.pc = "launch", !.by = "start"]
                    ELSE Dead]]
    /\ esp = [home |-> Boot, depth |-> 1]
    /\ tss = Boot
    /\ current = InitPid
    /\ blocked = [f \in Flags |-> f = "init"]
    /\ kbdBusy = FALSE
    /\ keys = 0

-----------------------------------------------------------------------------
(* The CPU: its top frame, and how frames come and go.                     *)

UserMode == esp.depth = 0
Top == kstack[esp.home][esp.depth]
At(pc) == ~UserMode /\ Top.pc = pc

\* The stack an interrupt arriving now is pushed on: entries from user mode
\* take the stack the TSS names, entries from the kernel stay where they are.
EntryHome == IF UserMode THEN tss ELSE esp.home

\* Frames nest up to MaxDepth - 1; the last place is for the iret frame that
\* launch_kernel_process builds on the stack it returns to.
Room == esp.depth + 1 < MaxDepth

\* An interrupt gate is passed: a frame is pushed, over whatever was there.
Push(stk, pc, by) ==
    /\ kstack' = [stk EXCEPT ![EntryHome][esp.depth + 1] =
                    [pc |-> pc, by |-> by, it |-> current, ret |-> esp,
                     arg |-> Dead.arg]]
    /\ esp' = [home |-> EntryHome, depth |-> esp.depth + 1]

\* Mutant: the handler drops one frame too many.
PopTooFar ==
    /\ kstack' = [kstack EXCEPT ![esp.home][esp.depth] = Dead]
    /\ esp' = [Top.ret EXCEPT !.depth = @ - 1]

\* The handler unwinds and irets to what it interrupted.
Pop ==
    /\ kstack' = [kstack EXCEPT ![esp.home][esp.depth] = Dead]
    /\ esp' = Top.ret

\* The top frame moves on to pc.
Goto(pc) ==
    /\ kstack' = [kstack EXCEPT ![esp.home][esp.depth].pc = pc]
    /\ UNCHANGED esp

-----------------------------------------------------------------------------
(* RoundRobin::next_proc, ProcTable::swap_out, swap_in, Process::resume    *)
(* and the assembly that launches, step by step on the top frame.          *)

\* q follows p in the iteration order of the map, wrapping at its end.
Follows(q, p) ==
    /\ q \in tab
    /\ \/ q > p /\ \A r \in tab : r > p => q <= r
       \/ (\A r \in tab : r <= p) /\ (\A r \in tab : q <= r)

\* Mutant: the loop takes a process without looking at its status.
NextProcScanAny ==
    /\ At("scan")
    /\ \E q \in tab :
        /\ Follows(q, Top.it)
        /\ kstack' = [kstack EXCEPT ![esp.home][esp.depth] =
                [@ EXCEPT !.it = q, !.pc = "chosen"]]
    /\ UNCHANGED <<tab, status, saved, esp, tss, current, blocked, kbdBusy,
                   keys>>

\* One round of the loop: look at the next process, leave if it can run.
NextProcScan ==
    /\ At("scan")
    /\ \E q \in tab :
        /\ Follows(q, Top.it)
        /\ kstack' = [kstack EXCEPT ![esp.home][esp.depth] =
                [@ EXCEPT !.it = q,
                          !.pc = IF status[q] \in {"runnable", "active"}
                                 THEN "chosen" ELSE "scan"]]
    /\ UNCHANGED <<tab, status, saved, esp, tss, current, blocked, kbdBusy,
                   keys>>

\* swap_out: the interrupted context goes into the Process of current_proc.
SwapOut ==
    /\ saved' = [saved EXCEPT ![current] = Top.ret]
    /\ status' = IF status[current] = "active"
                 THEN [status EXCEPT ![current] = "runnable"] ELSE status

\* An active process is left running; any other is swapped in.
NextProcSwapOut ==
    /\ At("chosen")
    /\ \/ /\ status[Top.it] = "active"
          /\ Goto("ret")
          /\ UNCHANGED <<status, saved>>
       \/ /\ status[Top.it] # "active"
          /\ SwapOut
          /\ Goto("swapped")
    /\ UNCHANGED <<tab, tss, current, blocked, kbdBusy, keys>>

\* current_proc = it->first and the checks of swap_in.
NextProcSwapIn ==
    /\ At("swapped")
    /\ current' = Top.it
    /\ Goto(IF /\ Top.it \in tab
               /\ status[Top.it] \in {"runnable", "active"}
            THEN "resume" ELSE "panic")
    /\ UNCHANGED <<tab, status, saved, tss, blocked, kbdBusy, keys>>

\* Mutant: the PIT handler leaves its flag up when nothing was switched.
NextProcReturnBlocked ==
    /\ At("ret")
    /\ Pop
    /\ UNCHANGED <<tab, status, saved, tss, current, blocked, kbdBusy, keys>>

\* No switch was needed: next_proc returns to the PIT handler, which drops
\* its flag, or to the yield system call.
NextProcReturn ==
    /\ At("ret")
    /\ blocked' = IF Top.by = "pit"
                  THEN [blocked EXCEPT !["switch"] = FALSE] ELSE blocked
    /\ Pop
    /\ UNCHANGED <<tab, status, saved, tss, current, kbdBusy, keys>>

\* Mutant: resume forgets the TSS.
ResumeNoTss ==
    /\ At("resume")
    /\ status' = [status EXCEPT ![Top.it] = "active"]
    /\ kstack' = [kstack EXCEPT ![esp.home][esp.depth] =
                    [@ EXCEPT !.pc = "args", !.arg = saved[Top.it]]]
    /\ UNCHANGED <<tab, saved, esp, tss, current, blocked, kbdBusy, keys>>

\* Process::resume: the TSS, the status, and the saved context as arguments.
Resume ==
    /\ At("resume")
    /\ status' = [status EXCEPT ![Top.it] = "active"]
    /\ tss' = Top.it
    /\ kstack' = [kstack EXCEPT ![esp.home][esp.depth] =
                    [@ EXCEPT !.pc = "args", !.arg = saved[Top.it]]]
    /\ UNCHANGED <<tab, saved, esp, current, blocked, kbdBusy, keys>>

\* launch_process and launch_kernel_process clear the flag with a 4 byte
\* store.  The kernel variant has moved to the target's stack by then; the
\* user variant still runs on the stack of the process being left.
LaunchUnblock ==
    /\ At("args")
    /\ blocked' = [f \in Flags |->
                    IF f = "switch" \/ f \in MovlClobbers
                    THEN FALSE ELSE blocked[f]]
    /\ IF Top.arg.depth = 0
       THEN Goto("iret")
       ELSE /\ esp' = [Top.arg EXCEPT !.depth = @ + 1]
            /\ kstack' = [kstack EXCEPT
                            ![esp.home][esp.depth] = Dead,
                            ![Top.arg.home][Top.arg.depth + 1] =
                                [Top EXCEPT !.pc = "iret", !.ret = Top.arg]]
    /\ UNCHANGED <<tab, status, saved, tss, current, kbdBusy, keys>>

LaunchIret ==
    /\ At("iret")
    /\ kstack' = [kstack EXCEPT ![esp.home][esp.depth] = Dead]
    /\ esp' = Top.arg
    /\ UNCHANGED <<tab, status, saved, tss, current, blocked, kbdBusy, keys>>

-----------------------------------------------------------------------------
(* Interrupts.                                                             *)

\* The unprotected stretches.  "yield": next_proc entered by the yield
\* system call, which sets no flag, from its choice to its iret.  "launch":
\* between the clearing of the flag and the iret to user mode, on the stack
\* of the process just left.  "exec": Process::launch after it drops the exec
\* flag and before the saved context is read.
WindowOf(f) ==
    CASE f.by = "yield" /\ f.pc \in SwitchPcs \ {"scan", "ret"} -> {"yield"}
      [] f.by = "pit" /\ f.pc = "iret" /\ f.arg.depth = 0 -> {"launch"}
      [] f.by \in {"call", "start"} /\ f.pc = "resume" -> {"exec"}
      [] OTHER -> {}

TickDelivered ==
    \A d \in 1 .. esp.depth : WindowOf(kstack[esp.home][d]) \subseteq Windows

Halted == At("panic") \/ At("dead")

\* Mutant: the PIT handler switches without raising the switch flag.
PitUnflagged ==
    /\ ~Halted /\ TickDelivered /\ Room
    /\ LET ticked == [blocked EXCEPT !["notify"] = FALSE] IN
       /\ blocked' = ticked
       /\ IF \A f \in Flags : ~ticked[f]
          THEN Push(kstack, "scan", "pit")
          ELSE UNCHANGED <<kstack, esp>>
    /\ UNCHANGED <<tab, status, saved, tss, current, kbdBusy, keys>>

\* PitHandler::handle.  tick_down ends with the notify flag false whatever it
\* was; the acknowledgement precedes the switch, so ticks nest from there on.
Pit ==
    /\ ~Halted /\ TickDelivered /\ Room
    /\ LET ticked == [blocked EXCEPT !["notify"] = FALSE] IN
       IF \A f \in Flags : ~ticked[f]
       THEN /\ blocked' = [ticked EXCEPT !["switch"] = TRUE]
            /\ Push(kstack, "scan", "pit")
       ELSE /\ blocked' = ticked
            /\ UNCHANGED <<kstack, esp>>
    /\ UNCHANGED <<tab, status, saved, tss, current, kbdBusy, keys>>

\* Ps2KeyboardHandler::handle; IRQ1 stays in service until its ack.
KbdIrq ==
    /\ ~Halted /\ Room
    /\ ~kbdBusy /\ keys < MaxKeys
    /\ Push(kstack, "kbd", "kbd")
    /\ kbdBusy' = TRUE
    /\ keys' = keys + 1
    /\ UNCHANGED <<tab, status, saved, tss, current, blocked>>

\* A key that completes a line calls notify_file; any other only its ack.
KbdRead ==
    /\ At("kbd")
    /\ \/ /\ Goto("notify")
          /\ blocked' = [blocked EXCEPT !["notify"] = TRUE]
       \/ /\ Goto("ack")
          /\ UNCHANGED blocked
    /\ UNCHANGED <<tab, status, saved, tss, current, kbdBusy, keys>>

\* p has an event in pending_polls: poll has added it and not yet wiped it.
Polling(p) == kstack[p][1].pc \in {"sleep", "yield", "woken", "counted"}

\* notify_file matches a pending poll and wakes its process.
KbdWake(p) ==
    /\ At("notify")
    /\ p \in tab /\ Polling(p)
    /\ status[p] = "sleeping"
    /\ status' = [status EXCEPT ![p] = "runnable"]
    /\ UNCHANGED <<tab, saved, kstack, esp, tss, current, blocked, kbdBusy,
                   keys>>

KbdNotified ==
    /\ At("notify")
    /\ Goto("ack")
    /\ blocked' = [blocked EXCEPT !["notify"] = FALSE]
    /\ UNCHANGED <<tab, status, saved, tss, current, kbdBusy, keys>>

KbdAck ==
    /\ At("ack")
    /\ kbdBusy' = FALSE
    /\ Pop
    /\ UNCHANGED <<tab, status, saved, tss, current, blocked, keys>>

-----------------------------------------------------------------------------
(* System calls.                                                           *)

\* int 0x80 from user mode.  The yield call goes straight to next_proc.
Call(c) ==
    /\ UserMode
    /\ c \in Calls
    /\ IF c = "yield" THEN Push(kstack, "scan", "yield")
                      ELSE Push(kstack, c, "call")
    /\ UNCHANGED <<tab, status, saved, tss, current, blocked, kbdBusy, keys>>

\* getpid, fork and execve panic when current_proc is not the active process.
Getpid ==
    /\ At("getpid")
    /\ IF status[current] = "active" THEN Pop ELSE Goto("panic")
    /\ UNCHANGED <<tab, status, saved, tss, current, blocked, kbdBusy, keys>>

\* A free PID gets a runnable process that starts in user mode; with none
\* free the call fails.
Fork ==
    /\ At("fork")
    /\ IF status[current] = "active" THEN Pop ELSE Goto("panic")
    /\ \/ \E p \in Pids \ tab :
            /\ tab' = tab \cup {p}
            /\ status' = [status EXCEPT ![p] = "runnable"]
            /\ saved' = [saved EXCEPT ![p] = UserOf(p)]
       \/ /\ Pids \subseteq tab
          /\ UNCHANGED <<tab, status, saved>>
    /\ UNCHANGED <<tss, current, blocked, kbdBusy, keys>>

\* execve blocks switching while the old process is taken down.
ExecBlock ==
    /\ At("exec")
    /\ blocked' = [blocked EXCEPT !["exec"] = TRUE]
    /\ Goto(IF status[current] = "active" THEN "execing" ELSE "panic")
    /\ UNCHANGED <<tab, status, saved, tss, current, kbdBusy, keys>>

\* The new Process is created asleep and takes over the table entry.
ExecReplace ==
    /\ At("execing")
    /\ "valid" \in Binaries
    /\ status' = [status EXCEPT ![Top.it] = "sleeping"]
    /\ saved' = [saved EXCEPT ![Top.it] = UserOf(Top.it)]
    /\ Goto("launch")
    /\ UNCHANGED <<tab, tss, current, blocked, kbdBusy, keys>>

\* The binary is not a valid ELF: the old process is restored and execve
\* returns -1.
ExecInvalid ==
    /\ At("execing")
    /\ "invalid" \in Binaries
    /\ Pop
    /\ UNCHANGED <<tab, status, saved, tss, current, blocked, kbdBusy, keys>>

\* Process::launch, for execve and for RoundRobin::start.
Launch ==
    /\ At("launch")
    /\ saved' = [saved EXCEPT ![Top.it] = UserOf(Top.it)]
    /\ status' = [status EXCEPT ![Top.it] = "active"]
    /\ blocked' = [blocked EXCEPT !["init"] = FALSE, !["exec"] = FALSE]
    /\ Goto("resume")
    /\ UNCHANGED <<tab, tss, current, kbdBusy, keys>>

\* SignalManager::poll and waitpid, as far as they move the process: block
\* switching, then return at once or go to sleep and yield.
BlockFlag ==
    /\ At("block")
    /\ blocked' = [blocked EXCEPT !["notify"] = TRUE]
    /\ Goto("sleep")
    /\ UNCHANGED <<tab, status, saved, tss, current, kbdBusy, keys>>

BlockReady ==
    /\ At("sleep")
    /\ blocked' = [blocked EXCEPT !["notify"] = FALSE]
    /\ Pop
    /\ UNCHANGED <<tab, status, saved, tss, current, kbdBusy, keys>>

BlockSleep ==
    /\ At("sleep")
    /\ status' = [status EXCEPT ![Top.it] = "sleeping"]
    /\ Goto("yield")
    /\ UNCHANGED <<tab, saved, tss, current, blocked, kbdBusy, keys>>

\* RoundRobin::yield drops every flag and raises the yield system call.
BlockYield ==
    /\ At("yield")
    /\ blocked' = [f \in Flags |-> FALSE]
    /\ Push([kstack EXCEPT ![esp.home][esp.depth].pc = "woken"],
            "scan", "yield")
    /\ UNCHANGED <<tab, status, saved, tss, current, kbdBusy, keys>>

\* Back from the yield: block again for the count of the fired events.
BlockWoken ==
    /\ At("woken")
    /\ blocked' = [blocked EXCEPT !["notify"] = TRUE]
    /\ Goto("counted")
    /\ UNCHANGED <<tab, status, saved, tss, current, kbdBusy, keys>>

BlockReturn ==
    /\ At("counted")
    /\ blocked' = [blocked EXCEPT !["notify"] = FALSE]
    /\ Pop
    /\ UNCHANGED <<tab, status, saved, tss, current, kbdBusy, keys>>

-----------------------------------------------------------------------------
NextProc == \/ NextProcScan \/ NextProcSwapOut \/ NextProcSwapIn
            \/ NextProcReturn \/ Resume \/ LaunchUnblock \/ LaunchIret

Keyboard == \/ KbdRead \/ KbdNotified \/ KbdAck
            \/ \E p \in Pids : KbdWake(p)

SysCall == \/ Getpid \/ Fork \/ ExecBlock \/ ExecReplace \/ ExecInvalid
           \/ Launch \/ BlockFlag \/ BlockReady \/ BlockSleep \/ BlockYield
           \/ BlockWoken \/ BlockReturn

\* A step of the code the CPU executes in kernel mode.
Execute == NextProc \/ Keyboard \/ SysCall

Next == \/ Execute
        \/ Pit
        \/ KbdIrq
        \/ \E c \in SysCalls : Call(c)

Spec == Init /\ [][Next]_vars

\* The CPU goes on executing.  The PIT keeps ticking and the PIC holds a tick
\* until it can be delivered, so one that can be delivered again and again is.
FairSpec == Spec /\ WF_vars(Execute) /\ SF_vars(Pit)

-----------------------------------------------------------------------------
(* Properties.                                                             *)

TypeOK ==
    /\ tab \subseteq Pids /\ InitPid \in tab
    /\ status \in [Pids -> Status]
    /\ saved \in [Pids -> Ctx]
    /\ kstack \in [Stacks -> [Depths -> Frame]]
    /\ esp \in Ctx
    /\ tss \in Stacks
    /\ current \in tab
    /\ blocked \in [Flags -> BOOLEAN]
    /\ kbdBusy \in BOOLEAN
    /\ keys \in 0 .. MaxKeys

Live(p, d) == kstack[p][d].pc # "dead"

\* What resume() will restore of a process that is switched out lies on that
\* process's own kernel stack, in frames that are still there
\* (ProcTable::swap_out stores it, Process::resume launches from it).
ContextIntegrity ==
    \A p \in tab \ {current} :
        /\ saved[p].home = p
        /\ \A d \in 1 .. saved[p].depth : Live(p, d)

\* User code runs as the process the scheduler believes it gave time to: that
\* process alone is active, and the TSS sends its next interrupt to its own
\* kernel stack.
UserRunsAsCurrent ==
    /\ UserMode => /\ esp.home = current
                   /\ tss = current
                   /\ status[current] = "active"
    /\ \A p \in tab : status[p] = "active" => p = current

\* No interleaving reaches a panic: next_proc never fails to swap in the
\* process it chose and getpid, fork and execve never find that current_proc
\* is not the active process.
NoPanic == ~At("panic")

InExec == \E p \in tab, d \in Depths : kstack[p][d].pc \in {"execing", "launch"}

\* A failed execve has left the exec flag up (Syscall.cpp returns -1 without
\* lowering it).
ExecFlagLeaked == blocked["exec"] /\ ~InExec

\* The exec flag is up only in the middle of an exec, as Scheduler.h says.
ExecFlagOnlyInExec == ~ExecFlagLeaked

\* Every runnable process gets the CPU, unless a failed execve has stopped the
\* timer from switching.
Served == \A p \in Pids :
    (status[p] = "runnable") ~> (status[p] = "active" \/ ExecFlagLeaked)

=============================================================================
