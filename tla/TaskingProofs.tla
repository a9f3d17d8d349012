---------------------------- MODULE TaskingProofs ----------------------------
(***************************************************************************)
(* Proofs about Tasking.                                                   *)
(*                                                                         *)
(* TypeCorrect holds for every choice of windows.  The theorems about who  *)
(* runs hold for every set of PIDs, every nesting depth, every number of   *)
(* interrupts and either layout of the flags, as long as the timer is kept *)
(* out of the three unprotected stretches (Windows = {}); the run          *)
(* tasking_yield_window shows that a tick inside one of them breaks them.  *)
(* They rest on the inductive invariant TaskInv.                           *)
(***************************************************************************)
EXTENDS Tasking, TLAPS

BlockPcs == {"block", "sleep", "yield"}

\* What is true of every frame: it works on a PID of the table, the contexts
\* it can return to leave room for the iret frame of launch_kernel_process,
\* and poll runs at the bottom of its stack.
GoodFrame(f, d) ==
    /\ f \in Frame
    /\ f.it \in tab
    /\ f.ret.depth < MaxDepth
    /\ f.arg.depth < MaxDepth
    /\ f.pc \in BlockPcs => d = 1

GoodStacks(k) ==
    /\ k \in [Stacks -> [Depths -> Frame]]
    /\ \A s \in Stacks, d \in Depths : GoodFrame(k[s][d], d)

\* The strengthening that makes TypeOK inductive.
TypeInv ==
    /\ TypeOK
    /\ \A p \in Pids : saved[p].depth < MaxDepth
    /\ GoodStacks(kstack)

USE PidsAssumption, DepthAssumption, KeysAssumption

LEMMA DeadGood ==
    ASSUME TypeInv, NEW d
    PROVE  GoodFrame(Dead, d)
BY DEF GoodFrame, Dead, Frame, Pcs, SwitchPcs, Ctx, UserOf, Stacks, BlockPcs,
       TypeInv, TypeOK

\* The frame the CPU executes is a good frame.
LEMMA TopGood ==
    ASSUME TypeInv, ~UserMode
    PROVE  /\ esp.home \in Stacks
           /\ esp.depth \in Depths
           /\ Top = kstack[esp.home][esp.depth]
           /\ GoodFrame(Top, esp.depth)
BY DEF TypeInv, TypeOK, GoodStacks, UserMode, Top, Ctx, Depths

\* Replacing one frame by a good one keeps all of them good.
LEMMA PutFrame ==
    ASSUME NEW k, GoodStacks(k), NEW s \in Stacks, NEW d \in Depths, NEW f,
           GoodFrame(f, d)
    PROVE  GoodStacks([k EXCEPT ![s][d] = f])
<1> DEFINE l == [k EXCEPT ![s][d] = f]
<1>1. \A t \in Stacks, e \in Depths :
        l[t][e] = IF t = s /\ e = d THEN f ELSE k[t][e]
  BY DEF GoodStacks
<1>2. l \in [Stacks -> [Depths -> Frame]]
  BY DEF GoodStacks, GoodFrame
<1>3. \A t \in Stacks, e \in Depths : GoodFrame(l[t][e], e)
  BY <1>1 DEF GoodStacks
<1> QED
  BY <1>2, <1>3 DEF GoodStacks

\* The table only grows, so what was good in the old state is in the new.
LEMMA StillGood ==
    ASSUME GoodStacks(kstack'), tab \subseteq tab'
    PROVE  GoodStacks(kstack)'
BY DEF GoodStacks, GoodFrame

LEMMA GotoGood ==
    ASSUME TypeInv, ~UserMode, NEW pc \in Pcs, pc \in BlockPcs => esp.depth = 1,
           Goto(pc)
    PROVE  GoodStacks(kstack') /\ esp' \in Ctx
<1> DEFINE f == [Top EXCEPT !.pc = pc]
<1>1. kstack' = [kstack EXCEPT ![esp.home][esp.depth] = f]
  BY TopGood DEF Goto
<1>2. GoodFrame(f, esp.depth)
  BY TopGood DEF GoodFrame, Frame
<1>3. esp' \in Ctx
  BY DEF Goto, TypeInv, TypeOK
<1> QED
  BY <1>1, <1>2, <1>3, TopGood, PutFrame DEF TypeInv

LEMMA PopGood ==
    ASSUME TypeInv, ~UserMode, Pop
    PROVE  GoodStacks(kstack') /\ esp' \in Ctx
<1>1. esp' \in Ctx
  BY TopGood DEF Pop, GoodFrame, Frame
<1> QED
  BY <1>1, DeadGood, TopGood, PutFrame DEF Pop, TypeInv

\* A frame is pushed on the good stacks k.
LEMMA PushGood ==
    ASSUME TypeInv, NEW k, GoodStacks(k), NEW pc \in Pcs,
           NEW by \in {"pit", "yield", "call", "kbd"},
           esp.depth + 1 < MaxDepth, pc \in BlockPcs => esp.depth = 0,
           Push(k, pc, by)
    PROVE  GoodStacks(kstack') /\ esp' \in Ctx
<1> DEFINE f == [pc |-> pc, by |-> by, it |-> current, ret |-> esp,
                 arg |-> Dead.arg]
<1>1. EntryHome \in Stacks /\ esp.depth + 1 \in Depths /\ esp \in Ctx
  BY DEF EntryHome, TypeInv, TypeOK, Ctx, Depths
<1>2. Dead.arg \in Ctx /\ Dead.arg.depth = 0
  BY DEF Dead, UserOf, Ctx, Stacks
<1>3. GoodFrame(f, esp.depth + 1)
  <2>1. current \in tab /\ current \in Pids
    BY DEF TypeInv, TypeOK
  <2>2. f \in Frame
    BY <1>1, <1>2, <2>1 DEF Frame
  <2>3. esp.depth < MaxDepth
    BY <1>1 DEF Ctx
  <2>4. pc \in BlockPcs => esp.depth + 1 = 1
    BY <1>1 DEF Ctx
  <2> QED
    BY <1>2, <2>1, <2>2, <2>3, <2>4 DEF GoodFrame
<1>4. kstack' = [k EXCEPT ![EntryHome][esp.depth + 1] = f]
  BY DEF Push
<1>5. esp' \in Ctx
  BY <1>1 DEF Push, Ctx, Depths
<1> QED
  BY <1>1, <1>3, <1>4, <1>5, PutFrame

-----------------------------------------------------------------------------
(* One lemma per group of actions.                                         *)

LEMMA InitType == Init => TypeInv
<1> SUFFICES ASSUME Init PROVE TypeInv
  OBVIOUS
<1> DEFINE boot == [Dead EXCEPT !.pc = "launch", !.by = "start"]
<1>u. \A p \in Pids : UserOf(p) \in Ctx
  BY DEF Ctx, UserOf, Stacks
<1>d. Dead \in Frame
  BY <1>u DEF Frame, Pcs, SwitchPcs, Dead
<1>a. boot \in Frame
  BY <1>d DEF Frame, Pcs, SwitchPcs
<1>b. kstack \in [Stacks -> [Depths -> Frame]]
  BY <1>a, <1>d DEF Init
<1>c. /\ saved \in [Pids -> Ctx]
      /\ esp \in Ctx
      /\ blocked \in [Flags -> BOOLEAN]
  BY <1>u DEF Init, Ctx, Stacks
<1>e. kbdBusy \in BOOLEAN
  BY DEF Init
<1>1. TypeOK
  BY <1>b, <1>c, <1>e DEF Init, TypeOK, Status, Stacks
<1>2. GoodStacks(kstack)
  BY <1>1 DEF Init, GoodStacks, GoodFrame, TypeOK, Dead, UserOf, BlockPcs
<1> QED
  BY <1>1, <1>2 DEF Init, TypeInv, UserOf

USE DEF At

LEMMA NextProcType == TypeInv /\ NextProc => TypeInv'
<1> SUFFICES ASSUME TypeInv, NextProc PROVE TypeInv'
  OBVIOUS
<1> USE DEF TypeOK, Pcs, SwitchPcs, BlockPcs
<1>0. ~UserMode
  BY DEF NextProc, NextProcScan, NextProcSwapOut, NextProcSwapIn,
         NextProcReturn, Resume, LaunchUnblock, LaunchIret
<1>1. CASE NextProcScan
  <2>0. PICK q \in tab :
        kstack' = [kstack EXCEPT ![esp.home][esp.depth] =
                [@ EXCEPT !.it = q,
                          !.pc = IF status[q] \in {"runnable", "active"}
                                 THEN "chosen" ELSE "scan"]]
    BY <1>1 DEF NextProcScan
  <2> DEFINE f == [Top EXCEPT !.it = q,
                    !.pc = IF status[q] \in {"runnable", "active"}
                           THEN "chosen" ELSE "scan"]
  <2>1. kstack' = [kstack EXCEPT ![esp.home][esp.depth] = f]
    BY <1>0, <2>0, TopGood
  <2>2. GoodFrame(f, esp.depth)
    BY <1>0, TopGood DEF GoodFrame, Frame, TypeInv
  <2> HIDE DEF f
  <2>3. GoodStacks(kstack')
    BY <1>0, <2>1, <2>2, TopGood, PutFrame DEF TypeInv
  <2>4. UNCHANGED <<tab, status, saved, esp, tss, current, blocked, kbdBusy,
                    keys>>
    BY <1>1 DEF NextProcScan
  <2> QED
    BY <2>3, <2>4, StillGood DEF TypeInv, GoodStacks
<1>2. CASE NextProcSwapOut
  <2>1. GoodStacks(kstack') /\ esp' \in Ctx
    BY <1>0, <1>2, GotoGood DEF NextProcSwapOut
  <2>2. current \in Pids /\ Top.ret \in Ctx /\ Top.ret.depth < MaxDepth
    BY <1>0, TopGood DEF TypeInv, GoodFrame, Frame
  <2>3. /\ status' \in [Pids -> Status]
        /\ saved' \in [Pids -> Ctx]
        /\ \A p \in Pids : saved'[p].depth < MaxDepth
    BY <1>2, <2>2 DEF NextProcSwapOut, SwapOut, TypeInv, Status
  <2> QED
    BY <1>2, <2>1, <2>3, StillGood DEF NextProcSwapOut, TypeInv, GoodStacks
<1>3. CASE NextProcSwapIn
  <2>1. GoodStacks(kstack') /\ esp' \in Ctx
    BY <1>0, <1>3, GotoGood DEF NextProcSwapIn
  <2>2. current' \in tab
    BY <1>0, <1>3, TopGood DEF NextProcSwapIn, GoodFrame
  <2> QED
    BY <1>3, <2>1, <2>2, StillGood DEF NextProcSwapIn, TypeInv, GoodStacks
<1>4. CASE NextProcReturn
  <2>1. GoodStacks(kstack') /\ esp' \in Ctx
    BY <1>0, <1>4, PopGood DEF NextProcReturn
  <2>2. blocked' \in [Flags -> BOOLEAN]
    BY <1>4 DEF NextProcReturn, TypeInv, Flags
  <2> QED
    BY <1>4, <2>1, <2>2, StillGood DEF NextProcReturn, TypeInv, GoodStacks
<1>5. CASE Resume
  <2> DEFINE f == [Top EXCEPT !.pc = "args", !.arg = saved[Top.it]]
  <2>0. Top.it \in tab /\ Top.it \in Pids
    BY <1>0, TopGood DEF GoodFrame, Frame
  <2>1. kstack' = [kstack EXCEPT ![esp.home][esp.depth] = f]
    BY <1>0, <1>5, TopGood DEF Resume
  <2>2. GoodFrame(f, esp.depth)
    BY <1>0, <2>0, TopGood DEF GoodFrame, Frame, TypeInv
  <2>3. GoodStacks(kstack')
    BY <1>0, <2>1, <2>2, TopGood, PutFrame DEF TypeInv
  <2>4. status' \in [Pids -> Status] /\ tss' \in Stacks
    BY <1>5, <2>0 DEF Resume, TypeInv, Status, Stacks
  <2> QED
    BY <1>5, <2>3, <2>4, StillGood DEF Resume, TypeInv, GoodStacks
<1>6. CASE LaunchUnblock
  <2>1. blocked' \in [Flags -> BOOLEAN]
    BY <1>6 DEF LaunchUnblock, TypeInv
  <2>2. GoodStacks(kstack') /\ esp' \in Ctx
    <3>1. CASE Top.arg.depth = 0
      BY <1>0, <1>6, <3>1, GotoGood DEF LaunchUnblock
    <3>2. CASE Top.arg.depth # 0
      <4> DEFINE k == [kstack EXCEPT ![esp.home][esp.depth] = Dead]
                 f == [Top EXCEPT !.pc = "iret", !.ret = Top.arg]
      <4>1. /\ Top.arg \in Ctx
            /\ Top.arg.home \in Stacks
            /\ Top.arg.depth + 1 \in Depths
        BY <1>0, <3>2, TopGood DEF GoodFrame, Frame, Ctx, Depths
      <4>2. GoodStacks(k)
        BY <1>0, DeadGood, TopGood, PutFrame DEF TypeInv
      <4>3. GoodFrame(f, Top.arg.depth + 1)
        BY <1>0, <4>1, TopGood DEF GoodFrame, Frame
      <4>4. kstack' = [k EXCEPT ![Top.arg.home][Top.arg.depth + 1] = f]
        BY <1>6, <3>2 DEF LaunchUnblock
      <4>5. esp' \in Ctx
        BY <1>6, <3>2, <4>1 DEF LaunchUnblock, Ctx, Depths
      <4> QED
        BY <4>1, <4>2, <4>3, <4>4, <4>5, PutFrame
    <3> QED
      BY <3>1, <3>2
  <2> QED
    BY <1>6, <2>1, <2>2, StillGood DEF LaunchUnblock, TypeInv, GoodStacks
<1>7. CASE LaunchIret
  <2>1. esp' \in Ctx
    BY <1>0, <1>7, TopGood DEF LaunchIret, GoodFrame, Frame
  <2>2. GoodStacks(kstack')
    BY <1>0, <1>7, DeadGood, TopGood, PutFrame DEF LaunchIret, TypeInv
  <2> QED
    BY <1>7, <2>1, <2>2, StillGood DEF LaunchIret, TypeInv, GoodStacks
<1> QED
  BY <1>1, <1>2, <1>3, <1>4, <1>5, <1>6, <1>7 DEF NextProc

LEMMA KeyboardType == TypeInv /\ Keyboard => TypeInv'
<1> SUFFICES ASSUME TypeInv, Keyboard PROVE TypeInv'
  OBVIOUS
<1> USE DEF TypeOK, Pcs, SwitchPcs, BlockPcs
<1>0. ~UserMode
  BY DEF Keyboard, KbdRead, KbdWake, KbdNotified, KbdAck
<1>1. CASE KbdRead
  <2>1. GoodStacks(kstack') /\ esp' \in Ctx
    BY <1>0, <1>1, GotoGood DEF KbdRead
  <2>2. blocked' \in [Flags -> BOOLEAN]
    BY <1>1 DEF KbdRead, TypeInv, Flags
  <2> QED
    BY <1>1, <2>1, <2>2, StillGood DEF KbdRead, TypeInv, GoodStacks
<1>2. ASSUME NEW p \in Pids, KbdWake(p) PROVE TypeInv'
  <2>1. status' \in [Pids -> Status]
    BY <1>2 DEF KbdWake, TypeInv, Status
  <2> QED
    BY <1>2, <2>1, StillGood DEF KbdWake, TypeInv, GoodStacks
<1>3. CASE KbdNotified
  <2>1. GoodStacks(kstack') /\ esp' \in Ctx
    BY <1>0, <1>3, GotoGood DEF KbdNotified
  <2>2. blocked' \in [Flags -> BOOLEAN]
    BY <1>3 DEF KbdNotified, TypeInv, Flags
  <2> QED
    BY <1>3, <2>1, <2>2, StillGood DEF KbdNotified, TypeInv, GoodStacks
<1>4. CASE KbdAck
  <2>1. GoodStacks(kstack') /\ esp' \in Ctx
    BY <1>0, <1>4, PopGood DEF KbdAck
  <2> QED
    BY <1>4, <2>1, StillGood DEF KbdAck, TypeInv, GoodStacks
<1> QED
  BY <1>1, <1>2, <1>3, <1>4 DEF Keyboard

LEMMA ExecType ==
    TypeInv /\ (Getpid \/ Fork \/ ExecBlock \/ ExecReplace \/ ExecInvalid
                \/ Launch) => TypeInv'
<1> SUFFICES ASSUME TypeInv, Getpid \/ Fork \/ ExecBlock \/ ExecReplace
                             \/ ExecInvalid \/ Launch
             PROVE  TypeInv'
  OBVIOUS
<1> USE DEF TypeOK, Pcs, SwitchPcs, BlockPcs
<1>0. ~UserMode
  BY DEF Getpid, Fork, ExecBlock, ExecReplace, ExecInvalid, Launch
<1>a. Top.it \in Pids
  BY <1>0, TopGood DEF GoodFrame, Frame
<1>b. \A p \in Pids : UserOf(p) \in Ctx /\ UserOf(p).depth < MaxDepth
  BY DEF UserOf, Ctx, Stacks
<1>1. CASE Getpid
  <2>1. GoodStacks(kstack') /\ esp' \in Ctx
    BY <1>0, <1>1, PopGood, GotoGood DEF Getpid
  <2> QED
    BY <1>1, <2>1, StillGood DEF Getpid, TypeInv, GoodStacks
<1>2. CASE Fork
  <2>1. GoodStacks(kstack') /\ esp' \in Ctx
    BY <1>0, <1>2, PopGood, GotoGood DEF Fork
  <2>2. /\ tab \subseteq tab' /\ tab' \subseteq Pids
        /\ status' \in [Pids -> Status]
        /\ saved' \in [Pids -> Ctx]
        /\ \A p \in Pids : saved'[p].depth < MaxDepth
    <3>1. CASE UNCHANGED <<tab, status, saved>>
      BY <3>1 DEF TypeInv
    <3>2. ASSUME NEW p \in Pids \ tab,
                 tab' = tab \cup {p},
                 status' = [status EXCEPT ![p] = "runnable"],
                 saved' = [saved EXCEPT ![p] = UserOf(p)]
          PROVE  <2>2!1 /\ <2>2!2 /\ <2>2!3 /\ <2>2!4
      BY <3>2, <1>b DEF TypeInv, Status
    <3> QED
      BY <1>2, <3>1, <3>2 DEF Fork
  <2> QED
    BY <1>2, <2>1, <2>2, StillGood DEF Fork, TypeInv, GoodStacks
<1>3. CASE ExecBlock
  <2>1. GoodStacks(kstack') /\ esp' \in Ctx
    BY <1>0, <1>3, GotoGood DEF ExecBlock
  <2>2. blocked' \in [Flags -> BOOLEAN]
    BY <1>3 DEF ExecBlock, TypeInv, Flags
  <2> QED
    BY <1>3, <2>1, <2>2, StillGood DEF ExecBlock, TypeInv, GoodStacks
<1>4. CASE ExecReplace
  <2>1. GoodStacks(kstack') /\ esp' \in Ctx
    BY <1>0, <1>4, GotoGood DEF ExecReplace
  <2>2. /\ status' \in [Pids -> Status]
        /\ saved' \in [Pids -> Ctx]
        /\ \A p \in Pids : saved'[p].depth < MaxDepth
    BY <1>4, <1>a, <1>b DEF ExecReplace, TypeInv, Status
  <2> QED
    BY <1>4, <2>1, <2>2, StillGood DEF ExecReplace, TypeInv, GoodStacks
<1>5. CASE ExecInvalid
  <2>1. GoodStacks(kstack') /\ esp' \in Ctx
    BY <1>0, <1>5, PopGood DEF ExecInvalid
  <2> QED
    BY <1>5, <2>1, StillGood DEF ExecInvalid, TypeInv, GoodStacks
<1>6. CASE Launch
  <2>1. GoodStacks(kstack') /\ esp' \in Ctx
    BY <1>0, <1>6, GotoGood DEF Launch
  <2>2. /\ status' \in [Pids -> Status]
        /\ saved' \in [Pids -> Ctx]
        /\ \A p \in Pids : saved'[p].depth < MaxDepth
        /\ blocked' \in [Flags -> BOOLEAN]
    BY <1>6, <1>a, <1>b DEF Launch, TypeInv, Status, Flags
  <2> QED
    BY <1>6, <2>1, <2>2, StillGood DEF Launch, TypeInv, GoodStacks
<1> QED
  BY <1>1, <1>2, <1>3, <1>4, <1>5, <1>6

LEMMA BlockType ==
    TypeInv /\ (BlockFlag \/ BlockReady \/ BlockSleep \/ BlockYield
                \/ BlockWoken \/ BlockReturn) => TypeInv'
<1> SUFFICES ASSUME TypeInv, BlockFlag \/ BlockReady \/ BlockSleep
                             \/ BlockYield \/ BlockWoken \/ BlockReturn
             PROVE  TypeInv'
  OBVIOUS
<1> USE DEF TypeOK, Pcs, SwitchPcs, BlockPcs
<1>0. ~UserMode
  BY DEF BlockFlag, BlockReady, BlockSleep, BlockYield, BlockWoken,
         BlockReturn
<1>a. Top.it \in Pids /\ (Top.pc \in BlockPcs => esp.depth = 1)
  BY <1>0, TopGood DEF GoodFrame, Frame
<1>1. CASE BlockFlag
  <2>1. GoodStacks(kstack') /\ esp' \in Ctx
    BY <1>0, <1>1, <1>a, GotoGood DEF BlockFlag
  <2>2. blocked' \in [Flags -> BOOLEAN]
    BY <1>1 DEF BlockFlag, TypeInv, Flags
  <2> QED
    BY <1>1, <2>1, <2>2, StillGood DEF BlockFlag, TypeInv, GoodStacks
<1>2. CASE BlockReady
  <2>1. GoodStacks(kstack') /\ esp' \in Ctx
    BY <1>0, <1>2, PopGood DEF BlockReady
  <2>2. blocked' \in [Flags -> BOOLEAN]
    BY <1>2 DEF BlockReady, TypeInv, Flags
  <2> QED
    BY <1>2, <2>1, <2>2, StillGood DEF BlockReady, TypeInv, GoodStacks
<1>3. CASE BlockSleep
  <2>1. GoodStacks(kstack') /\ esp' \in Ctx
    BY <1>0, <1>3, <1>a, GotoGood DEF BlockSleep
  <2>2. status' \in [Pids -> Status]
    BY <1>3, <1>a DEF BlockSleep, TypeInv, Status
  <2> QED
    BY <1>3, <2>1, <2>2, StillGood DEF BlockSleep, TypeInv, GoodStacks
<1>4. CASE BlockYield
  <2> DEFINE f == [Top EXCEPT !.pc = "woken"]
             k == [kstack EXCEPT ![esp.home][esp.depth].pc = "woken"]
  <2>1. GoodFrame(f, esp.depth)
    BY <1>0, TopGood DEF GoodFrame, Frame
  <2>2. k = [kstack EXCEPT ![esp.home][esp.depth] = f]
    BY <1>0, TopGood
  <2>3. GoodStacks(k)
    BY <1>0, <2>1, <2>2, TopGood, PutFrame DEF TypeInv
  <2>4. esp.depth + 1 < MaxDepth
    BY <1>4, <1>a DEF BlockYield
  <2>5. Push(k, "scan", "yield")
    BY <1>4 DEF BlockYield
  <2>6. GoodStacks(kstack') /\ esp' \in Ctx
    BY <2>3, <2>4, <2>5, PushGood
  <2>7. blocked' \in [Flags -> BOOLEAN]
    BY <1>4 DEF BlockYield
  <2> QED
    BY <1>4, <2>6, <2>7, StillGood DEF BlockYield, TypeInv, GoodStacks
<1>5. CASE BlockWoken
  <2>1. GoodStacks(kstack') /\ esp' \in Ctx
    BY <1>0, <1>5, GotoGood DEF BlockWoken
  <2>2. blocked' \in [Flags -> BOOLEAN]
    BY <1>5 DEF BlockWoken, TypeInv, Flags
  <2> QED
    BY <1>5, <2>1, <2>2, StillGood DEF BlockWoken, TypeInv, GoodStacks
<1>6. CASE BlockReturn
  <2>1. GoodStacks(kstack') /\ esp' \in Ctx
    BY <1>0, <1>6, PopGood DEF BlockReturn
  <2>2. blocked' \in [Flags -> BOOLEAN]
    BY <1>6 DEF BlockReturn, TypeInv, Flags
  <2> QED
    BY <1>6, <2>1, <2>2, StillGood DEF BlockReturn, TypeInv, GoodStacks
<1> QED
  BY <1>1, <1>2, <1>3, <1>4, <1>5, <1>6

LEMMA InterruptType ==
    TypeInv /\ (Pit \/ KbdIrq \/ \E c \in SysCalls : Call(c)) => TypeInv'
<1> SUFFICES ASSUME TypeInv, Pit \/ KbdIrq \/ \E c \in SysCalls : Call(c)
             PROVE  TypeInv'
  OBVIOUS
<1> USE DEF TypeOK, Pcs, SwitchPcs, BlockPcs
<1>0. GoodStacks(kstack)
  BY DEF TypeInv
<1>1. CASE Pit
  <2>1. GoodStacks(kstack') /\ esp' \in Ctx
    <3>1. CASE Push(kstack, "scan", "pit")
      BY <1>0, <1>1, <3>1, PushGood DEF Pit, Room
    <3>2. CASE UNCHANGED <<kstack, esp>>
      BY <1>0, <3>2 DEF TypeInv
    <3> QED
      BY <1>1, <3>1, <3>2 DEF Pit
  <2>2. blocked' \in [Flags -> BOOLEAN]
    BY <1>1 DEF Pit, TypeInv, Flags
  <2> QED
    BY <1>1, <2>1, <2>2, StillGood DEF Pit, TypeInv, GoodStacks
<1>2. CASE KbdIrq
  <2>1. GoodStacks(kstack') /\ esp' \in Ctx
    BY <1>0, <1>2, PushGood DEF KbdIrq, Room
  <2>2. keys' \in 0 .. MaxKeys
    BY <1>2 DEF KbdIrq, TypeInv
  <2> QED
    BY <1>2, <2>1, <2>2, StillGood DEF KbdIrq, TypeInv, GoodStacks
<1>3. ASSUME NEW c \in SysCalls, Call(c) PROVE TypeInv'
  <2>1. GoodStacks(kstack') /\ esp' \in Ctx
    BY <1>0, <1>3, PushGood DEF Call, UserMode, SysCalls
  <2> QED
    BY <1>3, <2>1, StillGood DEF Call, TypeInv, GoodStacks
<1> QED
  BY <1>1, <1>2, <1>3

LEMMA TypeInductive == TypeInv /\ [Next]_vars => TypeInv'
<1> SUFFICES ASSUME TypeInv, [Next]_vars PROVE TypeInv'
  OBVIOUS
<1>1. CASE Next
  BY <1>1, NextProcType, KeyboardType, ExecType, BlockType, InterruptType
     DEF Next, Execute, SysCall
<1>2. CASE UNCHANGED vars
  BY <1>2, StillGood DEF vars, TypeInv, TypeOK
<1> QED
  BY <1>1, <1>2

\* The process table, the stacks and the contexts stay well-formed: every
\* frame the CPU executes or returns to exists, current_proc is always a
\* process of the table, and no nesting of interrupts exceeds the stacks.
THEOREM TypeCorrect == Spec => []TypeOK
<1>1. TypeInv => TypeOK
  BY DEF TypeInv
<1> QED
  BY <1>1, InitType, TypeInductive, PTL DEF Spec

-----------------------------------------------------------------------------
(* Who runs: the invariant behind the switch.                              *)
(*                                                                         *)
(* A frame is safe if the process may be switched out on top of it, and    *)
(* critical if nothing but keyboard frames may come on top: a flag keeps   *)
(* the timer away, or the stretch is one of the windows.                   *)

Here(s, d) == [home |-> s, depth |-> d - 1]
KbdFrame(f) == f.by = "kbd" /\ f.pc \in {"kbd", "notify", "ack"}
CallPcs == {"getpid", "fork", "exec", "block", "sleep", "yield", "woken", "counted"}

SafeFrame(f, s, d) ==
    /\ f.ret = Here(s, d)
    /\ \/ f.by = "call" /\ d = 1 /\ f.it = s /\ f.pc \in CallPcs
       \/ f.by = "call" /\ d = 1 /\ f.it = s /\ f.pc \in {"args", "iret"} /\ f.arg = Here(s, d)
       \/ f.by = "yield" /\ f.pc \in {"scan", "ret"}
       \/ KbdFrame(f)
       \/ f.by = "pit" /\ d > 1 /\ f.pc = "iret" /\ f.arg = Here(s, d)

\* The frames of s up to the depth n can be left and come back to.
SafeColumn(s, n) == \A d \in 1 .. n : SafeFrame(kstack[s][d], s, d)

\* What resume will restore of p.
SavedOK(p) == saved[p].home = p /\ SafeColumn(p, saved[p].depth)

NobodyActive == \A p \in tab : status[p] # "active"

\* The critical frames: execve, the timer's switch under its flag, and the
\* windows of yield, launch and exec.
ExecFrame(f, s, d) ==
    /\ f.by = "call" /\ d = 1 /\ f.it = s /\ s = current
    /\ \/ f.pc \in {"execing", "launch"} /\ blocked["exec"]
       \/ f.pc = "resume" /\ saved[s] = UserOf(s) /\ status[s] = "active"

ChoiceFrame(f) ==
    \/ f.by = "pit" /\ f.pc \in {"scan", "ret"}
    \/ f.by \in {"pit", "yield"} /\ f.pc = "chosen" /\ status[f.it] # "sleeping"

\* From the swap_out to the iret the frame is on the stack s of the process
\* that is left, whose context ends below the frame.
MidPcs == {"swapped", "resume", "args", "iret"}
MidFrame(f, s, d) ==
    /\ f.by \in {"pit", "yield"}
    /\ \/ /\ f.pc = "swapped"
          /\ s = current /\ saved[s] = Here(s, d) /\ SavedOK(s)
          /\ NobodyActive /\ status[f.it] = "runnable"
       \/ /\ f.pc = "resume"
          /\ f.it = current /\ saved[s] = Here(s, d) /\ SavedOK(current)
          /\ NobodyActive /\ status[f.it] = "runnable"
       \/ /\ f.pc \in {"args", "iret"}
          /\ tss = current /\ status[current] = "active"
          /\ f.arg.home = current /\ SafeColumn(current, f.arg.depth)
          /\ IF s = current THEN f.arg = Here(s, d) ELSE saved[s] = Here(s, d)
          /\ f.pc = "iret" => f.by = "yield" \/ f.arg.depth = 0

Critical(f, s, d) ==
    /\ f.ret = Here(s, d)
    /\ f.by = "pit" /\ f.pc # "iret" => blocked["switch"]
    /\ ExecFrame(f, s, d) \/ ChoiceFrame(f) \/ MidFrame(f, s, d)

\* The stack of the process the CPU is on.
ColumnInv ==
    /\ esp.home \in tab
    /\ \A d \in 1 .. esp.depth :
         LET f == kstack[esp.home][d] IN
         \/ SafeFrame(f, esp.home, d)
         \/ /\ Critical(f, esp.home, d)
            /\ \A e \in d + 1 .. esp.depth : KbdFrame(kstack[esp.home][e])

IsMid(f) == \/ f.by = "yield" /\ f.pc \in MidPcs
            \/ f.by = "pit" /\ f.pc \in {"swapped", "resume", "args"}
            \/ f.by = "pit" /\ f.pc = "iret" /\ f.arg.depth = 0
Switching == \E d \in 1 .. esp.depth : IsMid(kstack[esp.home][d])

\* The process that runs is on its way to sleep, or is being replaced.
Drowsy ==
    /\ esp.depth > 0
    /\ \/ kstack[esp.home][1].pc \in {"yield", "launch"}
       \/ /\ esp.depth > 1
          /\ kstack[esp.home][1].pc = "woken"
          /\ kstack[esp.home][2].by = "yield"
          /\ kstack[esp.home][2].pc \in {"scan", "chosen"}

RunningInv ==
    ~Switching => /\ esp.home = current /\ tss = current
                  /\ status[current] = "active" \/ Drowsy

\* Until init is launched the CPU is on the boot stack.
BootInv ==
    LET f == kstack[Boot][1] IN
    /\ tab = {InitPid} /\ esp.depth > 0
    /\ f.by = "start" /\ f.it = InitPid
    /\ \/ f.pc = "launch" /\ blocked["init"]
       \/ f.pc = "resume" /\ saved[InitPid] = UserOf(InitPid) /\ status[InitPid] = "active"
       \/ /\ f.pc \in {"args", "iret"} /\ f.arg = UserOf(InitPid)
          /\ tss = InitPid /\ status[InitPid] = "active"
    /\ \A d \in 2 .. esp.depth :
         LET g == kstack[Boot][d] IN
         /\ g.ret = Here(Boot, d)
         /\ \/ KbdFrame(g)
            \/ /\ g.by = "pit" /\ g.pc \in {"scan", "chosen", "ret"} /\ blocked["switch"]
               /\ f.pc \in {"args", "iret"}
               /\ \A e \in d + 1 .. esp.depth : KbdFrame(kstack[Boot][e])

TaskInv ==
    /\ TypeInv
    /\ IF esp.home = Boot THEN BootInv ELSE ColumnInv /\ RunningInv
    /\ \A p \in tab : status[p] = "active" => p = current
    /\ \A p \in tab \ {current} : SavedOK(p)

\* The step leaves every frame alone but those of h from the depth n on.
OnlyAbove(h, n) ==
    \A s \in Stacks, d \in Depths : ~(s = h /\ d >= n) => kstack'[s][d] = kstack[s][d]

LEMMA ColumnKept ==
    ASSUME NEW h, NEW n \in Nat, OnlyAbove(h, n), NEW s \in Stacks, NEW m \in 0 .. MaxDepth,
           s # h \/ m < n, SafeColumn(s, m)
    PROVE  SafeColumn(s, m)'
<1>1. ASSUME NEW d \in 1 .. m PROVE kstack'[s][d] = kstack[s][d]
  <2>1. d \in Depths
    BY DepthAssumption DEF Depths
  <2>2. ~(s = h /\ d >= n)
    OBVIOUS
  <2> QED
    BY <2>1, <2>2 DEF OnlyAbove
<1> QED
  BY <1>1 DEF SafeColumn

LEMMA SavedKept ==
    ASSUME TypeInv, NEW h, NEW n \in Nat, OnlyAbove(h, n), NEW p \in Pids, saved'[p] = saved[p],
           p # h \/ saved[p].depth < n, SavedOK(p)
    PROVE  SavedOK(p)'
<1>1. PICK m \in 0 .. MaxDepth : m = saved[p].depth
  BY DEF TypeInv, TypeOK, Ctx
<1>2. SafeColumn(p, m)'
  BY <1>1, ColumnKept DEF SavedOK, Stacks
<1> QED
  BY <1>1, <1>2 DEF SavedOK

LEMMA SafeNotMid ==
    ASSUME NEW f, NEW s, NEW d \in Nat, SafeFrame(f, s, d)
    PROVE  ~IsMid(f)
BY DEF SafeFrame, IsMid, KbdFrame, Here, MidPcs, CallPcs

LEMMA KbdNotCritical ==
    ASSUME NEW f, NEW s, NEW d, KbdFrame(f)
    PROVE  ~Critical(f, s, d) /\ ~IsMid(f)
BY DEF KbdFrame, Critical, ExecFrame, ChoiceFrame, MidFrame, IsMid

\* The frame the CPU is at, on the stack of a process.
LEMMA AtTop ==
    ASSUME TaskInv, ~UserMode, esp.home # Boot
    PROVE  \E h \in tab, n \in Depths, f \in Frame :
             /\ h \in Pids /\ h # Boot /\ h \in Stacks /\ esp = [home |-> h, depth |-> n]
             /\ Top = f /\ kstack[h][n] = f /\ f.it \in tab
             /\ f.ret = Here(h, n)
             /\ SafeFrame(f, h, n) \/ Critical(f, h, n)
             /\ f.pc \in BlockPcs => n = 1
             /\ f.arg \in Ctx /\ f.arg.depth < MaxDepth
             /\ ~KbdFrame(f) =>
                  /\ SafeColumn(h, n - 1)
                  /\ IsMid(f) \/ /\ h = current /\ tss = current
                                 /\ status[current] = "active" \/ Drowsy
<1>0. TypeInv /\ ColumnInv /\ RunningInv
  BY DEF TaskInv
<1>1. PICK h, n, f : h = esp.home /\ n = esp.depth /\ f = kstack[h][n]
  OBVIOUS
<1>2. /\ h \in tab /\ h \in Pids /\ h # Boot /\ h \in Stacks /\ n \in Depths
      /\ esp = [home |-> h, depth |-> n] /\ Top = f
  BY <1>0, <1>1, TopGood DEF ColumnInv, TypeInv, TypeOK, Ctx, Top
<1>3. f \in Frame /\ f.it \in tab /\ (f.pc \in BlockPcs => n = 1) /\ f.arg.depth < MaxDepth
  BY <1>0, <1>2, TopGood DEF GoodFrame
<1>4. f.arg \in Ctx
  BY <1>3 DEF Frame
<1>5. n \in 1 .. n /\ n \in Nat
  BY <1>2 DEF Depths
<1>6. SafeFrame(f, h, n) \/ Critical(f, h, n)
  BY <1>0, <1>1, <1>5 DEF ColumnInv
<1>7. f.ret = Here(h, n)
  BY <1>6 DEF SafeFrame, Critical
<1>8. ASSUME ~KbdFrame(f)
      PROVE  /\ SafeColumn(h, n - 1)
             /\ IsMid(f) \/ /\ h = current /\ tss = current
                            /\ status[current] = "active" \/ Drowsy
  <2>1. ASSUME NEW d \in 1 .. n - 1
        PROVE  SafeFrame(kstack[h][d], h, d) /\ d \in Nat
    <3>1. d \in 1 .. n /\ n \in d + 1 .. n
      BY <1>5, <2>1
    <3>2. ~Critical(kstack[h][d], h, d) \/ ~(\A e \in d + 1 .. n : KbdFrame(kstack[h][e]))
      BY <1>1, <1>8, <3>1
    <3> QED
      BY <1>0, <1>1, <3>1, <3>2 DEF ColumnInv
  <2>2. SafeColumn(h, n - 1)
    BY <2>1 DEF SafeColumn
  <2>3. \A d \in 1 .. n - 1 : ~IsMid(kstack[h][d])
    BY <2>1, SafeNotMid
  <2>4. Switching => IsMid(f)
    <3> SUFFICES ASSUME NEW d \in 1 .. n, IsMid(kstack[h][d]) PROVE IsMid(f)
      BY <1>1 DEF Switching
    <3>1. d = n \/ d \in 1 .. n - 1
      BY <1>5
    <3> QED
      BY <1>1, <2>3, <3>1
  <2> QED
    BY <1>0, <1>1, <2>2, <2>4 DEF RunningInv
<1> QED
  BY <1>1, <1>2, <1>3, <1>4, <1>6, <1>7, <1>8

\* A state whose frames but the topmost are safe.
LEMMA Assemble ==
    ASSUME TypeInv', NEW h \in tab', NEW n \in 0 .. MaxDepth, NEW f,
           h # Boot, esp' = [home |-> h, depth |-> n],
           SafeColumn(h, n - 1)',
           n > 0 => kstack'[h][n] = f /\ (SafeFrame(f, h, n) \/ Critical(f, h, n)'),
           (n = 0 \/ ~IsMid(f)) => /\ h = current' /\ tss' = current'
                                   /\ status'[current'] = "active" \/ Drowsy',
           \A p \in tab' : status'[p] = "active" => p = current',
           \A p \in tab' : p # current' => SavedOK(p)'
    PROVE  TaskInv'
<1>1. esp'.home = h /\ esp'.depth = n
  OBVIOUS
<1>2. \A d \in 1 .. n : d \in 1 .. n - 1 \/ d = n
  OBVIOUS
<1>3. \A d \in 1 .. n - 1 : SafeFrame(kstack'[h][d], h, d)
  BY DEF SafeColumn
<1>4. \A e \in n + 1 .. n : KbdFrame(kstack'[h][e])
  OBVIOUS
<1>5. ASSUME NEW d \in 1 .. n
      PROVE  \/ SafeFrame(kstack'[h][d], h, d)
             \/ /\ Critical(kstack[h][d], h, d)'
                /\ \A e \in d + 1 .. n : KbdFrame(kstack'[h][e])
  <2>1. CASE d \in 1 .. n - 1
    BY <1>3, <2>1
  <2>2. CASE d = n
    <3>1. PICK g : g = kstack'[h][d]
      OBVIOUS
    <3>2. g = f /\ n > 0
      BY <2>2, <3>1
    <3>3. SafeFrame(g, h, d) \/ Critical(g, h, d)'
      BY <2>2, <3>2
    <3> QED
      BY <1>4, <2>2, <3>1, <3>3
  <2> QED
    BY <1>2, <2>1, <2>2
<1>6. ColumnInv'
  BY <1>1, <1>5 DEF ColumnInv
<1>7. RunningInv'
  <2>1. n > 0 /\ IsMid(f) => \E d \in 1 .. n : IsMid(kstack'[h][d])
    <3> SUFFICES ASSUME n > 0, IsMid(f) PROVE IsMid(kstack'[h][n]) /\ n \in 1 .. n
      OBVIOUS
    <3> QED
      OBVIOUS
  <2>2. n > 0 /\ IsMid(f) => Switching'
    BY <1>1, <2>1 DEF Switching, IsMid
  <2> QED
    BY <1>1, <2>2 DEF RunningInv
<1> QED
  BY <1>1, <1>6, <1>7 DEF TaskInv

\* An interrupt arrives on the stack the CPU is on, or would be in a system
\* call: in user mode the TSS names the stack of the process that runs.
LEMMA HomeIsEntry ==
    ASSUME TaskInv
    PROVE  /\ EntryHome = esp.home
           /\ \E h \in Stacks, n \in 0 .. MaxDepth : esp = [home |-> h, depth |-> n]
<1>1. \E h \in Stacks, n \in 0 .. MaxDepth : esp = [home |-> h, depth |-> n]
  BY DEF TaskInv, TypeInv, TypeOK, Ctx
<1>2. ASSUME UserMode PROVE tss = esp.home
  <2>1. esp.home # Boot
    BY <1>2 DEF TaskInv, BootInv, UserMode
  <2>2. \A d \in 1 .. esp.depth : FALSE
    BY <1>2 DEF UserMode
  <2>3. ~Switching
    BY <2>2 DEF Switching
  <2> QED
    BY <2>1, <2>3 DEF TaskInv, RunningInv
<1> QED
  BY <1>1, <1>2 DEF EntryHome

\* While another process is switched to, the one that is left is saved below
\* the frame that switches.
LEMMA MidSaved ==
    ASSUME TaskInv, esp.home # Boot, esp.home # current
    PROVE  \E d \in 1 .. esp.depth : /\ IsMid(kstack[esp.home][d])
                                     /\ saved[esp.home] = Here(esp.home, d)
<1>1. PICK h, n : h = esp.home /\ n = esp.depth
  OBVIOUS
<1>2. ColumnInv /\ RunningInv
  BY DEF TaskInv
<1>3. PICK d \in 1 .. n : IsMid(kstack[h][d])
  BY <1>1, <1>2 DEF RunningInv, Switching
<1>4. PICK f : f = kstack[h][d]
  OBVIOUS
<1>5. ~SafeFrame(f, h, d)
  BY <1>3, <1>4, SafeNotMid
<1>6. Critical(f, h, d)
  BY <1>1, <1>2, <1>3, <1>4, <1>5 DEF ColumnInv
<1>7. MidFrame(f, h, d)
  BY <1>1, <1>3, <1>4, <1>6 DEF Critical, ExecFrame, ChoiceFrame, IsMid, MidPcs
<1>8. saved[h] = Here(h, d)
  BY <1>1, <1>7 DEF MidFrame
<1> QED
  BY <1>1, <1>3, <1>8

\* A step that leaves alone who runs, who is saved and the three flags that
\* last, and of the stack of h the frames below the depth m.
Undisturbed(h, m) ==
    /\ OnlyAbove(h, m)
    /\ UNCHANGED <<tab, saved, tss, current>>
    /\ \A p \in Pids : /\ status'[p] = "active" <=> status[p] = "active"
                       /\ status[p] = "runnable" => status'[p] = "runnable"
                       /\ status[p] # "sleeping" => status'[p] # "sleeping"
    /\ \A x \in {"switch", "exec", "init"} : blocked'[x] = blocked[x]

LEMMA CriticalKept ==
    ASSUME TypeInv, NEW h \in Pids, NEW m \in Nat, Undisturbed(h, m),
           NEW d \in Nat, d > 0, d < m, NEW f \in Frame, f.it \in tab, Critical(f, h, d)
    PROVE  Critical(f, h, d)'
<1>0. /\ OnlyAbove(h, m) /\ tab' = tab /\ saved' = saved /\ tss' = tss /\ current' = current
      /\ blocked'["switch"] = blocked["switch"] /\ blocked'["exec"] = blocked["exec"]
  BY DEF Undisturbed
<1>1. /\ tab \subseteq Pids /\ current \in Pids /\ f.it \in Pids
      /\ \A p \in Pids : saved[p] \in Ctx
  BY DEF TypeInv, TypeOK
<1>2. \A p \in Pids : /\ status'[p] = "active" <=> status[p] = "active"
                      /\ status[p] = "runnable" => status'[p] = "runnable"
                      /\ status[p] # "sleeping" => status'[p] # "sleeping"
  BY DEF Undisturbed
<1>3. CASE ExecFrame(f, h, d)
  <2>1. ExecFrame(f, h, d)'
    BY <1>0, <1>1, <1>2, <1>3 DEF ExecFrame
  <2> QED
    BY <1>0, <2>1 DEF Critical
<1>4. CASE ChoiceFrame(f)
  <2>1. ChoiceFrame(f)'
    BY <1>1, <1>2, <1>4 DEF ChoiceFrame
  <2> QED
    BY <1>0, <2>1 DEF Critical
<1>5. CASE MidFrame(f, h, d)
  <2>1. NobodyActive => NobodyActive'
    BY <1>0, <1>1, <1>2 DEF NobodyActive
  <2>2. Here(h, d).depth < m
    BY DEF Here
  <2>3. CASE f.pc = "swapped"
    <3>1. SavedOK(h) /\ saved[h].depth < m /\ h = current /\ NobodyActive
          /\ status[f.it] = "runnable" /\ saved[h] = Here(h, d)
      BY <1>5, <2>2, <2>3 DEF MidFrame
    <3>2. SavedOK(h)'
      BY <1>0, <3>1, SavedKept
    <3>3. MidFrame(f, h, d)'
      BY <1>0, <1>1, <1>2, <1>5, <2>1, <2>3, <3>1, <3>2 DEF MidFrame
    <3> QED
      BY <1>0, <3>3 DEF Critical
  <2>4. CASE f.pc = "resume"
    <3>1. SavedOK(current) /\ NobodyActive /\ f.it = current
          /\ status[f.it] = "runnable" /\ saved[h] = Here(h, d)
      BY <1>5, <2>4 DEF MidFrame
    <3>2. PICK c \in Pids : c = current
      BY <1>1
    <3>3. c # h \/ saved[c].depth < m
      BY <2>2, <3>1, <3>2
    <3>4. SavedOK(c)'
      BY <1>0, <3>1, <3>2, <3>3, SavedKept
    <3>5. SavedOK(current)'
      BY <1>0, <3>2, <3>4 DEF SavedOK, SafeColumn
    <3>6. MidFrame(f, h, d)'
      BY <1>0, <1>1, <1>2, <1>5, <2>1, <2>4, <3>1, <3>5 DEF MidFrame
    <3> QED
      BY <1>0, <3>6 DEF Critical
  <2>5. CASE f.pc \in {"args", "iret"}
    <3>1. /\ SafeColumn(current, f.arg.depth)
          /\ IF h = current THEN f.arg = Here(h, d) ELSE saved[h] = Here(h, d)
          /\ tss = current /\ status[current] = "active" /\ f.arg.home = current
      BY <1>5, <2>5 DEF MidFrame
    <3>2. PICK c \in Pids, k \in 0 .. MaxDepth : c = current /\ k = f.arg.depth
      BY <1>1 DEF Frame, Ctx
    <3>3. c # h \/ k < m
      BY <2>2, <3>1, <3>2
    <3>4. SafeColumn(c, k)'
      BY <1>0, <3>1, <3>2, <3>3, ColumnKept DEF Stacks
    <3>5. SafeColumn(current, f.arg.depth)'
      BY <1>0, <3>2, <3>4 DEF SafeColumn
    <3>6. MidFrame(f, h, d)'
      BY <1>0, <1>1, <1>2, <1>5, <2>5, <3>1, <3>5 DEF MidFrame
    <3> QED
      BY <1>0, <3>6 DEF Critical
  <2> QED
    BY <1>5, <2>3, <2>4, <2>5 DEF MidFrame
<1> QED
  BY <1>3, <1>4, <1>5 DEF Critical

\* Keyboard frames come and go above the depth m; nothing else changes.
KbdAbove(h, m, n, k) ==
    /\ Undisturbed(h, m)
    /\ m \in 1 .. n + 1 /\ m <= k + 1
    /\ \A d \in m .. n : KbdFrame(kstack[h][d])
    /\ \A d \in m .. k : KbdFrame(kstack'[h][d]) /\ kstack'[h][d].ret = Here(h, d)

LEMMA KbdColumn ==
    ASSUME TaskInv, TypeInv', NEW h \in Pids, NEW n \in 0 .. MaxDepth, NEW k \in 0 .. MaxDepth,
           NEW m \in Nat, h # Boot,
           esp = [home |-> h, depth |-> n], esp' = [home |-> h, depth |-> k],
           KbdAbove(h, m, n, k)
    PROVE  TaskInv'
<1>0. /\ Undisturbed(h, m) /\ m \in 1 .. n + 1 /\ m <= k + 1
      /\ esp.home = h /\ esp.depth = n /\ esp'.home = h /\ esp'.depth = k
  BY DEF KbdAbove
<1>1. TypeInv /\ ColumnInv /\ RunningInv
  BY <1>0 DEF TaskInv
<1>2. /\ OnlyAbove(h, m) /\ tab' = tab /\ saved' = saved /\ tss' = tss /\ current' = current
      /\ \A p \in Pids : status'[p] = "active" <=> status[p] = "active"
  BY <1>0 DEF Undisturbed
<1>3. current \in Pids /\ tab \subseteq Pids /\ h \in tab
  BY <1>0, <1>1 DEF TypeInv, TypeOK, ColumnInv
<1>4. ASSUME NEW d \in 1 .. m - 1
      PROVE  d \in Depths /\ d \in 1 .. n /\ d \in 1 .. k /\ kstack'[h][d] = kstack[h][d]
  <2>1. d \in Depths /\ ~(d >= m) /\ d \in 1 .. n /\ d \in 1 .. k
    <3>1. m <= n + 1 /\ m <= k + 1 /\ n \in Nat /\ k \in Nat /\ n <= MaxDepth
      BY <1>0
    <3>2. d \in Nat /\ d >= 1 /\ d <= m - 1
      OBVIOUS
    <3>3. d <= n /\ d <= k /\ ~(d >= m)
      BY <3>1, <3>2
    <3>4. d <= MaxDepth
      BY <3>1, <3>2, <3>3, DepthAssumption
    <3> QED
      BY <3>1, <3>2, <3>3, <3>4 DEF Depths
  <2>2. h \in Stacks /\ ~(h = h /\ d >= m)
    BY <2>1 DEF Stacks
  <2>3. \A s \in Stacks, e \in Depths : ~(s = h /\ e >= m) => kstack'[s][e] = kstack[s][e]
    BY <1>2 DEF OnlyAbove
  <2> QED
    BY <2>1, <2>2, <2>3
<1>5. \A d \in m .. k : KbdFrame(kstack'[h][d]) /\ SafeFrame(kstack'[h][d], h, d)
  BY DEF KbdAbove, SafeFrame
<1>6. \A d \in m .. n : KbdFrame(kstack[h][d]) /\ ~IsMid(kstack[h][d])
  <2>1. \A d \in m .. n : KbdFrame(kstack[h][d])
    BY DEF KbdAbove
  <2> QED
    BY <2>1 DEF KbdFrame, IsMid
<1>7. ASSUME NEW d \in 1 .. k
      PROVE  \/ SafeFrame(kstack'[h][d], h, d)
             \/ /\ Critical(kstack[h][d], h, d)'
                /\ \A e \in d + 1 .. k : KbdFrame(kstack'[h][e])
  <2>1. CASE d >= m
    <3>1. d \in m .. k
      BY <2>1, <1>0
    <3> QED
      BY <1>5, <3>1
  <2>2. CASE d < m
    <3>1. d \in 1 .. m - 1
      BY <1>0, <2>2
    <3>2. PICK f : f = kstack[h][d]
      OBVIOUS
    <3>3. /\ d \in Depths /\ d \in 1 .. n /\ kstack'[h][d] = f
          /\ f \in Frame /\ f.it \in tab
      BY <1>1, <1>4, <3>1, <3>2 DEF TypeInv, GoodStacks, GoodFrame, Stacks
    <3>4. CASE SafeFrame(f, h, d)
      BY <3>3, <3>4
    <3>5. CASE ~SafeFrame(f, h, d)
      <4>1. Critical(f, h, d) /\ \A e \in d + 1 .. n : KbdFrame(kstack[h][e])
        BY <1>0, <1>1, <3>2, <3>3, <3>5 DEF ColumnInv
      <4>2. Critical(f, h, d)'
        BY <1>0, <1>1, <2>2, <3>3, <4>1, CriticalKept
      <4>3. ASSUME NEW e \in d + 1 .. k PROVE KbdFrame(kstack'[h][e])
        <5>1. CASE e >= m
          BY <1>0, <1>5, <5>1
        <5>2. CASE e < m
          <6>1. e \in 1 .. m - 1 /\ e \in d + 1 .. n
            BY <1>0, <5>2
          <6> QED
            BY <1>4, <4>1, <6>1
        <5> QED
          BY <1>0, <5>1, <5>2
      <4>4. Critical(kstack[h][d], h, d)'
        BY <3>3, <4>2
      <4> QED
        BY <4>3, <4>4
    <3> QED
      BY <3>4, <3>5
  <2> QED
    BY <1>0, <2>1, <2>2
<1>8. ColumnInv'
  BY <1>0, <1>2, <1>3, <1>7 DEF ColumnInv
<1>9. Switching => Switching'
  <2> SUFFICES ASSUME NEW d \in 1 .. n, IsMid(kstack[h][d]) PROVE \E e \in 1 .. k : IsMid(kstack'[h][e])
    BY <1>0 DEF Switching, IsMid
  <2>1. d \in 1 .. m - 1
    BY <1>0, <1>6
  <2> QED
    BY <1>4, <2>1
<1>10. Drowsy => Drowsy'
  <2> SUFFICES ASSUME Drowsy PROVE Drowsy'
    OBVIOUS
  <2>1. n > 0
    BY <1>0 DEF Drowsy
  <2>2. CASE kstack[h][1].pc \in {"yield", "launch"}
    <3>1. ~(1 \in m .. n)
      BY <1>6, <2>2 DEF KbdFrame
    <3>2. 1 \in 1 .. m - 1
      BY <1>0, <2>1, <3>1
    <3> QED
      BY <1>0, <1>4, <2>2, <3>2 DEF Drowsy
  <2>3. CASE ~(kstack[h][1].pc \in {"yield", "launch"})
    <3>1. /\ n > 1 /\ kstack[h][1].pc = "woken" /\ kstack[h][2].by = "yield"
          /\ kstack[h][2].pc \in {"scan", "chosen"}
      BY <1>0, <2>3 DEF Drowsy
    <3>2. ~(2 \in m .. n)
      BY <1>6, <3>1 DEF KbdFrame
    <3>3. 1 \in 1 .. m - 1 /\ 2 \in 1 .. m - 1
      BY <1>0, <3>1, <3>2
    <3>4. k > 1
      BY <1>0, <3>3
    <3> QED
      BY <1>0, <1>4, <3>1, <3>3, <3>4 DEF Drowsy
  <2> QED
    BY <2>2, <2>3
<1>11. RunningInv'
  BY <1>0, <1>1, <1>2, <1>3, <1>9, <1>10 DEF RunningInv
<1>12. ASSUME NEW p \in tab, p # current PROVE SavedOK(p)'
  <2>1. SavedOK(p)
    BY <1>12 DEF TaskInv
  <2>2. CASE p = h
    <3>1. PICK d \in 1 .. n : IsMid(kstack[h][d]) /\ saved[h] = Here(h, d)
      BY <1>0, <1>12, <2>2, MidSaved
    <3>2. d < m
      BY <1>0, <1>6, <3>1
    <3>3. saved[p].depth < m
      BY <2>2, <3>1, <3>2 DEF Here
    <3> QED
      BY <1>0, <1>1, <1>2, <1>3, <2>1, <3>3, SavedKept
  <2> QED
    BY <1>0, <1>1, <1>2, <1>3, <2>1, <2>2, SavedKept
<1>13. \A p \in tab' : status'[p] = "active" => p = current'
  BY <1>2, <1>3 DEF TaskInv
<1>14. \A p \in tab' \ {current'} : SavedOK(p)'
  BY <1>2, <1>12
<1> QED
  BY <1>0, <1>8, <1>11, <1>13, <1>14 DEF TaskInv

\* What lies above the first frame of the boot stack.
LEMMA BootColumn ==
    ASSUME TaskInv, NEW n, esp = [home |-> Boot, depth |-> n], NEW d \in 2 .. n
    PROVE  /\ kstack[Boot][d].ret = Here(Boot, d)
           /\ \/ KbdFrame(kstack[Boot][d])
              \/ /\ kstack[Boot][d].by = "pit" /\ kstack[Boot][d].pc \in {"scan", "chosen", "ret"}
                 /\ blocked["switch"] /\ kstack[Boot][1].pc \in {"args", "iret"}
                 /\ \A e \in d + 1 .. n : KbdFrame(kstack[Boot][e])
<1>1. esp.home = Boot /\ esp.depth = n
  OBVIOUS
<1>2. BootInv
  BY <1>1 DEF TaskInv
<1>3. \A j \in 2 .. esp.depth :
         LET g == kstack[Boot][j] IN
         /\ g.ret = Here(Boot, j)
         /\ \/ KbdFrame(g)
            \/ /\ g.by = "pit" /\ g.pc \in {"scan", "chosen", "ret"} /\ blocked["switch"]
               /\ kstack[Boot][1].pc \in {"args", "iret"}
               /\ \A e \in j + 1 .. esp.depth : KbdFrame(kstack[Boot][e])
  BY <1>2, Zenon DEF BootInv
<1> QED
  BY <1>1, <1>3

LEMMA KbdBoot ==
    ASSUME TaskInv, TypeInv', NEW n \in 0 .. MaxDepth, NEW k \in 0 .. MaxDepth,
           NEW m \in Nat,
           esp = [home |-> Boot, depth |-> n], esp' = [home |-> Boot, depth |-> k],
           KbdAbove(Boot, m, n, k)
    PROVE  TaskInv'
<1>0. /\ Undisturbed(Boot, m) /\ m \in 1 .. n + 1 /\ m <= k + 1
      /\ esp.home = Boot /\ esp.depth = n /\ esp'.home = Boot /\ esp'.depth = k
  BY DEF KbdAbove
<1>1. TypeInv /\ BootInv
  BY <1>0 DEF TaskInv
<1>2. /\ OnlyAbove(Boot, m) /\ tab' = tab /\ saved' = saved /\ tss' = tss /\ current' = current
      /\ \A p \in Pids : status'[p] = "active" <=> status[p] = "active"
      /\ blocked'["switch"] = blocked["switch"] /\ blocked'["init"] = blocked["init"]
  BY <1>0 DEF Undisturbed
<1>3. current \in Pids /\ tab \subseteq Pids /\ n > 0
  BY <1>0, <1>1 DEF TypeInv, TypeOK, BootInv
<1>4. ASSUME NEW d \in 1 .. m - 1
      PROVE  d \in 1 .. n /\ d \in 1 .. k /\ kstack'[Boot][d] = kstack[Boot][d]
  <2>1. d \in Depths /\ ~(d >= m) /\ d \in 1 .. n /\ d \in 1 .. k
    <3>1. m <= n + 1 /\ m <= k + 1 /\ n \in Nat /\ k \in Nat /\ n <= MaxDepth
      BY <1>0
    <3>2. d \in Nat /\ d >= 1 /\ d <= m - 1
      OBVIOUS
    <3>3. d <= n /\ d <= k /\ ~(d >= m)
      BY <3>1, <3>2
    <3>4. d <= MaxDepth
      BY <3>1, <3>2, <3>3, DepthAssumption
    <3> QED
      BY <3>1, <3>2, <3>3, <3>4 DEF Depths
  <2>2. Boot \in Stacks /\ ~(Boot = Boot /\ d >= m)
    BY <2>1 DEF Stacks
  <2>3. \A s \in Stacks, e \in Depths : ~(s = Boot /\ e >= m) => kstack'[s][e] = kstack[s][e]
    BY <1>2 DEF OnlyAbove
  <2> QED
    BY <2>1, <2>2, <2>3
<1>5. \A d \in m .. k : KbdFrame(kstack'[Boot][d]) /\ kstack'[Boot][d].ret = Here(Boot, d)
  BY DEF KbdAbove
<1>6. \A d \in m .. n : KbdFrame(kstack[Boot][d])
  BY DEF KbdAbove
<1>7. 1 \in 1 .. m - 1
  <2>1. kstack[Boot][1].by = "start"
    BY <1>1 DEF BootInv
  <2>2. ~(1 \in m .. n)
    BY <1>6, <2>1 DEF KbdFrame
  <2> QED
    BY <1>0, <1>3, <2>2
<1>8. PICK f : f = kstack[Boot][1] /\ f = kstack'[Boot][1]
  BY <1>4, <1>7
<1>9. ASSUME NEW d \in 2 .. k
      PROVE  LET g == kstack'[Boot][d] IN
             /\ g.ret = Here(Boot, d)
             /\ \/ KbdFrame(g)
                \/ /\ g.by = "pit" /\ g.pc \in {"scan", "chosen", "ret"} /\ blocked'["switch"]
                   /\ f.pc \in {"args", "iret"}
                   /\ \A e \in d + 1 .. k : KbdFrame(kstack'[Boot][e])
  <2>1. CASE d >= m
    <3>1. d \in m .. k
      BY <1>0, <2>1
    <3> QED
      BY <1>5, <3>1
  <2>2. CASE d < m
    <3>1. d \in 1 .. m - 1
      BY <1>0, <2>2
    <3>2. PICK g : g = kstack[Boot][d] /\ g = kstack'[Boot][d] /\ d \in 2 .. n
      BY <1>4, <3>1
    <3>3. /\ g.ret = Here(Boot, d)
          /\ \/ KbdFrame(g)
             \/ /\ g.by = "pit" /\ g.pc \in {"scan", "chosen", "ret"} /\ blocked["switch"]
                /\ f.pc \in {"args", "iret"}
                /\ \A e \in d + 1 .. n : KbdFrame(kstack[Boot][e])
      BY <1>8, <3>2, BootColumn
    <3>4. CASE KbdFrame(g)
      BY <3>2, <3>3, <3>4
    <3>5. CASE ~KbdFrame(g)
      <4>1. ASSUME NEW e \in d + 1 .. k PROVE KbdFrame(kstack'[Boot][e])
        <5>1. CASE e >= m
          BY <1>0, <1>5, <5>1
        <5>2. CASE e < m
          <6>1. e \in 1 .. m - 1 /\ e \in d + 1 .. n
            BY <1>0, <5>2
          <6> QED
            BY <1>4, <3>3, <3>5, <6>1
        <5> QED
          BY <1>0, <5>1, <5>2
      <4> QED
        BY <1>2, <3>2, <3>3, <3>5, <4>1
    <3> QED
      BY <3>4, <3>5
  <2> QED
    BY <1>0, <2>1, <2>2
<1>10. BootInv'
  <2>1. tab' = {InitPid} /\ f.by = "start" /\ f.it = InitPid
    BY <1>1, <1>2, <1>8 DEF BootInv
  <2>3. k > 0
    BY <1>0, <1>7
  <2>2. \/ f.pc = "launch" /\ blocked'["init"]
        \/ f.pc = "resume" /\ saved'[InitPid] = UserOf(InitPid) /\ status'[InitPid] = "active"
        \/ /\ f.pc \in {"args", "iret"} /\ f.arg = UserOf(InitPid)
           /\ tss' = InitPid /\ status'[InitPid] = "active"
    <3>1. PICK g : g = kstack[Boot][1]
      OBVIOUS
    <3>2. \/ g.pc = "launch" /\ blocked["init"]
          \/ g.pc = "resume" /\ saved[InitPid] = UserOf(InitPid) /\ status[InitPid] = "active"
          \/ /\ g.pc \in {"args", "iret"} /\ g.arg = UserOf(InitPid)
             /\ tss = InitPid /\ status[InitPid] = "active"
      BY <1>1, <3>1, Zenon DEF BootInv
    <3>3. g = f
      BY <1>8, <3>1
    <3>4. /\ status[InitPid] = "active" => status'[InitPid] = "active"
          /\ saved'[InitPid] = saved[InitPid] /\ tss' = tss
      <4>1. InitPid \in Pids
        BY PidsAssumption
      <4> QED
        BY <1>2, <4>1, Zenon
    <3>5. CASE f.pc = "launch" /\ blocked["init"]
      BY <1>2, <3>5, Zenon
    <3>6. CASE f.pc = "resume" /\ saved[InitPid] = UserOf(InitPid) /\ status[InitPid] = "active"
      BY <3>4, <3>6, Zenon
    <3>7. CASE /\ f.pc \in {"args", "iret"} /\ f.arg = UserOf(InitPid)
               /\ tss = InitPid /\ status[InitPid] = "active"
      BY <3>4, <3>7, Zenon
    <3> QED
      BY <3>2, <3>3, <3>5, <3>6, <3>7, Zenon
  <2> QED
    BY <1>0, <1>8, <1>9, <2>1, <2>2, <2>3 DEF BootInv
<1>11. \A p \in tab' : status'[p] = "active" => p = current'
  BY <1>2, <1>3 DEF TaskInv
<1>12. \A p \in tab' \ {current'} : SavedOK(p)'
  BY <1>1, <1>2 DEF BootInv, TypeInv, TypeOK
<1> QED
  BY <1>0, <1>10, <1>11, <1>12 DEF TaskInv

\* The keyboard frames that the step changes are above m on the stack the CPU
\* is on.
LEMMA KbdSafe ==
    ASSUME TaskInv, TypeInv', NEW h \in Stacks, NEW n \in 0 .. MaxDepth, NEW k \in 0 .. MaxDepth,
           NEW m \in Nat, esp = [home |-> h, depth |-> n], esp' = [home |-> h, depth |-> k],
           KbdAbove(h, m, n, k)
    PROVE  TaskInv'
BY KbdBoot, KbdColumn DEF Stacks

\* A keyboard frame at the top returns to the frame below it.
LEMMA KbdTop ==
    ASSUME TaskInv, ~UserMode, Top.pc \in {"kbd", "notify", "ack"}
    PROVE  \E h \in Stacks, n \in Depths, f \in Frame :
             /\ esp = [home |-> h, depth |-> n] /\ f = kstack[h][n] /\ f = Top
             /\ KbdFrame(f) /\ f.ret = Here(h, n)
<1>1. CASE esp.home # Boot
  <2>1. PICK h \in tab, n \in Depths, f \in Frame :
             /\ h \in Stacks /\ esp = [home |-> h, depth |-> n]
             /\ Top = f /\ kstack[h][n] = f
             /\ f.ret = Here(h, n)
             /\ SafeFrame(f, h, n) \/ Critical(f, h, n)
    BY <1>1, AtTop
  <2>2. KbdFrame(f)
    BY <2>1 DEF SafeFrame, Critical, ExecFrame, ChoiceFrame, MidFrame, KbdFrame, CallPcs
  <2> QED
    BY <2>1, <2>2
<1>2. CASE esp.home = Boot
  <2>1. TypeInv /\ BootInv
    BY <1>2 DEF TaskInv
  <2>2. PICK n, f : esp.depth = n /\ f = kstack[Boot][n]
    OBVIOUS
  <2>3. Boot \in Stacks /\ n \in Depths /\ f \in Frame /\ f = Top /\ esp = [home |-> Boot, depth |-> n]
    BY <1>2, <2>1, <2>2, TopGood DEF Stacks, GoodFrame, TypeInv, TypeOK, Ctx
  <2>4. n # 1
    BY <2>1, <2>2, <2>3 DEF BootInv
  <2>5. n \in 2 .. n
    BY <2>3, <2>4 DEF Depths
  <2>6. KbdFrame(f) /\ f.ret = Here(Boot, n)
    <3>1. f.pc \in {"kbd", "notify", "ack"}
      BY <2>3
    <3>2. /\ f.ret = Here(Boot, n)
          /\ KbdFrame(f) \/ f.pc \in {"scan", "chosen", "ret"}
      BY <2>2, <2>3, <2>5, BootColumn
    <3> QED
      BY <3>1, <3>2
  <2> QED
    BY <2>2, <2>3, <2>6
<1> QED
  BY <1>1, <1>2

LEMMA PutAbove ==
    ASSUME TypeInv, NEW h \in Stacks, NEW n \in Depths, NEW g,
           kstack' = [kstack EXCEPT ![h][n] = g]
    PROVE  OnlyAbove(h, n) /\ kstack'[h][n] = g
<1>1. kstack \in [Stacks -> [Depths -> Frame]]
  BY DEF TypeInv, GoodStacks
<1>2. ASSUME NEW s \in Stacks, NEW d \in Depths, ~(s = h /\ d >= n)
      PROVE  kstack'[s][d] = kstack[s][d]
  <2>1. s # h \/ d # n
    BY <1>2 DEF Depths
  <2> QED
    BY <1>1, <2>1
<1> QED
  BY <1>1, <1>2 DEF OnlyAbove

\* What the keyboard interrupt leaves alone, status included.
LEMMA Untouched ==
    ASSUME NEW h, NEW m, OnlyAbove(h, m), UNCHANGED <<tab, status, saved, tss, current>>,
           \A x \in {"switch", "exec", "init"} : blocked'[x] = blocked[x]
    PROVE  Undisturbed(h, m)
<1>1. tab' = tab /\ status' = status /\ saved' = saved /\ tss' = tss /\ current' = current
  OBVIOUS
<1>2. \A p \in Pids : status'[p] = status[p]
  BY <1>1
<1> QED
  BY <1>1, <1>2 DEF Undisturbed

LEMMA OtherFlags ==
    ASSUME TypeInv, NEW v, blocked' = [blocked EXCEPT !["notify"] = v]
    PROVE  \A x \in {"switch", "exec", "init"} : blocked'[x] = blocked[x]
<1>1. blocked \in [Flags -> BOOLEAN]
  BY DEF TypeInv, TypeOK
<1> QED
  BY <1>1 DEF Flags

LEMMA PushKept ==
    ASSUME TaskInv, Room, NEW pc, NEW by, Push(kstack, pc, by)
    PROVE  \E h, n, g :
             /\ h \in Stacks /\ n \in 0 .. MaxDepth
             /\ n + 1 \in Depths /\ n + 1 < MaxDepth
             /\ esp = [home |-> h, depth |-> n] /\ esp' = [home |-> h, depth |-> n + 1]
             /\ OnlyAbove(h, n + 1)
             /\ kstack'[h][n + 1] = g /\ g.pc = pc /\ g.by = by /\ g.it = current
             /\ g.ret = Here(h, n + 1)
<1>1. TypeInv
  BY DEF TaskInv
<1>2. PICK h \in Stacks, n \in 0 .. MaxDepth : esp = [home |-> h, depth |-> n] /\ EntryHome = h
  BY HomeIsEntry
<1>3. n + 1 \in Depths /\ n + 1 < MaxDepth
  BY <1>2 DEF Room, Depths
<1> DEFINE g == [pc |-> pc, by |-> by, it |-> current, ret |-> esp, arg |-> Dead.arg]
<1>4. /\ kstack' = [kstack EXCEPT ![h][n + 1] = g]
      /\ esp' = [home |-> h, depth |-> n + 1]
  BY <1>2 DEF Push
<1>5. g.pc = pc /\ g.by = by /\ g.it = current /\ g.ret = Here(h, n + 1)
  BY <1>2 DEF Here
<1> HIDE DEF g
<1>6. OnlyAbove(h, n + 1) /\ kstack'[h][n + 1] = g
  <2>1. PICK d \in Depths : d = n + 1
    BY <1>3
  <2>2. kstack' = [kstack EXCEPT ![h][d] = g]
    BY <1>4, <2>1
  <2>3. OnlyAbove(h, d) /\ kstack'[h][d] = g
    BY <1>1, <2>2, PutAbove
  <2> QED
    BY <2>1, <2>3
<1> QED
  BY <1>2, <1>3, <1>4, <1>5, <1>6

LEMMA KbdIrqInv == TaskInv /\ TypeInv' /\ KbdIrq => TaskInv'
<1> SUFFICES ASSUME TaskInv, TypeInv', KbdIrq PROVE TaskInv'
  OBVIOUS
<1>1. PICK h, n, g :
             /\ h \in Stacks /\ n \in 0 .. MaxDepth
             /\ n + 1 \in Depths /\ n + 1 < MaxDepth
             /\ esp = [home |-> h, depth |-> n] /\ esp' = [home |-> h, depth |-> n + 1]
             /\ OnlyAbove(h, n + 1)
             /\ kstack'[h][n + 1] = g /\ g.pc = "kbd" /\ g.by = "kbd" /\ g.it = current
             /\ g.ret = Here(h, n + 1)
  BY PushKept DEF KbdIrq
<1>2. Undisturbed(h, n + 1)
  BY <1>1, Untouched DEF KbdIrq
<1>3. KbdAbove(h, n + 1, n, n + 1)
  <2>1. \A d \in n + 1 .. n : FALSE
    BY <1>1
  <2>2. \A d \in n + 1 .. n + 1 : d = n + 1
    OBVIOUS
  <2>3. KbdFrame(g)
    BY <1>1 DEF KbdFrame
  <2>4. n + 1 \in 1 .. n + 1
    BY <1>1
  <2>5. \A d \in n + 1 .. n + 1 : KbdFrame(kstack'[h][d]) /\ kstack'[h][d].ret = Here(h, d)
    BY <1>1, <2>2, <2>3
  <2> QED
    BY <1>2, <2>1, <2>4, <2>5 DEF KbdAbove
<1>4. n + 1 \in 0 .. MaxDepth /\ n + 1 \in Nat
  BY <1>1 DEF Depths
<1> QED
  BY <1>1, <1>3, <1>4, KbdSafe

\* The top frame is a keyboard frame and stays one.
LEMMA KbdGoto ==
    ASSUME TaskInv, TypeInv', ~UserMode, Top.pc \in {"kbd", "notify", "ack"},
           NEW pc \in {"kbd", "notify", "ack"}, Goto(pc),
           UNCHANGED <<tab, status, saved, tss, current>>,
           \A x \in {"switch", "exec", "init"} : blocked'[x] = blocked[x]
    PROVE  TaskInv'
<1>1. TypeInv
  BY DEF TaskInv
<1>2. PICK h \in Stacks, n \in Depths, f \in Frame :
             /\ esp = [home |-> h, depth |-> n] /\ f = kstack[h][n] /\ f = Top
             /\ KbdFrame(f) /\ f.ret = Here(h, n)
  BY KbdTop
<1>3. PICK g : g = [f EXCEPT !.pc = pc]
  OBVIOUS
<1>4. KbdFrame(g) /\ g.ret = Here(h, n)
  BY <1>2, <1>3 DEF KbdFrame, Frame
<1>5. kstack' = [kstack EXCEPT ![h][n] = g] /\ esp' = esp
  BY <1>1, <1>2, <1>3 DEF Goto
<1>6. OnlyAbove(h, n) /\ kstack'[h][n] = g
  BY ONLY <1>1, <1>5, PutAbove
<1>7. Undisturbed(h, n)
  BY <1>6, Untouched
<1>8. \A d \in n .. n : d = n
  BY DEF Depths
<1>9. n \in 1 .. n + 1 /\ n <= n + 1 /\ n \in 0 .. MaxDepth /\ n \in Nat
  BY DEF Depths
<1>10. KbdAbove(h, n, n, n)
  <2>1. \A d \in n .. n : KbdFrame(kstack[h][d])
    BY <1>2, <1>8
  <2>2. \A d \in n .. n : KbdFrame(kstack'[h][d]) /\ kstack'[h][d].ret = Here(h, d)
    BY <1>4, <1>6, <1>8
  <2> QED
    BY <1>7, <1>9, <2>1, <2>2 DEF KbdAbove
<1> QED
  BY <1>2, <1>5, <1>9, <1>10, KbdSafe

LEMMA KbdReadInv == TaskInv /\ TypeInv' /\ KbdRead => TaskInv'
<1> SUFFICES ASSUME TaskInv, TypeInv', KbdRead PROVE TaskInv'
  OBVIOUS
<1>1. TypeInv
  BY DEF TaskInv
<1>2. \A x \in {"switch", "exec", "init"} : blocked'[x] = blocked[x]
  <2>1. (\E v : blocked' = [blocked EXCEPT !["notify"] = v]) \/ blocked' = blocked
    BY DEF KbdRead
  <2> QED
    BY <1>1, <2>1, OtherFlags
<1> QED
  BY <1>2, KbdGoto DEF KbdRead, At

LEMMA KbdNotifiedInv == TaskInv /\ TypeInv' /\ KbdNotified => TaskInv'
<1> SUFFICES ASSUME TaskInv, TypeInv', KbdNotified PROVE TaskInv'
  OBVIOUS
<1>1. TypeInv
  BY DEF TaskInv
<1>2. \A x \in {"switch", "exec", "init"} : blocked'[x] = blocked[x]
  BY <1>1, OtherFlags DEF KbdNotified
<1> QED
  BY <1>2, KbdGoto DEF KbdNotified, At

LEMMA KbdAckInv == TaskInv /\ TypeInv' /\ KbdAck => TaskInv'
<1> SUFFICES ASSUME TaskInv, TypeInv', KbdAck PROVE TaskInv'
  OBVIOUS
<1>1. TypeInv
  BY DEF TaskInv
<1>2. PICK h \in Stacks, n \in Depths, f \in Frame :
             /\ esp = [home |-> h, depth |-> n] /\ f = kstack[h][n] /\ f = Top
             /\ KbdFrame(f) /\ f.ret = Here(h, n)
  BY KbdTop DEF KbdAck, At
<1>3. kstack' = [kstack EXCEPT ![h][n] = Dead] /\ esp' = [home |-> h, depth |-> n - 1]
  BY <1>2 DEF KbdAck, Pop, Here
<1>4. OnlyAbove(h, n)
  BY <1>1, <1>3, PutAbove
<1>5. Undisturbed(h, n)
  BY <1>4, Untouched DEF KbdAck
<1>6. n \in 1 .. n + 1 /\ n <= (n - 1) + 1 /\ n \in 0 .. MaxDepth /\ n - 1 \in 0 .. MaxDepth
      /\ n \in Nat
  <2>1. n \in Nat /\ n >= 1 /\ n <= MaxDepth
    BY DEF Depths
  <2>2. n - 1 \in Nat /\ n - 1 <= MaxDepth /\ n <= (n - 1) + 1
    BY <2>1
  <2> QED
    BY <2>1, <2>2
<1>7. (\A d \in n .. n : d = n) /\ (\A d \in n .. n - 1 : FALSE)
  BY <1>6
<1>8. KbdAbove(h, n, n, n - 1)
  <2>1. \A d \in n .. n : KbdFrame(kstack[h][d])
    BY <1>2, <1>7
  <2> QED
    BY <1>5, <1>6, <1>7, <2>1 DEF KbdAbove
<1> QED
  BY <1>2, <1>3, <1>6, <1>8, KbdSafe

\* Neither the stacks nor the processes that run change.
LEMMA NoFrameMoves ==
    ASSUME TaskInv, TypeInv', kstack' = kstack, esp' = esp,
           UNCHANGED <<tab, saved, tss, current>>,
           \A p \in Pids : /\ status'[p] = "active" <=> status[p] = "active"
                           /\ status[p] = "runnable" => status'[p] = "runnable"
                           /\ status[p] # "sleeping" => status'[p] # "sleeping",
           \A x \in {"switch", "exec", "init"} : blocked'[x] = blocked[x]
    PROVE  TaskInv'
<1>1. PICK h \in Stacks, n \in 0 .. MaxDepth : esp = [home |-> h, depth |-> n]
  BY HomeIsEntry
<1>2. OnlyAbove(h, n + 1)
  BY DEF OnlyAbove
<1>3. Undisturbed(h, n + 1)
  BY <1>2 DEF Undisturbed
<1>4. KbdAbove(h, n + 1, n, n)
  <2>1. (\A d \in n + 1 .. n : FALSE) /\ n + 1 \in 1 .. n + 1 /\ n + 1 <= n + 1
    OBVIOUS
  <2> QED
    BY <1>3, <2>1 DEF KbdAbove
<1>5. n + 1 \in Nat
  OBVIOUS
<1> QED
  BY <1>1, <1>4, <1>5, KbdSafe

LEMMA KbdWakeInv == ASSUME NEW p \in Pids PROVE TaskInv /\ TypeInv' /\ KbdWake(p) => TaskInv'
<1> SUFFICES ASSUME TaskInv, TypeInv', KbdWake(p) PROVE TaskInv'
  OBVIOUS
<1>1. status \in [Pids -> Status]
  BY DEF TaskInv, TypeInv, TypeOK
<1>2. \A q \in Pids : /\ status'[q] = "active" <=> status[q] = "active"
                      /\ status[q] = "runnable" => status'[q] = "runnable"
                      /\ status[q] # "sleeping" => status'[q] # "sleeping"
  BY <1>1 DEF KbdWake
<1>3. /\ kstack' = kstack /\ esp' = esp /\ UNCHANGED <<tab, saved, tss, current>>
      /\ \A x \in {"switch", "exec", "init"} : blocked'[x] = blocked[x]
  BY DEF KbdWake
<1> QED
  BY <1>2, <1>3, NoFrameMoves

\* The top frame f of a process's stack, when it is not the keyboard's.
OnTop(h, n, f) ==
    /\ h \in tab /\ h \in Pids /\ h # Boot /\ h \in Stacks /\ n \in Depths /\ f \in Frame
    /\ esp = [home |-> h, depth |-> n] /\ Top = f /\ kstack[h][n] = f
    /\ f.it \in tab /\ f.it \in Pids /\ f.ret = Here(h, n)
    /\ f.arg \in Ctx /\ f.arg.depth < MaxDepth
    /\ f.pc \in BlockPcs => n = 1
    /\ SafeColumn(h, n - 1)
    /\ ~KbdFrame(f)
    /\ SafeFrame(f, h, n) \/ Critical(f, h, n)
    /\ IsMid(f) \/ /\ h = current /\ tss = current
                   /\ status[current] = "active" \/ Drowsy

LEMMA NotKbdTop ==
    ASSUME TaskInv, ~UserMode, esp.home # Boot, Top.pc \notin {"kbd", "notify", "ack"}
    PROVE  \E h, n, f : OnTop(h, n, f)
<1>1. PICK h \in tab, n \in Depths, f \in Frame :
             /\ h \in Pids /\ h # Boot /\ h \in Stacks /\ esp = [home |-> h, depth |-> n]
             /\ Top = f /\ kstack[h][n] = f /\ f.it \in tab
             /\ f.ret = Here(h, n)
             /\ SafeFrame(f, h, n) \/ Critical(f, h, n)
             /\ f.pc \in BlockPcs => n = 1
             /\ f.arg \in Ctx /\ f.arg.depth < MaxDepth
             /\ ~KbdFrame(f) =>
                  /\ SafeColumn(h, n - 1)
                  /\ IsMid(f) \/ /\ h = current /\ tss = current
                                 /\ status[current] = "active" \/ Drowsy
  BY AtTop
<1>2. ~KbdFrame(f)
  BY <1>1 DEF KbdFrame
<1>3. f.it \in Pids
  BY DEF Frame
<1>4. OnTop(h, n, f)
  BY <1>1, <1>2, <1>3 DEF OnTop
<1> QED
  BY <1>4

\* A process that does not run keeps the context it was saved with when only
\* the top of the running stack changes.
LEMMA OthersKept ==
    ASSUME TaskInv, NEW h, NEW n, NEW f, OnTop(h, n, f), OnlyAbove(h, n),
           NEW p \in tab, p # current, saved'[p] = saved[p]
    PROVE  SavedOK(p)'
<1>1. TypeInv /\ p \in Pids /\ n \in Nat /\ esp.home = h /\ esp.depth = n /\ h # Boot
  BY DEF TaskInv, TypeInv, TypeOK, OnTop, Depths
<1>2. SavedOK(p)
  BY DEF TaskInv
<1>3. CASE p = h
  <2>1. PICK d \in 1 .. n : saved[p] = Here(h, d)
    BY <1>1, <1>3, MidSaved
  <2>2. saved[p].depth < n
    BY <2>1, <1>1 DEF Here
  <2> QED
    BY <1>1, <1>2, <2>2, SavedKept
<1>4. CASE p # h
  BY <1>1, <1>2, <1>4, SavedKept
<1> QED
  BY <1>3, <1>4

LEMMA BelowKept ==
    ASSUME NEW h, NEW n, NEW f, OnTop(h, n, f), OnlyAbove(h, n)
    PROVE  SafeColumn(h, n - 1)'
<1>1. n \in Nat /\ n - 1 \in 0 .. MaxDepth /\ n - 1 < n /\ h \in Stacks /\ SafeColumn(h, n - 1)
  <2>1. n \in Nat /\ n >= 1 /\ n <= MaxDepth
    BY DEF OnTop, Depths
  <2>2. n - 1 \in Nat /\ n - 1 <= MaxDepth /\ n - 1 < n
    BY <2>1
  <2> QED
    BY <2>1, <2>2 DEF OnTop
<1>2. PICK m \in 0 .. MaxDepth : m = n - 1
  BY <1>1
<1>3. SafeColumn(h, m)'
  BY <1>1, <1>2, ColumnKept
<1> QED
  BY <1>2, <1>3 DEF SafeColumn

\* The top frame f becomes g.
LEMMA TopStep ==
    ASSUME TaskInv, TypeInv', NEW h, NEW n, NEW f, OnTop(h, n, f), NEW g,
           kstack' = [kstack EXCEPT ![h][n] = g], esp' = esp,
           UNCHANGED <<tab, saved, current>>,
           SafeFrame(g, h, n) \/ Critical(g, h, n)',
           ~IsMid(g) => /\ h = current /\ tss' = current
                        /\ status'[current] = "active" \/ Drowsy',
           \A p \in tab : status'[p] = "active" => p = current
    PROVE  TaskInv'
<1>1. TypeInv /\ h \in Stacks /\ n \in Depths /\ n \in 0 .. MaxDepth /\ n > 0
  BY DEF TaskInv, OnTop, Depths
<1>2. OnlyAbove(h, n) /\ kstack'[h][n] = g
  BY <1>1, PutAbove
<1>3. SafeColumn(h, n - 1)'
  BY <1>2, BelowKept
<1>4. \A p \in tab : p # current => SavedOK(p)'
  BY <1>2, OthersKept
<1>5. tab' = tab /\ current' = current /\ h \in tab' /\ h # Boot /\ esp' = [home |-> h, depth |-> n]
  BY DEF OnTop
<1>6. \A p \in tab' : p # current' => SavedOK(p)'
  BY <1>4, <1>5
<1>7. \A p \in tab' : status'[p] = "active" => p = current'
  BY <1>5
<1>8. ~IsMid(g) => /\ h = current' /\ tss' = current'
                   /\ status'[current'] = "active" \/ Drowsy'
  BY <1>5
<1> QED
  BY <1>1, <1>2, <1>3, <1>5, <1>6, <1>7, <1>8, Assemble

\* The top frame is dropped; the processes that are not running keep theirs.
LEMMA PopStep ==
    ASSUME TaskInv, TypeInv', NEW h, NEW n, NEW f, OnTop(h, n, f), Pop,
           tab \subseteq tab', current' = current, tss' = tss, h = current, tss = current,
           \A p \in tab : saved'[p] = saved[p] /\ status'[p] = status[p],
           \A p \in tab' \ tab : saved'[p] = UserOf(p) /\ status'[p] # "active",
           status[current] = "active" \/ Drowsy'
    PROVE  TaskInv'
<1>1. /\ TypeInv /\ h \in Stacks /\ n \in Depths /\ n \in Nat /\ h \in tab /\ current \in tab /\ h # Boot
      /\ esp.home = h /\ esp.depth = n
  BY DEF TaskInv, OnTop, Depths, TypeInv, TypeOK
<1>2. kstack' = [kstack EXCEPT ![h][n] = Dead] /\ esp' = Here(h, n)
  BY DEF OnTop, Pop
<1>3. OnlyAbove(h, n)
  BY <1>1, <1>2, PutAbove
<1>4. SafeColumn(h, n - 1)'
  BY <1>3, BelowKept
<1>5. ASSUME NEW p \in tab', p # current' PROVE SavedOK(p)'
  <2>1. CASE p \in tab
    BY <1>3, <1>5, <2>1, OthersKept
  <2>2. CASE p \notin tab
    <3>1. saved'[p] = UserOf(p)
      BY <2>2
    <3>2. saved'[p].home = p /\ saved'[p].depth = 0
      BY <3>1 DEF UserOf
    <3>3. SafeColumn(p, saved[p].depth)'
      BY <3>2 DEF SafeColumn
    <3> QED
      BY <3>2, <3>3 DEF SavedOK
  <2> QED
    BY <2>1, <2>2
<1>6. \A p \in tab' : status'[p] = "active" => p = current'
  BY DEF TaskInv
<1>7. PICK k \in 0 .. MaxDepth : k = n - 1
  <2>1. n >= 1 /\ n <= MaxDepth
    BY <1>1 DEF Depths
  <2>2. n - 1 \in Nat /\ n - 1 <= MaxDepth
    BY <1>1, <2>1
  <2> QED
    BY <1>1, <2>2
<1>8. esp' = [home |-> h, depth |-> k]
  BY <1>2, <1>7 DEF Here
<1>9. SafeColumn(h, k)'
  BY <1>4, <1>7 DEF SafeColumn
<1>10. SafeColumn(h, k - 1)' /\ (k > 0 => SafeFrame(kstack'[h][k], h, k))
  BY <1>9 DEF SafeColumn
<1>11. status'[current'] = "active" \/ Drowsy'
  BY <1>1
<1>12. h \in tab' /\ h = current' /\ tss' = current'
  BY <1>1
<1> QED
  BY <1>1, <1>5, <1>6, <1>8, <1>10, <1>11, <1>12, Assemble

\* The frame of next_proc that still looks for a process.
LEMMA ScanDrowsy ==
    ASSUME TypeInv, NEW h, NEW n, NEW f, OnTop(h, n, f), f.pc = "scan", NEW g, g.by = f.by,
           g.pc \in {"scan", "chosen"}, kstack' = [kstack EXCEPT ![h][n] = g], esp' = esp, Drowsy
    PROVE  Drowsy'
<1>1. /\ h \in Stacks /\ n \in Depths /\ n \in Nat /\ n > 0 /\ esp.home = h /\ esp.depth = n
      /\ esp'.home = h /\ esp'.depth = n /\ kstack[h][n] = f
  BY DEF OnTop, Depths
<1>2. /\ kstack'[h][n] = g
      /\ \A d \in Depths : d # n => kstack'[h][d] = kstack[h][d]
  BY <1>1 DEF TypeInv, GoodStacks
<1>3. 1 \in Depths /\ 2 \in Depths
  BY DEF Depths
<1>4. CASE kstack[h][1].pc \in {"yield", "launch"}
  <2>1. n # 1
    BY <1>1, <1>4
  <2>2. kstack'[h][1] = kstack[h][1]
    BY <1>2, <1>3, <2>1
  <2> QED
    BY <1>1, <1>4, <2>2 DEF Drowsy
<1>5. CASE ~(kstack[h][1].pc \in {"yield", "launch"})
  <2>1. /\ n > 1 /\ kstack[h][1].pc = "woken" /\ kstack[h][2].by = "yield"
        /\ kstack[h][2].pc \in {"scan", "chosen"}
    BY <1>1, <1>5 DEF Drowsy
  <2>2. kstack'[h][1] = kstack[h][1]
    BY <1>2, <1>3, <2>1
  <2>3. kstack'[h][2].by = "yield" /\ kstack'[h][2].pc \in {"scan", "chosen"}
    BY <1>1, <1>2, <1>3, <2>1
  <2> QED
    BY <1>1, <2>1, <2>2, <2>3 DEF Drowsy
<1> QED
  BY <1>4, <1>5

LEMMA NextProcScanInv ==
    ASSUME TaskInv, TypeInv', NextProcScan, esp.home # Boot
    PROVE  TaskInv'
<1>1. PICK h, n, f : OnTop(h, n, f)
  BY NotKbdTop DEF NextProcScan, At
<1>2. /\ TypeInv /\ f.pc = "scan" /\ f \in Frame
      /\ f.ret = Here(h, n) /\ h \in tab
      /\ \A p \in tab : status[p] = "active" => p = current
      /\ esp.home = h /\ esp.depth = n
  BY <1>1 DEF NextProcScan, At, OnTop, TaskInv
<1>3. PICK q \in tab : kstack' = [kstack EXCEPT ![h][n] =
                [@ EXCEPT !.it = q, !.pc = IF status[q] \in {"runnable", "active"}
                                           THEN "chosen" ELSE "scan"]]
  BY <1>2 DEF NextProcScan
<1>4. PICK g : g = [f EXCEPT !.it = q, !.pc = IF status[q] \in {"runnable", "active"}
                                              THEN "chosen" ELSE "scan"]
  OBVIOUS
<1>5. kstack' = [kstack EXCEPT ![h][n] = g]
  BY <1>1, <1>3, <1>4 DEF OnTop
<1>6. /\ esp' = esp /\ tss' = tss /\ status' = status /\ blocked' = blocked
      /\ UNCHANGED <<tab, saved, current>>
  BY DEF NextProcScan
<1>7. /\ g.by = f.by /\ g.ret = f.ret
      /\ IF status[q] \in {"runnable", "active"} THEN g.pc = "chosen" /\ g.it = q ELSE g.pc = "scan"
  BY <1>2, <1>4 DEF Frame
<1>8. f.by = "yield" \/ (f.by = "pit" /\ blocked["switch"])
  <2>1. SafeFrame(f, h, n) \/ Critical(f, h, n)
    BY <1>1 DEF OnTop
  <2>2. SafeFrame(f, h, n) => f.by = "yield"
    BY <1>2 DEF SafeFrame, KbdFrame, CallPcs
  <2>3. ASSUME Critical(f, h, n) PROVE f.by = "pit" /\ blocked["switch"]
    <3>1. ExecFrame(f, h, n) \/ ChoiceFrame(f) \/ MidFrame(f, h, n)
      BY <2>3 DEF Critical
    <3>2. f.by = "pit" /\ f.pc # "iret"
      BY <1>2, <3>1 DEF ExecFrame, ChoiceFrame, MidFrame
    <3>3. f.by = "pit" /\ f.pc # "iret" => blocked["switch"]
      BY <2>3, Zenon DEF Critical
    <3> QED
      BY <3>2, <3>3, Zenon
  <2> QED
    <3>1. CASE SafeFrame(f, h, n)
      BY <2>2, <3>1
    <3>2. CASE Critical(f, h, n)
      BY <2>3, <3>2, Zenon
    <3> QED
      BY <2>1, <3>1, <3>2
<1>9. SafeFrame(g, h, n) \/ Critical(g, h, n)'
  <2>1. CASE g.pc = "scan" /\ f.by = "yield"
    BY <1>2, <1>7, <2>1 DEF SafeFrame
  <2>2. CASE g.pc = "scan" /\ f.by = "pit" /\ blocked["switch"]
    <3>1. ChoiceFrame(g)'
      BY <1>7, <2>2 DEF ChoiceFrame
    <3>2. blocked'["switch"]
      BY <1>6, <2>2
    <3> QED
      BY <1>2, <1>7, <2>2, <3>1, <3>2 DEF Critical
  <2>3. CASE g.pc = "chosen"
    <3>1. status'[g.it] # "sleeping"
      BY <1>6, <1>7, <2>3
    <3>2. ChoiceFrame(g)'
      BY <1>7, <1>8, <2>3, <3>1 DEF ChoiceFrame
    <3>3. g.by = "pit" => blocked'["switch"]
      BY <1>6, <1>7, <1>8
    <3> QED
      BY <1>2, <1>7, <3>2, <3>3 DEF Critical
  <2> QED
    BY <1>7, <1>8, <2>1, <2>2, <2>3
<1>10. h = current /\ tss' = current /\ (status'[current] = "active" \/ Drowsy')
  <2>1. ~IsMid(f)
    BY <1>2 DEF IsMid, MidPcs
  <2>2. h = current /\ tss = current /\ (status[current] = "active" \/ Drowsy)
    BY <1>1, <2>1 DEF OnTop
  <2>3. g.pc \in {"scan", "chosen"}
    BY <1>7
  <2>4. Drowsy => Drowsy'
    BY <1>1, <1>2, <1>5, <1>6, <1>7, <2>3, ScanDrowsy
  <2> QED
    BY <1>6, <2>2, <2>4
<1>11. \A p \in tab : status'[p] = "active" => p = current
  BY <1>2, <1>6
<1> QED
  BY <1>1, <1>5, <1>6, <1>9, <1>10, <1>11, TopStep

\* What the chosen frame knows.
LEMMA NextProcSwapOutInv ==
    ASSUME TaskInv, TypeInv', NextProcSwapOut, esp.home # Boot
    PROVE  TaskInv'
<1>1. PICK h, n, f : OnTop(h, n, f)
  BY NotKbdTop DEF NextProcSwapOut, At
<1>2. /\ TypeInv /\ f.pc = "chosen" /\ f \in Frame /\ h \in tab /\ h \in Pids /\ f.it \in tab
      /\ f.ret = Here(h, n) /\ n \in Depths /\ h \in Stacks /\ h # Boot
      /\ \A p \in tab : status[p] = "active" => p = current
      /\ esp = [home |-> h, depth |-> n] /\ f = Top /\ kstack[h][n] = f
      /\ f.it \in Pids
  BY <1>1 DEF NextProcSwapOut, At, OnTop, TaskInv
<1>3. /\ f.by \in {"pit", "yield"} /\ status[f.it] # "sleeping"
      /\ f.by = "pit" => blocked["switch"]
  BY <1>1, <1>2 DEF OnTop, SafeFrame, KbdFrame, CallPcs, Critical, ExecFrame, ChoiceFrame, MidFrame
<1>4. ~IsMid(f)
  BY <1>2 DEF IsMid, MidPcs
<1>5. h = current /\ tss = current
  BY <1>1, <1>4 DEF OnTop
<1>6. /\ esp' = esp /\ tss' = tss /\ blocked' = blocked /\ tab' = tab /\ current' = current
  BY DEF NextProcSwapOut, Goto
<1>7. CASE status[f.it] = "active"
  <2>1. Goto("ret") /\ status' = status /\ saved' = saved
    BY <1>2, <1>7 DEF NextProcSwapOut
  <2>2. PICK g : g = [f EXCEPT !.pc = "ret"]
    OBVIOUS
  <2>3. kstack' = [kstack EXCEPT ![h][n] = g] /\ g.by = f.by /\ g.pc = "ret" /\ g.ret = Here(h, n)
    BY <1>2, <2>1, <2>2 DEF Goto, Frame
  <2>4. SafeFrame(g, h, n) \/ Critical(g, h, n)'
    <3>1. CASE f.by = "yield"
      BY <2>3, <3>1 DEF SafeFrame
    <3>2. CASE f.by = "pit"
      <4>1. ChoiceFrame(g)' /\ blocked'["switch"]
        BY <1>3, <1>6, <2>3, <3>2 DEF ChoiceFrame
      <4> QED
        BY <2>3, <4>1 DEF Critical
    <3> QED
      BY <1>3, <3>1, <3>2
  <2>5. status'[current] = "active"
    BY <1>2, <1>7, <2>1
  <2> QED
    BY <1>1, <1>2, <1>5, <1>6, <2>1, <2>3, <2>4, <2>5, TopStep
<1>8. CASE status[f.it] # "active"
  <2>1. Goto("swapped") /\ SwapOut
    BY <1>2, <1>8 DEF NextProcSwapOut
  <2>2. PICK g : g = [f EXCEPT !.pc = "swapped"]
    OBVIOUS
  <2>3. /\ kstack' = [kstack EXCEPT ![h][n] = g]
        /\ g.by = f.by /\ g.pc = "swapped" /\ g.ret = Here(h, n) /\ g.it = f.it
    BY <1>2, <2>1, <2>2 DEF Goto, Frame
  <2>4. /\ saved \in [Pids -> Ctx] /\ status \in [Pids -> Status] /\ current \in Pids
        /\ tab \subseteq Pids
    BY <1>2 DEF TypeInv, TypeOK
  <2>5. /\ saved'[h] = Here(h, n)
        /\ \A p \in Pids : p # h => saved'[p] = saved[p]
    BY <1>2, <1>5, <2>1, <2>4 DEF SwapOut
  <2>6. \A p \in Pids : status'[p] = IF p = current /\ status[p] = "active" THEN "runnable" ELSE status[p]
    BY <2>1, <2>4 DEF SwapOut
  <2>7. OnlyAbove(h, n) /\ kstack'[h][n] = g
    BY <1>2, <2>3, PutAbove
  <2>8. SafeColumn(h, n - 1)'
    BY <1>1, <2>7, BelowKept
  <2>9. NobodyActive'
    BY <1>2, <1>6, <2>4, <2>6 DEF NobodyActive
  <2>10. status'[g.it] = "runnable"
    <3>1. status[f.it] = "runnable"
      BY <1>2, <1>3, <1>8, <2>4 DEF Status
    <3> QED
      BY <1>2, <2>3, <2>6, <3>1
  <2>11. SavedOK(h)'
    <3>1. saved'[h].home = h /\ saved'[h].depth = n - 1
      BY <2>5 DEF Here
    <3>2. SafeColumn(h, saved[h].depth)'
      BY <2>8, <3>1 DEF SafeColumn
    <3> QED
      BY <3>1, <3>2 DEF SavedOK
  <2>12. Critical(g, h, n)'
    <3>1. h = current' /\ (g.by = "pit" => blocked'["switch"])
      BY <1>3, <1>5, <1>6, <2>3
    <3>2. MidFrame(g, h, n)'
      BY <1>3, <2>3, <2>5, <2>9, <2>10, <2>11, <3>1 DEF MidFrame
    <3> QED
      BY <2>3, <3>1, <3>2 DEF Critical
  <2>13. \A p \in tab' : p # current' => SavedOK(p)'
    <3> SUFFICES ASSUME NEW p \in tab, p # current PROVE SavedOK(p)'
      BY <1>6
    <3>1. saved'[p] = saved[p]
      BY <1>5, <2>4, <2>5
    <3> QED
      BY <1>1, <2>7, <3>1, OthersKept
  <2>14. IsMid(g)
    BY <1>3, <2>3 DEF IsMid, MidPcs
  <2>15. \A p \in tab' : status'[p] = "active" => p = current'
    BY <2>9 DEF NobodyActive
  <2>16. h \in tab' /\ n \in 0 .. MaxDepth /\ n > 0 /\ esp' = [home |-> h, depth |-> n]
    BY <1>2, <1>6 DEF Depths
  <2>17. /\ n > 0 => kstack'[h][n] = g /\ (SafeFrame(g, h, n) \/ Critical(g, h, n)')
         /\ ~(n = 0 \/ ~IsMid(g))
    BY <2>7, <2>12, <2>14, <2>16
  <2> QED
    BY <1>2, <2>8, <2>13, <2>15, <2>16, <2>17, Assemble
<1> QED
  BY <1>7, <1>8

\* While a process is being swapped out or in every context is a saved one.
LEMMA AllKept ==
    ASSUME TaskInv, NEW h, NEW n, NEW f, OnTop(h, n, f), OnlyAbove(h, n), saved[h] = Here(h, n),
           NEW p \in tab, SavedOK(p), saved'[p] = saved[p]
    PROVE  SavedOK(p)'
<1>1. TypeInv /\ TypeOK
  BY DEF TaskInv, TypeInv
<1>2. p \in Pids
  BY <1>1 DEF TypeOK
<1>3. n \in Nat
  <2>1. n \in Depths
    BY DEF OnTop
  <2> QED
    BY <2>1, DepthAssumption DEF Depths
<1>4. p # h \/ saved[p].depth < n
  BY <1>3 DEF Here
<1> QED
  BY <1>1, <1>2, <1>3, <1>4, SavedKept

\* The frames that switch, at the top of a stack.
LEMMA MidTop ==
    ASSUME NEW h, NEW n, NEW f, OnTop(h, n, f),
           \/ f.pc = "swapped"
           \/ f.pc \in {"resume", "args"} /\ f.by \in {"pit", "yield"}
    PROVE  Critical(f, h, n) /\ MidFrame(f, h, n) /\ IsMid(f) /\ f.by \in {"pit", "yield"}
<1>1. ~SafeFrame(f, h, n)
  BY DEF SafeFrame, KbdFrame, CallPcs
<1>2. Critical(f, h, n)
  BY <1>1 DEF OnTop
<1>3. ExecFrame(f, h, n) \/ ChoiceFrame(f) \/ MidFrame(f, h, n)
  BY <1>2 DEF Critical
<1>4. MidFrame(f, h, n)
  BY <1>3 DEF ExecFrame, ChoiceFrame
<1>5. f.by \in {"pit", "yield"}
  BY <1>4 DEF MidFrame
<1>6. IsMid(f)
  BY <1>5 DEF IsMid, MidPcs
<1> QED
  BY <1>2, <1>4, <1>5, <1>6

LEMMA SwitchFlagUp ==
    ASSUME NEW f, NEW h, NEW n, Critical(f, h, n), f.by = "pit", f.pc # "iret"
    PROVE  blocked["switch"]
BY Zenon DEF Critical

\* The state after a step that leaves a switching frame g at the top.
LEMMA MidStep ==
    ASSUME TaskInv, TypeInv', NEW h, NEW n, NEW f, OnTop(h, n, f), NEW g,
           kstack' = [kstack EXCEPT ![h][n] = g], esp' = esp, tab' = tab,
           g.ret = Here(h, n), IsMid(g), MidFrame(g, h, n)',
           (g.by = "pit" /\ g.pc # "iret") => blocked'["switch"],
           \A p \in tab : status'[p] = "active" => p = current',
           \A p \in tab : p # current' => SavedOK(p)'
    PROVE  TaskInv'
<1>1. /\ TypeInv /\ h \in Stacks /\ n \in Depths /\ n \in 0 .. MaxDepth /\ n > 0
      /\ h \in tab' /\ h # Boot /\ esp' = [home |-> h, depth |-> n]
  BY DEF TaskInv, OnTop, Depths
<1>2. OnlyAbove(h, n) /\ kstack'[h][n] = g
  BY ONLY <1>1, kstack' = [kstack EXCEPT ![h][n] = g], PutAbove
<1>3. SafeColumn(h, n - 1)'
  BY <1>2, BelowKept
<1>4. Critical(g, h, n)'
  <2>1. g.by = "pit" /\ g.pc # "iret" => blocked'["switch"]
    OBVIOUS
  <2> QED
    BY <2>1, Zenon DEF Critical
<1>5. /\ n > 0 => kstack'[h][n] = g /\ (SafeFrame(g, h, n) \/ Critical(g, h, n)')
      /\ ~(n = 0 \/ ~IsMid(g))
  BY <1>1, <1>2, <1>4
<1> QED
  BY <1>1, <1>3, <1>5, Assemble

LEMMA NextProcSwapInInv ==
    ASSUME TaskInv, TypeInv', NextProcSwapIn, esp.home # Boot
    PROVE  TaskInv'
<1>1. PICK h, n, f : OnTop(h, n, f)
  BY NotKbdTop DEF NextProcSwapIn, At
<1>2. /\ TypeInv /\ f.pc = "swapped" /\ f \in Frame /\ h \in tab /\ f.it \in tab /\ h \in Pids
      /\ f.ret = Here(h, n) /\ n \in Depths /\ h \in Stacks
      /\ esp = [home |-> h, depth |-> n] /\ f = Top /\ kstack[h][n] = f
  BY <1>1 DEF NextProcSwapIn, At, OnTop, TaskInv
<1>3. Critical(f, h, n) /\ MidFrame(f, h, n) /\ f.by \in {"pit", "yield"}
  BY <1>1, <1>2, MidTop
<1>4. /\ h = current /\ saved[h] = Here(h, n) /\ SavedOK(h)
      /\ NobodyActive /\ status[f.it] = "runnable"
  BY <1>2, <1>3 DEF MidFrame
<1>5. /\ current' = f.it /\ Goto("resume") /\ tab' = tab /\ saved' = saved
      /\ status' = status /\ blocked' = blocked /\ esp' = esp
  BY <1>2, <1>4 DEF NextProcSwapIn, Goto
<1>6. PICK g : g = [f EXCEPT !.pc = "resume"]
  OBVIOUS
<1>7. /\ kstack' = [kstack EXCEPT ![h][n] = g]
      /\ g.by = f.by /\ g.pc = "resume" /\ g.ret = Here(h, n) /\ g.it = f.it
  BY <1>2, <1>5, <1>6 DEF Goto, Frame
<1>8. OnlyAbove(h, n)
  BY <1>2, <1>7, PutAbove
<1>9. ASSUME NEW p \in tab PROVE SavedOK(p)'
  <2>1. SavedOK(p)
    BY <1>4 DEF TaskInv
  <2> QED
    BY <1>1, <1>4, <1>5, <1>8, <2>1, AllKept
<1>10. SavedOK(current)'
  <2>1. PICK c \in tab : c = f.it
    BY <1>2
  <2>2. SavedOK(c)' /\ current' = c
    BY <1>5, <1>9, <2>1
  <2> QED
    BY <2>2 DEF SavedOK, SafeColumn
<1>11. NobodyActive'
  BY <1>4, <1>5 DEF NobodyActive
<1>12. MidFrame(g, h, n)'
  BY <1>3, <1>4, <1>5, <1>7, <1>10, <1>11 DEF MidFrame
<1>13. IsMid(g)
  BY <1>3, <1>7 DEF IsMid, MidPcs
<1>14. (g.by = "pit" /\ g.pc # "iret") => blocked'["switch"]
  <2> SUFFICES ASSUME g.by = "pit" PROVE blocked'["switch"]
    OBVIOUS
  <2>1. blocked["switch"]
    BY <1>2, <1>3, <1>7, SwitchFlagUp
  <2> QED
    BY <1>5, <2>1
<1>15. \A p \in tab : status'[p] = "active" => p = current'
  BY <1>5, <1>11 DEF NobodyActive
<1> QED
  BY <1>1, <1>5, <1>7, <1>9, <1>12, <1>13, <1>14, <1>15, MidStep

LEMMA ResumeInv ==
    ASSUME TaskInv, TypeInv', Resume, esp.home # Boot
    PROVE  TaskInv'
<1>1. PICK h, n, f : OnTop(h, n, f)
  BY NotKbdTop DEF Resume, At
<1>2. /\ TypeInv /\ f.pc = "resume" /\ f \in Frame /\ h \in tab /\ f.it \in tab /\ h \in Pids
      /\ f.ret = Here(h, n) /\ n \in Depths /\ h \in Stacks
      /\ esp = [home |-> h, depth |-> n] /\ f = Top /\ kstack[h][n] = f /\ f.it \in Pids
  BY <1>1 DEF Resume, At, OnTop, TaskInv
<1>3. PICK g : g = [f EXCEPT !.pc = "args", !.arg = saved[f.it]]
  OBVIOUS
<1>4. /\ kstack' = [kstack EXCEPT ![h][n] = g]
      /\ g.by = f.by /\ g.pc = "args" /\ g.ret = Here(h, n) /\ g.it = f.it /\ g.arg = saved[f.it]
  BY <1>2, <1>3 DEF Resume, Frame
<1>5. /\ tab' = tab /\ saved' = saved /\ esp' = esp /\ current' = current /\ blocked' = blocked
      /\ tss' = f.it /\ status' = [status EXCEPT ![f.it] = "active"]
  BY <1>2 DEF Resume
<1>6. /\ status \in [Pids -> Status] /\ current \in Pids /\ tab \subseteq Pids
  BY <1>2 DEF TypeInv, TypeOK
<1>7. OnlyAbove(h, n)
  BY <1>2, <1>4, PutAbove
<1>8. CASE f.by \in {"pit", "yield"}
  <2>1. Critical(f, h, n) /\ MidFrame(f, h, n)
    BY <1>1, <1>2, <1>8, MidTop
  <2>2. /\ f.it = current /\ saved[h] = Here(h, n) /\ SavedOK(current)
        /\ NobodyActive
    BY <1>2, <2>1 DEF MidFrame
  <2>3. ASSUME NEW p \in tab PROVE SavedOK(p)'
    <3>1. SavedOK(p)
      BY <2>2 DEF TaskInv
    <3> QED
      BY <1>1, <1>5, <1>7, <2>2, <3>1, AllKept
  <2>4. PICK c, m : c \in tab /\ c = current /\ m = saved[c].depth
    BY <1>2, <2>2
  <2>5. SavedOK(c)'
    BY <2>3, <2>4
  <2>6. SafeColumn(c, m)' /\ saved[c].home = c
    BY <1>5, <2>4, <2>5 DEF SavedOK, SafeColumn
  <2>7. g.arg = saved[c] /\ g.arg.depth = m /\ g.arg.home = c
    BY <1>4, <2>2, <2>4, <2>6
  <2>8. SafeColumn(current, g.arg.depth)'
    BY <1>5, <2>4, <2>6, <2>7 DEF SafeColumn
  <2>9. status'[c] = "active" /\ tss' = c /\ current' = c
    BY <1>5, <1>6, <2>2, <2>4
  <2>10. IF h = c THEN g.arg = Here(h, n) ELSE saved'[h] = Here(h, n)
    BY <1>5, <2>2, <2>4, <2>7
  <2>11. MidFrame(g, h, n)'
    BY <1>4, <1>8, <2>7, <2>8, <2>9, <2>10 DEF MidFrame
  <2>12. IsMid(g)
    BY <1>4, <1>8 DEF IsMid, MidPcs
  <2>13. (g.by = "pit" /\ g.pc # "iret") => blocked'["switch"]
    <3> SUFFICES ASSUME g.by = "pit" PROVE blocked'["switch"]
      OBVIOUS
    <3>1. blocked["switch"]
      BY <1>2, <1>4, <2>1, SwitchFlagUp
    <3> QED
      BY <1>5, <3>1
  <2>14. \A p \in tab : status'[p] = "active" => p = current'
    BY <1>5, <1>6, <2>2 DEF NobodyActive
  <2> QED
    BY <1>1, <1>4, <1>5, <2>3, <2>11, <2>12, <2>13, <2>14, MidStep
<1>9. CASE ~(f.by \in {"pit", "yield"})
  <2>1. ~SafeFrame(f, h, n) /\ ~MidFrame(f, h, n) /\ ~ChoiceFrame(f)
    BY <1>2, <1>9 DEF SafeFrame, KbdFrame, CallPcs, MidFrame, ChoiceFrame
  <2>2. ExecFrame(f, h, n)
    BY <1>1, <2>1 DEF OnTop, Critical
  <2>3. /\ f.by = "call" /\ n = 1 /\ f.it = h /\ h = current
        /\ saved[h] = UserOf(h) /\ status[h] = "active"
    BY <1>2, <2>2 DEF ExecFrame
  <2>4. g.arg = Here(h, n)
    BY <1>4, <2>3 DEF Here, UserOf
  <2>5. SafeFrame(g, h, n)
    BY <1>4, <2>3, <2>4 DEF SafeFrame
  <2>6. status'[current] = "active" /\ tss' = current
    BY <1>5, <1>6, <2>3
  <2>7. \A p \in tab : status'[p] = "active" => p = current
    BY <1>5, <1>6, <2>3 DEF TaskInv
  <2> QED
    BY <1>1, <1>4, <1>5, <2>3, <2>5, <2>6, <2>7, TopStep
<1> QED
  BY <1>8, <1>9

\* A system call at the bottom of its stack runs in an active process, unless
\* it is putting the process to sleep or replacing it.
LEMMA CallActive ==
    ASSUME NEW h, NEW n, NEW f, OnTop(h, n, f), n = 1, f.pc \notin {"yield", "launch"}, ~IsMid(f)
    PROVE  h = current /\ tss = current /\ status[current] = "active"
<1>1. esp.home = h /\ esp.depth = n /\ kstack[h][1] = f
  BY DEF OnTop
<1>2. ~Drowsy
  BY <1>1 DEF Drowsy
<1> QED
  BY <1>2 DEF OnTop

\* The process on its way to sleep is still on it when a switch that was not
\* needed, or that came back to it, returns.
LEMMA PopDrowsy ==
    ASSUME TypeInv, NEW h, NEW n, NEW f, OnTop(h, n, f), Pop, Drowsy,
           f.pc \in {"iret", "ret"}, f.by = "yield" => f.pc = "ret"
    PROVE  Drowsy'
<1>1. /\ h \in Stacks /\ n \in Depths /\ n \in Nat /\ n > 0 /\ esp.home = h /\ esp.depth = n
      /\ kstack[h][n] = f
  BY DEF OnTop, Depths
<1>2. esp'.home = h /\ esp'.depth = n - 1 /\ kstack' = [kstack EXCEPT ![h][n] = Dead]
  BY DEF OnTop, Pop, Here
<1>3. \A d \in Depths : d # n => kstack'[h][d] = kstack[h][d]
  BY <1>1, <1>2 DEF TypeInv, GoodStacks
<1>4. 1 \in Depths /\ 2 \in Depths
  BY DEF Depths
<1>5. CASE kstack[h][1].pc \in {"yield", "launch"}
  <2>1. n # 1
    BY <1>1, <1>5
  <2>2. kstack'[h][1] = kstack[h][1]
    BY <1>3, <1>4, <2>1
  <2>3. n - 1 > 0
    BY <1>1, <2>1
  <2> QED
    BY <1>2, <1>5, <2>2, <2>3 DEF Drowsy
<1>6. CASE ~(kstack[h][1].pc \in {"yield", "launch"})
  <2>1. /\ n > 1 /\ kstack[h][1].pc = "woken" /\ kstack[h][2].by = "yield"
        /\ kstack[h][2].pc \in {"scan", "chosen"}
    BY <1>1, <1>6 DEF Drowsy
  <2>2. n # 2
    BY <1>1, <2>1
  <2>3. kstack'[h][1] = kstack[h][1] /\ kstack'[h][2] = kstack[h][2]
    BY <1>3, <1>4, <2>1, <2>2
  <2>4. n - 1 > 1 /\ n - 1 > 0
    BY <1>1, <2>1, <2>2
  <2> QED
    BY <1>2, <2>1, <2>3, <2>4 DEF Drowsy
<1> QED
  BY <1>5, <1>6

LEMMA NextProcReturnInv ==
    ASSUME TaskInv, TypeInv', NextProcReturn, esp.home # Boot
    PROVE  TaskInv'
<1>1. PICK h, n, f : OnTop(h, n, f)
  BY NotKbdTop DEF NextProcReturn, At
<1>2. TypeInv /\ f.pc = "ret" /\ Pop
  BY <1>1 DEF NextProcReturn, At, OnTop, TaskInv
<1>3. ~IsMid(f)
  BY <1>2 DEF IsMid, MidPcs
<1>4. h = current /\ tss = current /\ (status[current] = "active" \/ Drowsy)
  BY <1>1, <1>3 DEF OnTop
<1>5. Drowsy => Drowsy'
  BY <1>1, <1>2, PopDrowsy
<1>6. tab' = tab /\ status' = status /\ saved' = saved /\ tss' = tss /\ current' = current
  BY DEF NextProcReturn
<1> QED
  BY <1>1, <1>2, <1>4, <1>5, <1>6, PopStep

LEMMA LaunchIretInv ==
    ASSUME TaskInv, TypeInv', LaunchIret, esp.home # Boot
    PROVE  TaskInv'
<1>1. PICK h, n, f : OnTop(h, n, f)
  BY NotKbdTop DEF LaunchIret, At
<1>2. /\ TypeInv /\ f.pc = "iret" /\ h \in tab /\ h \in Pids /\ f.arg \in Ctx
      /\ n \in Depths /\ h \in Stacks /\ n \in Nat
      /\ esp = [home |-> h, depth |-> n] /\ f = Top /\ f.ret = Here(h, n)
  BY <1>1 DEF LaunchIret, At, OnTop, TaskInv, Depths
<1>3. /\ kstack' = [kstack EXCEPT ![h][n] = Dead] /\ esp' = f.arg
      /\ tab' = tab /\ status' = status /\ saved' = saved /\ tss' = tss /\ current' = current
  BY <1>2 DEF LaunchIret
<1>4. CASE SafeFrame(f, h, n)
  <2>1. ~IsMid(f)
    BY <1>2, <1>4, SafeNotMid
  <2>2. h = current /\ tss = current /\ (status[current] = "active" \/ Drowsy)
    BY <1>1, <2>1 DEF OnTop
  <2>3. f.arg = Here(h, n) /\ f.by # "yield"
    BY <1>2, <1>4 DEF SafeFrame, KbdFrame, CallPcs
  <2>4. Pop
    BY <1>2, <1>3, <2>3 DEF Pop
  <2>5. Drowsy => Drowsy'
    BY <1>1, <1>2, <2>3, <2>4, PopDrowsy
  <2> QED
    BY <1>1, <1>3, <2>2, <2>4, <2>5, PopStep
<1>5. CASE ~SafeFrame(f, h, n)
  <2>1. Critical(f, h, n)
    BY <1>1, <1>5 DEF OnTop
  <2>2. MidFrame(f, h, n)
    BY <1>2, <2>1 DEF Critical, ExecFrame, ChoiceFrame
  <2>3. /\ tss = current /\ status[current] = "active"
        /\ f.arg.home = current /\ SafeColumn(current, f.arg.depth)
        /\ h = current => f.arg = Here(h, n)
    BY <1>2, <2>2 DEF MidFrame
  <2>4. PICK c, m : c = current /\ m = f.arg.depth
    OBVIOUS
  <2>5. c \in tab /\ c \in Stacks /\ c # Boot /\ m \in 0 .. MaxDepth /\ f.arg = [home |-> c, depth |-> m]
    BY <1>2, <2>3, <2>4 DEF TypeInv, TypeOK, Ctx, Stacks
  <2>6. OnlyAbove(h, n)
    BY <1>2, <1>3, PutAbove
  <2>7. c # h \/ m < n
    BY <1>2, <2>3, <2>4 DEF Here
  <2>8. SafeColumn(c, m)'
    BY <1>2, <2>3, <2>4, <2>5, <2>6, <2>7, ColumnKept
  <2>9. SafeColumn(c, m - 1)' /\ (m > 0 => SafeFrame(kstack'[c][m], c, m))
    BY <2>5, <2>8 DEF SafeColumn
  <2>10. ASSUME NEW p \in tab', p # current' PROVE SavedOK(p)'
    BY <1>1, <1>3, <2>6, <2>10, OthersKept
  <2>11. c \in tab' /\ c = current' /\ tss' = current' /\ status'[current'] = "active"
         /\ esp' = [home |-> c, depth |-> m]
    BY <1>3, <2>3, <2>4, <2>5
  <2>12. \A p \in tab' : status'[p] = "active" => p = current'
    BY <1>3 DEF TaskInv
  <2> QED
    BY <2>5, <2>9, <2>10, <2>11, <2>12, Assemble
<1> QED
  BY <1>4, <1>5

LEMMA LaunchUserUnblockInv ==
    ASSUME TaskInv, TypeInv', LaunchUnblock, esp.home # Boot, Top.arg.depth = 0
    PROVE  TaskInv'
<1>1. PICK h, n, f : OnTop(h, n, f)
  BY NotKbdTop DEF LaunchUnblock, At
<1>2. /\ TypeInv /\ f.pc = "args" /\ h \in tab /\ h \in Pids /\ f.arg \in Ctx /\ f \in Frame
      /\ n \in Depths /\ h \in Stacks /\ n \in Nat /\ f.arg.depth = 0
      /\ esp = [home |-> h, depth |-> n] /\ f = Top /\ f.ret = Here(h, n) /\ kstack[h][n] = f
  BY <1>1 DEF LaunchUnblock, At, OnTop, TaskInv, Depths
<1>3. PICK g : g = [f EXCEPT !.pc = "iret"]
  OBVIOUS
<1>4. /\ kstack' = [kstack EXCEPT ![h][n] = g] /\ esp' = esp
      /\ g.by = f.by /\ g.pc = "iret" /\ g.ret = Here(h, n) /\ g.it = f.it /\ g.arg = f.arg
  BY <1>2, <1>3 DEF LaunchUnblock, Goto, Frame
<1>5. tab' = tab /\ status' = status /\ saved' = saved /\ tss' = tss /\ current' = current
  BY DEF LaunchUnblock
<1>6. \A p \in tab : status'[p] = "active" => p = current
  BY <1>5 DEF TaskInv
<1>7. CASE f.by \in {"pit", "yield"}
  <2>1. MidFrame(f, h, n)
    BY <1>1, <1>2, <1>7, MidTop
  <2>2. /\ tss = current /\ status[current] = "active" /\ f.arg.home = current
        /\ IF h = current THEN f.arg = Here(h, n) ELSE saved[h] = Here(h, n)
    BY <1>2, <2>1 DEF MidFrame
  <2>3. SafeColumn(current, g.arg.depth)'
    BY <1>2, <1>4 DEF SafeColumn
  <2>4. MidFrame(g, h, n)'
    BY <1>2, <1>4, <1>5, <1>7, <2>2, <2>3 DEF MidFrame
  <2>5. IsMid(g)
    BY <1>2, <1>4, <1>7 DEF IsMid, MidPcs
  <2>6. OnlyAbove(h, n)
    BY <1>2, <1>4, PutAbove
  <2>7. \A p \in tab : p # current' => SavedOK(p)'
    BY <1>1, <1>5, <2>6, OthersKept
  <2> QED
    BY <1>1, <1>4, <1>5, <1>6, <2>4, <2>5, <2>7, MidStep
<1>8. CASE ~(f.by \in {"pit", "yield"})
  <2>1. ~MidFrame(f, h, n) /\ ~ChoiceFrame(f) /\ ~ExecFrame(f, h, n)
    BY <1>2, <1>8 DEF MidFrame, ChoiceFrame, ExecFrame
  <2>2. SafeFrame(f, h, n)
    BY <1>1, <2>1 DEF OnTop, Critical
  <2>3. f.by = "call" /\ n = 1 /\ f.it = h /\ f.arg = Here(h, n)
    BY <1>2, <1>8, <2>2 DEF SafeFrame, KbdFrame, CallPcs
  <2>4. SafeFrame(g, h, n)
    BY <1>4, <2>3 DEF SafeFrame
  <2>5. ~IsMid(f)
    BY <1>8 DEF IsMid
  <2>6. h = current /\ tss = current /\ status[current] = "active"
    BY <1>1, <1>2, <2>3, <2>5, CallActive
  <2> QED
    BY <1>1, <1>4, <1>5, <1>6, <2>4, <2>6, TopStep
<1> QED
  BY <1>7, <1>8

\* launch_kernel_process moves the frame to the stack of the process that is
\* launched, on top of the context it was saved with.
LEMMA LaunchKernelUnblockInv ==
    ASSUME TaskInv, TypeInv', LaunchUnblock, esp.home # Boot, Top.arg.depth # 0
    PROVE  TaskInv'
<1>1. PICK h, n, f : OnTop(h, n, f)
  BY NotKbdTop DEF LaunchUnblock, At
<1>2. /\ TypeInv /\ f.pc = "args" /\ h \in tab /\ h \in Pids /\ f.arg \in Ctx /\ f \in Frame
      /\ n \in Depths /\ h \in Stacks /\ n \in Nat /\ f.arg.depth # 0 /\ f.arg.depth < MaxDepth
      /\ esp = [home |-> h, depth |-> n] /\ f = Top /\ f.ret = Here(h, n) /\ kstack[h][n] = f
  BY <1>1 DEF LaunchUnblock, At, OnTop, TaskInv, Depths
<1>3. f.by \in {"pit", "yield"}
  <2> SUFFICES ASSUME ~(f.by \in {"pit", "yield"}) PROVE FALSE
    OBVIOUS
  <2>1. ~MidFrame(f, h, n) /\ ~ChoiceFrame(f) /\ ~ExecFrame(f, h, n)
    BY <1>2 DEF MidFrame, ChoiceFrame, ExecFrame
  <2>2. SafeFrame(f, h, n)
    BY <1>1, <2>1 DEF OnTop, Critical
  <2>3. n = 1 /\ f.arg = Here(h, n)
    BY <1>2, <2>2 DEF SafeFrame, KbdFrame, CallPcs
  <2> QED
    BY <1>2, <2>3 DEF Here
<1>4. MidFrame(f, h, n)
  BY <1>1, <1>2, <1>3, MidTop
<1>5. /\ tss = current /\ status[current] = "active" /\ f.arg.home = current
      /\ SafeColumn(current, f.arg.depth)
      /\ IF h = current THEN f.arg = Here(h, n) ELSE saved[h] = Here(h, n)
  BY <1>2, <1>4 DEF MidFrame
<1>6. PICK c, m : c = current /\ m = f.arg.depth
  OBVIOUS
<1>7. /\ c \in tab /\ c \in Stacks /\ c # Boot /\ m \in Nat /\ m > 0 /\ m < MaxDepth
      /\ m + 1 \in Depths /\ m \in 0 .. MaxDepth /\ f.arg = [home |-> c, depth |-> m]
  <2>1. c \in tab /\ c \in Pids /\ c # Boot
    BY <1>2, <1>6 DEF TypeInv, TypeOK
  <2>2. m \in 0 .. MaxDepth /\ f.arg = [home |-> c, depth |-> m]
    BY <1>2, <1>5, <1>6 DEF Ctx
  <2>3. m \in Nat /\ m > 0 /\ m < MaxDepth
    BY <1>2, <1>6, <2>2
  <2>4. m + 1 \in Depths
    BY <2>3 DEF Depths
  <2> QED
    BY <2>1, <2>2, <2>3, <2>4 DEF Stacks
<1>8. PICK j \in Depths : j = m + 1
  BY <1>7
<1>9. PICK g : g = [f EXCEPT !.pc = "iret", !.ret = f.arg]
  OBVIOUS
<1>10. g.by = f.by /\ g.pc = "iret" /\ g.ret = Here(c, j) /\ g.arg = Here(c, j)
  BY <1>2, <1>7, <1>8, <1>9 DEF Frame, Here
<1>11. /\ kstack' = [kstack EXCEPT ![h][n] = Dead, ![c][j] = g]
       /\ esp' = [home |-> c, depth |-> j]
  BY <1>2, <1>7, <1>8, <1>9 DEF LaunchUnblock
<1>12. tab' = tab /\ status' = status /\ saved' = saved /\ tss' = tss /\ current' = current
  BY DEF LaunchUnblock
<1>13. /\ kstack'[c][j] = g
       /\ \A s \in Stacks, d \in Depths :
            ~(s = h /\ d = n) /\ ~(s = c /\ d = j) => kstack'[s][d] = kstack[s][d]
  <2>1. kstack \in [Stacks -> [Depths -> Frame]]
    BY <1>2 DEF TypeInv, GoodStacks
  <2> QED
    BY <1>2, <1>7, <1>8, <1>11, <2>1
<1>14. SafeColumn(c, m)'
  <2>1. ASSUME NEW d \in 1 .. m PROVE kstack'[c][d] = kstack[c][d]
    <3>1. d \in Nat /\ d >= 1 /\ d <= m
      BY <1>7
    <3>2. d \in Depths /\ d # j
      BY <1>7, <1>8, <3>1 DEF Depths
    <3>3. c = h => d # n
      BY <1>5, <1>6, <3>1, <1>2 DEF Here
    <3> QED
      BY <1>7, <1>13, <3>2, <3>3
  <2>2. SafeColumn(c, m)
    BY <1>5, <1>6
  <2> QED
    BY <2>1, <2>2 DEF SafeColumn
<1>15. ASSUME NEW p \in tab', p # current' PROVE SavedOK(p)'
  <2>1. p \in tab /\ p # c /\ p # current /\ p \in Stacks /\ p \in Pids /\ saved[p] \in Ctx
    BY <1>2, <1>6, <1>12, <1>15 DEF TypeInv, TypeOK, Stacks
  <2>2. SavedOK(p)
    BY <2>1 DEF TaskInv
  <2>3. PICK k \in 0 .. MaxDepth : k = saved[p].depth
    BY <2>1 DEF Ctx
  <2>4. ASSUME NEW d \in 1 .. k PROVE kstack'[p][d] = kstack[p][d]
    <3>1. d \in Depths
      BY DEF Depths
    <3>2. ~(p = h /\ d = n)
      <4> SUFFICES ASSUME p = h PROVE d # n
        OBVIOUS
      <4>1. saved[p] = Here(h, n)
        BY <1>5, <1>6, <2>1
      <4>2. k = n - 1
        BY <2>3, <4>1 DEF Here
      <4> QED
        BY <1>2, <4>2
    <3> QED
      BY <1>13, <2>1, <3>1, <3>2
  <2>5. SafeColumn(p, k)'
    BY <2>2, <2>3, <2>4 DEF SavedOK, SafeColumn
  <2> QED
    BY <1>12, <2>2, <2>3, <2>5 DEF SavedOK, SafeColumn
<1>16. SafeFrame(g, c, j) \/ Critical(g, c, j)'
  <2>1. CASE f.by = "pit"
    <3>1. j > 1
      BY <1>7, <1>8
    <3> QED
      BY <1>10, <2>1, <3>1 DEF SafeFrame
  <2>2. CASE f.by = "yield"
    <3>1. g.arg.depth = m /\ g.arg.home = c
      BY <1>7, <1>8, <1>10 DEF Here
    <3>2. SafeColumn(current, g.arg.depth)' /\ c = current'
      BY <1>6, <1>12, <1>14, <3>1 DEF SafeColumn
    <3>3. status'[current'] = "active" /\ tss' = current' /\ g.arg.home = current'
      BY <1>5, <1>6, <1>12, <3>1
    <3>4. MidFrame(g, c, j)'
      BY <1>10, <2>2, <3>2, <3>3 DEF MidFrame
    <3>5. ~(g.by = "pit")
      BY <1>10, <2>2
    <3> QED
      BY <1>10, <3>4, <3>5 DEF Critical
  <2> QED
    BY <1>3, <2>1, <2>2
<1>17. SafeColumn(c, j - 1)'
  BY <1>7, <1>8, <1>14 DEF SafeColumn
<1>18. c \in tab' /\ c = current' /\ tss' = current' /\ status'[current'] = "active"
  BY <1>5, <1>6, <1>7, <1>12
<1>19. \A p \in tab' : status'[p] = "active" => p = current'
  BY <1>12 DEF TaskInv
<1>20. j \in 0 .. MaxDepth /\ j > 0
  BY <1>7, <1>8 DEF Depths
<1>21. j > 0 => kstack'[c][j] = g /\ (SafeFrame(g, c, j) \/ Critical(g, c, j)')
  BY <1>13, <1>16
<1> QED
  BY <1>7, <1>11, <1>15, <1>17, <1>18, <1>19, <1>20, <1>21, Assemble

\* A system call works for the process whose stack it is on.
LEMMA CallTop ==
    ASSUME TaskInv, NEW h, NEW n, NEW f, OnTop(h, n, f), f.pc \in CallPcs
    PROVE  /\ f.by = "call" /\ n = 1 /\ f.it = h /\ h = current /\ tss = current
           /\ f.pc # "yield" => status[current] = "active"
<1>1. ~Critical(f, h, n)
  BY DEF CallPcs, Critical, ExecFrame, ChoiceFrame, MidFrame
<1>2. SafeFrame(f, h, n)
  BY <1>1 DEF OnTop
<1>3. f.by = "call" /\ n = 1 /\ f.it = h
  BY <1>2 DEF SafeFrame, OnTop, CallPcs, KbdFrame
<1>4. ~IsMid(f)
  BY <1>3 DEF IsMid
<1>5. h = current /\ tss = current
  BY <1>4 DEF OnTop
<1>6. f.pc # "yield" => status[current] = "active"
  <2> SUFFICES ASSUME f.pc # "yield" PROVE status[current] = "active"
    OBVIOUS
  <2>1. f.pc \notin {"yield", "launch"}
    BY DEF CallPcs
  <2> QED
    BY <1>3, <1>4, <2>1, CallActive
<1> QED
  BY <1>3, <1>5, <1>6

\* execve in the middle of replacing the process.
LEMMA ExecTop ==
    ASSUME TaskInv, NEW h, NEW n, NEW f, OnTop(h, n, f), f.pc \in {"execing", "launch"}
    PROVE  /\ f.by = "call" /\ n = 1 /\ f.it = h /\ h = current /\ tss = current
           /\ blocked["exec"]
           /\ f.pc = "execing" => status[current] = "active"
<1>1. ~SafeFrame(f, h, n)
  BY DEF SafeFrame, CallPcs, KbdFrame
<1>2. Critical(f, h, n)
  BY <1>1 DEF OnTop
<1>3. ExecFrame(f, h, n) /\ ~IsMid(f)
  BY <1>2 DEF Critical, ChoiceFrame, MidFrame, IsMid, MidPcs
<1>4. f.by = "call" /\ n = 1 /\ f.it = h /\ h = current /\ blocked["exec"]
  BY <1>3 DEF ExecFrame
<1>5. tss = current
  BY <1>3 DEF OnTop
<1>6. f.pc = "execing" => status[current] = "active"
  <2> SUFFICES ASSUME f.pc = "execing" PROVE status[current] = "active"
    OBVIOUS
  <2>1. f.pc \notin {"yield", "launch"}
    OBVIOUS
  <2> QED
    BY <1>3, <1>4, <2>1, CallActive
<1> QED
  BY <1>4, <1>5, <1>6

\* As TopStep, for a step that also changes what is saved of the process that
\* runs.
LEMMA ReplaceStep ==
    ASSUME TaskInv, TypeInv', NEW h, NEW n, NEW f, OnTop(h, n, f), NEW g,
           kstack' = [kstack EXCEPT ![h][n] = g], esp' = esp,
           UNCHANGED <<tab, current>>, \A p \in tab : p # current => saved'[p] = saved[p],
           SafeFrame(g, h, n) \/ Critical(g, h, n)',
           h = current /\ tss' = current,
           status'[current] = "active" \/ Drowsy',
           \A p \in tab : status'[p] = "active" => p = current
    PROVE  TaskInv'
<1>1. TypeInv /\ h \in Stacks /\ n \in Depths /\ n \in 0 .. MaxDepth /\ n > 0
  BY DEF TaskInv, OnTop, Depths
<1>2. OnlyAbove(h, n) /\ kstack'[h][n] = g
  <2>1. kstack' = [kstack EXCEPT ![h][n] = g]
    OBVIOUS
  <2> QED
    BY ONLY <1>1, <2>1, PutAbove
<1>3. SafeColumn(h, n - 1)'
  BY <1>2, BelowKept
<1>4. \A p \in tab : p # current => SavedOK(p)'
  BY <1>2, OthersKept
<1>5. tab' = tab /\ current' = current /\ h \in tab' /\ h # Boot /\ esp' = [home |-> h, depth |-> n]
  BY DEF OnTop
<1>6. \A p \in tab' : p # current' => SavedOK(p)'
  BY <1>4, <1>5
<1>7. \A p \in tab' : status'[p] = "active" => p = current'
  BY <1>5
<1>8. ~IsMid(g) => /\ h = current' /\ tss' = current'
                   /\ status'[current'] = "active" \/ Drowsy'
  BY <1>5
<1> QED
  BY <1>1, <1>2, <1>3, <1>5, <1>6, <1>7, <1>8, Assemble

\* The system call at the bottom of the stack goes on to pc.
LEMMA CallGoto ==
    ASSUME TaskInv, TypeInv', NEW h, NEW n, NEW f, OnTop(h, n, f), NEW pc, Goto(pc),
           f.by = "call", n = 1, f.it = h, h = current, tss = current,
           UNCHANGED <<tab, tss, current>>, \A p \in tab : p # current => saved'[p] = saved[p],
           \/ pc \in CallPcs
           \/ pc \in {"execing", "launch"} /\ blocked'["exec"]
           \/ pc = "resume" /\ saved'[h] = UserOf(h) /\ status'[h] = "active",
           status'[current] = "active" \/ pc \in {"yield", "launch"},
           \A p \in tab : status'[p] = "active" => p = current
    PROVE  TaskInv'
<1>1. PICK g : g = [f EXCEPT !.pc = pc]
  OBVIOUS
<1>2. /\ f \in Frame /\ f.ret = Here(h, n) /\ esp = [home |-> h, depth |-> n] /\ kstack[h][n] = f
      /\ h \in Stacks /\ n \in Depths /\ TypeInv
  BY DEF OnTop, TaskInv
<1>3. /\ kstack' = [kstack EXCEPT ![h][n] = g] /\ esp' = esp
      /\ g.by = "call" /\ g.pc = pc /\ g.ret = Here(h, n) /\ g.it = h
  BY <1>1, <1>2 DEF Goto, Frame
<1>4. SafeFrame(g, h, n) \/ Critical(g, h, n)'
  <2>1. CASE pc \in CallPcs
    BY <1>3, <2>1 DEF SafeFrame
  <2>2. CASE pc \in {"execing", "launch"} /\ blocked'["exec"]
    <3>1. h = current'
      OBVIOUS
    <3>2. ExecFrame(g, h, n)'
      BY <1>3, <2>2, <3>1 DEF ExecFrame
    <3>3. ~(g.by = "pit")
      BY <1>3
    <3> QED
      BY <1>3, <3>2, <3>3 DEF Critical
  <2>3. CASE pc = "resume" /\ saved'[h] = UserOf(h) /\ status'[h] = "active"
    <3>1. h = current'
      OBVIOUS
    <3>2. ExecFrame(g, h, n)'
      BY <1>3, <2>3, <3>1 DEF ExecFrame
    <3>3. ~(g.by = "pit")
      BY <1>3
    <3> QED
      BY <1>3, <3>2, <3>3 DEF Critical
  <2> QED
    BY <2>1, <2>2, <2>3
<1>5. kstack'[h][n] = g
  BY <1>2, <1>3, PutAbove
<1>6. status'[current] = "active" \/ Drowsy'
  <2>1. esp'.home = h /\ esp'.depth = 1
    BY <1>2, <1>3
  <2>2. pc \in {"yield", "launch"} => Drowsy'
    BY <1>3, <1>5, <2>1 DEF Drowsy
  <2> QED
    BY <2>2
<1>7. tab' = tab /\ current' = current /\ tss' = current
  OBVIOUS
<1> QED
  BY <1>3, <1>4, <1>6, <1>7, ReplaceStep

LEMMA ExecBlockInv ==
    ASSUME TaskInv, TypeInv', ExecBlock, esp.home # Boot
    PROVE  TaskInv'
<1>1. PICK h, n, f : OnTop(h, n, f)
  BY NotKbdTop DEF ExecBlock, At
<1>2. f.pc = "exec" /\ f.pc \in CallPcs
  BY <1>1 DEF ExecBlock, At, OnTop, CallPcs
<1>3. f.by = "call" /\ n = 1 /\ f.it = h /\ h = current /\ tss = current /\ status[current] = "active"
  BY <1>1, <1>2, CallTop
<1>4. Goto("execing")
  BY <1>3 DEF ExecBlock
<1>5. blocked'["exec"]
  <2>1. blocked \in [Flags -> BOOLEAN] /\ "exec" \in Flags
    BY DEF TaskInv, TypeInv, TypeOK, Flags
  <2> QED
    BY <2>1 DEF ExecBlock
<1>6. /\ UNCHANGED <<tab, tss, current>> /\ status' = status
      /\ \A p \in tab : p # current => saved'[p] = saved[p]
      /\ \A p \in tab : status'[p] = "active" => p = current
  BY DEF ExecBlock, TaskInv
<1> QED
  BY <1>1, <1>3, <1>4, <1>5, <1>6, CallGoto

LEMMA ExecReplaceInv ==
    ASSUME TaskInv, TypeInv', ExecReplace, esp.home # Boot
    PROVE  TaskInv'
<1>1. PICK h, n, f : OnTop(h, n, f)
  BY NotKbdTop DEF ExecReplace, At
<1>2. f.pc = "execing" /\ f = Top
  BY <1>1 DEF ExecReplace, At, OnTop
<1>3. f.by = "call" /\ n = 1 /\ f.it = h /\ h = current /\ tss = current /\ blocked["exec"]
  BY <1>1, <1>2, ExecTop
<1>4. Goto("launch") /\ UNCHANGED <<tab, tss, current>> /\ blocked' = blocked
  BY DEF ExecReplace
<1>5. /\ status' = [status EXCEPT ![h] = "sleeping"]
      /\ saved' = [saved EXCEPT ![h] = UserOf(h)]
  BY <1>2, <1>3 DEF ExecReplace
<1>6. status \in [Pids -> Status] /\ saved \in [Pids -> Ctx] /\ tab \subseteq Pids
  BY DEF TaskInv, TypeInv, TypeOK
<1>7. \A p \in tab : p # current => saved'[p] = saved[p]
  BY <1>3, <1>5, <1>6
<1>8. \A p \in tab : status'[p] = "active" => p = current
  BY <1>3, <1>5, <1>6 DEF TaskInv
<1>9. blocked'["exec"]
  BY <1>3, <1>4
<1> QED
  BY <1>1, <1>3, <1>4, <1>7, <1>8, <1>9, CallGoto

LEMMA LaunchInv ==
    ASSUME TaskInv, TypeInv', Launch, esp.home # Boot
    PROVE  TaskInv'
<1>1. PICK h, n, f : OnTop(h, n, f)
  BY NotKbdTop DEF Launch, At
<1>2. f.pc = "launch" /\ f = Top /\ h \in Pids
  BY <1>1 DEF Launch, At, OnTop
<1>3. f.by = "call" /\ n = 1 /\ f.it = h /\ h = current /\ tss = current
  BY <1>1, <1>2, ExecTop
<1>4. Goto("resume") /\ UNCHANGED <<tab, tss, current>>
  BY DEF Launch
<1>5. /\ status' = [status EXCEPT ![h] = "active"]
      /\ saved' = [saved EXCEPT ![h] = UserOf(h)]
  BY <1>2, <1>3 DEF Launch
<1>6. status \in [Pids -> Status] /\ saved \in [Pids -> Ctx] /\ tab \subseteq Pids
  BY DEF TaskInv, TypeInv, TypeOK
<1>7. \A p \in tab : p # current => saved'[p] = saved[p]
  BY <1>3, <1>5, <1>6
<1>8. \A p \in tab : status'[p] = "active" => p = current
  BY <1>3, <1>5, <1>6 DEF TaskInv
<1>9. status'[h] = "active" /\ saved'[h] = UserOf(h) /\ status'[current] = "active"
  BY <1>2, <1>3, <1>5, <1>6
<1> QED
  BY <1>1, <1>3, <1>4, <1>7, <1>8, <1>9, CallGoto

LEMMA GetpidInv ==
    ASSUME TaskInv, TypeInv', Getpid, esp.home # Boot
    PROVE  TaskInv'
<1>1. PICK h, n, f : OnTop(h, n, f)
  BY NotKbdTop DEF Getpid, At
<1>2. f.pc = "getpid" /\ f.pc \in CallPcs
  BY <1>1 DEF Getpid, At, OnTop, CallPcs
<1>3. h = current /\ tss = current /\ status[current] = "active"
  BY <1>1, <1>2, CallTop
<1>4. /\ Pop /\ tab' = tab /\ status' = status /\ saved' = saved
      /\ tss' = tss /\ current' = current
  BY <1>3 DEF Getpid
<1> QED
  BY <1>1, <1>3, <1>4, PopStep

LEMMA ForkInv ==
    ASSUME TaskInv, TypeInv', Fork, esp.home # Boot
    PROVE  TaskInv'
<1>1. PICK h, n, f : OnTop(h, n, f)
  BY NotKbdTop DEF Fork, At
<1>2. f.pc = "fork" /\ f.pc \in CallPcs
  BY <1>1 DEF Fork, At, OnTop, CallPcs
<1>3. h = current /\ tss = current /\ status[current] = "active"
  BY <1>1, <1>2, CallTop
<1>4. Pop /\ tss' = tss /\ current' = current
  BY <1>3 DEF Fork
<1>5. status \in [Pids -> Status] /\ saved \in [Pids -> Ctx] /\ tab \subseteq Pids
  BY DEF TaskInv, TypeInv, TypeOK
<1>6. CASE tab' = tab /\ status' = status /\ saved' = saved
  BY <1>1, <1>3, <1>4, <1>6, PopStep
<1>7. CASE \E p \in Pids \ tab : /\ tab' = tab \cup {p}
                                 /\ status' = [status EXCEPT ![p] = "runnable"]
                                 /\ saved' = [saved EXCEPT ![p] = UserOf(p)]
  <2>1. PICK q \in Pids \ tab : /\ tab' = tab \cup {q}
                                /\ status' = [status EXCEPT ![q] = "runnable"]
                                /\ saved' = [saved EXCEPT ![q] = UserOf(q)]
    BY <1>7
  <2>2. \A p \in tab : saved'[p] = saved[p] /\ status'[p] = status[p]
    BY <1>5, <2>1
  <2>3. \A p \in tab' \ tab : saved'[p] = UserOf(p) /\ status'[p] # "active"
    BY <1>5, <2>1
  <2>4. tab \subseteq tab'
    BY <2>1
  <2> QED
    BY <1>1, <1>3, <1>4, <2>2, <2>3, <2>4, PopStep
<1> QED
  BY <1>6, <1>7 DEF Fork

LEMMA ExecInvalidInv ==
    ASSUME TaskInv, TypeInv', ExecInvalid, esp.home # Boot
    PROVE  TaskInv'
<1>1. PICK h, n, f : OnTop(h, n, f)
  BY NotKbdTop DEF ExecInvalid, At
<1>2. f.pc = "execing"
  BY <1>1 DEF ExecInvalid, At, OnTop
<1>3. h = current /\ tss = current /\ status[current] = "active"
  BY <1>1, <1>2, ExecTop
<1>4. /\ Pop /\ tab' = tab /\ status' = status /\ saved' = saved
      /\ tss' = tss /\ current' = current
  BY DEF ExecInvalid
<1> QED
  BY <1>1, <1>3, <1>4, PopStep

LEMMA BlockPopInv ==
    ASSUME TaskInv, TypeInv', BlockReady \/ BlockReturn, esp.home # Boot
    PROVE  TaskInv'
<1>1. PICK h, n, f : OnTop(h, n, f)
  BY NotKbdTop DEF BlockReady, BlockReturn, At
<1>2. f.pc \in {"sleep", "counted"} /\ f.pc \in CallPcs
  BY <1>1 DEF BlockReady, BlockReturn, At, OnTop, CallPcs
<1>3. h = current /\ tss = current /\ status[current] = "active"
  BY <1>1, <1>2, CallTop
<1>4. /\ Pop /\ tab' = tab /\ status' = status /\ saved' = saved
      /\ tss' = tss /\ current' = current
  BY DEF BlockReady, BlockReturn
<1> QED
  BY <1>1, <1>3, <1>4, PopStep

LEMMA BlockGotoInv ==
    ASSUME TaskInv, TypeInv', BlockFlag \/ BlockWoken, esp.home # Boot
    PROVE  TaskInv'
<1>1. PICK h, n, f : OnTop(h, n, f)
  BY NotKbdTop DEF BlockFlag, BlockWoken, At
<1>2. f.pc \in {"block", "woken"} /\ f.pc \in CallPcs
  BY <1>1 DEF BlockFlag, BlockWoken, At, OnTop, CallPcs
<1>3. f.by = "call" /\ n = 1 /\ f.it = h /\ h = current /\ tss = current /\ status[current] = "active"
  BY <1>1, <1>2, CallTop
<1>4. PICK pc \in {"sleep", "counted"} : Goto(pc)
  BY DEF BlockFlag, BlockWoken
<1>5. pc \in CallPcs
  BY DEF CallPcs
<1>6. /\ UNCHANGED <<tab, tss, current>> /\ status' = status
      /\ \A p \in tab : p # current => saved'[p] = saved[p]
      /\ \A p \in tab : status'[p] = "active" => p = current
  BY DEF BlockFlag, BlockWoken, TaskInv
<1> QED
  BY <1>1, <1>3, <1>4, <1>5, <1>6, CallGoto

LEMMA BlockSleepInv ==
    ASSUME TaskInv, TypeInv', BlockSleep, esp.home # Boot
    PROVE  TaskInv'
<1>1. PICK h, n, f : OnTop(h, n, f)
  BY NotKbdTop DEF BlockSleep, At
<1>2. f.pc = "sleep" /\ f.pc \in CallPcs /\ f = Top
  BY <1>1 DEF BlockSleep, At, OnTop, CallPcs
<1>3. f.by = "call" /\ n = 1 /\ f.it = h /\ h = current /\ tss = current
  BY <1>1, <1>2, CallTop
<1>4. Goto("yield") /\ "yield" \in CallPcs
  BY DEF BlockSleep, CallPcs
<1>5. status' = [status EXCEPT ![h] = "sleeping"]
  BY <1>2, <1>3 DEF BlockSleep
<1>6. status \in [Pids -> Status] /\ tab \subseteq Pids
  BY DEF TaskInv, TypeInv, TypeOK
<1>7. /\ UNCHANGED <<tab, tss, current>>
      /\ \A p \in tab : p # current => saved'[p] = saved[p]
  BY DEF BlockSleep
<1>8. \A p \in tab : status'[p] = "active" => p = current
  BY <1>3, <1>5, <1>6 DEF TaskInv
<1> QED
  BY <1>1, <1>3, <1>4, <1>7, <1>8, CallGoto

LEMMA BlockYieldInv ==
    ASSUME TaskInv, TypeInv', BlockYield, esp.home # Boot
    PROVE  TaskInv'
<1>1. PICK h, n, f : OnTop(h, n, f)
  BY NotKbdTop DEF BlockYield, At
<1>2. /\ TypeInv /\ f.pc = "yield" /\ f.pc \in CallPcs /\ f = Top /\ f \in Frame
      /\ f.ret = Here(h, n) /\ kstack[h][n] = f
      /\ h \in tab /\ h \in Stacks /\ h # Boot /\ esp = [home |-> h, depth |-> n]
  BY <1>1 DEF BlockYield, At, OnTop, CallPcs, TaskInv
<1>3. f.by = "call" /\ n = 1 /\ f.it = h /\ h = current /\ tss = current
  BY <1>1, <1>2, CallTop
<1>4. PICK k, w, g : /\ k = [kstack EXCEPT ![h][1].pc = "woken"]
                     /\ w = [f EXCEPT !.pc = "woken"]
                     /\ g = [pc |-> "scan", by |-> "yield", it |-> current, ret |-> esp, arg |-> Dead.arg]
  OBVIOUS
<1>5. EntryHome = h /\ esp.depth + 1 = 2 /\ esp.home = h /\ esp.depth = 1
  BY <1>2, <1>3, HomeIsEntry
<1>6. kstack' = [k EXCEPT ![h][2] = g] /\ esp' = [home |-> h, depth |-> 2]
  BY <1>3, <1>4, <1>5 DEF BlockYield, Push
<1>7. kstack \in [Stacks -> [Depths -> Frame]] /\ 1 \in Depths /\ 2 \in Depths
  BY <1>2 DEF TypeInv, GoodStacks, Depths
<1>8. /\ kstack'[h][1] = w /\ kstack'[h][2] = g
      /\ \A s \in Stacks, d \in Depths : ~(s = h /\ d \in {1, 2}) => kstack'[s][d] = kstack[s][d]
  BY <1>2, <1>3, <1>4, <1>6, <1>7
<1>9. /\ w.by = "call" /\ w.it = h /\ w.pc = "woken" /\ w.ret = Here(h, 1)
      /\ g.by = "yield" /\ g.pc = "scan" /\ g.ret = Here(h, 2)
  BY <1>2, <1>3, <1>4 DEF Frame, Here
<1>10. SafeFrame(w, h, 1) /\ SafeFrame(g, h, 2)
  BY <1>9 DEF SafeFrame, CallPcs
<1>11. SafeColumn(h, 1)' /\ SafeColumn(h, 2 - 1)'
  BY <1>8, <1>10 DEF SafeColumn
<1>12. OnlyAbove(h, n)
  BY <1>3, <1>8 DEF OnlyAbove, Depths
<1>13. tab' = tab /\ current' = current /\ tss' = tss /\ status' = status /\ saved' = saved
  BY DEF BlockYield
<1>14. \A p \in tab' : p # current' => SavedOK(p)'
  BY <1>1, <1>12, <1>13, OthersKept
<1>15. Drowsy'
  BY <1>6, <1>8, <1>9 DEF Drowsy
<1>16. h \in tab' /\ 2 \in 0 .. MaxDepth /\ h = current' /\ tss' = current'
  BY <1>2, <1>3, <1>13
<1>17. \A p \in tab' : status'[p] = "active" => p = current'
  BY <1>13 DEF TaskInv
<1> QED
  BY <1>2, <1>6, <1>8, <1>10, <1>11, <1>14, <1>15, <1>16, <1>17, Assemble

\* What a tick that is delivered says of the frames it may not interrupt.
LEMMA WindowClosed ==
    ASSUME NEW f, WindowOf(f) = {}
    PROVE  /\ ~(f.by = "yield" /\ f.pc \in {"chosen", "swapped", "resume", "args", "iret"})
           /\ ~(f.by = "pit" /\ f.pc = "iret" /\ f.arg.depth = 0)
           /\ ~(f.by \in {"call", "start"} /\ f.pc = "resume")
<1>1. f.by = "yield" /\ f.pc \in SwitchPcs \ {"scan", "ret"} => WindowOf(f) = {"yield"}
  BY DEF WindowOf
<1>2. f.by = "pit" /\ f.pc = "iret" /\ f.arg.depth = 0 => WindowOf(f) = {"launch"}
  BY DEF WindowOf
<1>3. f.by \in {"call", "start"} /\ f.pc = "resume" => WindowOf(f) = {"exec"}
  BY DEF WindowOf
<1> QED
  BY <1>1, <1>2, <1>3 DEF SwitchPcs

\* Where the timer may switch, no frame of the stack is critical.
LEMMA CalmColumn ==
    ASSUME TaskInv, Windows = {}, TickDelivered, ~blocked["switch"], ~blocked["exec"],
           NEW h, NEW n, esp = [home |-> h, depth |-> n], h # Boot
    PROVE  /\ SafeColumn(h, n)
           /\ h = current /\ tss = current /\ (status[current] = "active" \/ Drowsy)
<1>1. esp.home = h /\ esp.depth = n /\ TypeInv
  BY DEF TaskInv
<1>2. ColumnInv /\ RunningInv
  BY <1>1 DEF TaskInv
<1>3. ASSUME NEW d \in 1 .. n PROVE SafeFrame(kstack[h][d], h, d)
  <2> SUFFICES ASSUME ~SafeFrame(kstack[h][d], h, d) PROVE FALSE
    OBVIOUS
  <2>1. PICK f : f = kstack[h][d]
    OBVIOUS
  <2>2. Critical(f, h, d)
    BY <1>1, <1>2, <2>1 DEF ColumnInv
  <2>3. WindowOf(f) \subseteq Windows
    BY <1>1, <2>1 DEF TickDelivered
  <2>4. WindowOf(f) = {}
    BY <2>3
  <2>5. /\ ~(f.by = "yield" /\ f.pc \in {"chosen", "swapped", "resume", "args", "iret"})
        /\ ~(f.by = "pit" /\ f.pc = "iret" /\ f.arg.depth = 0)
        /\ ~(f.by \in {"call", "start"} /\ f.pc = "resume")
    BY <2>4, WindowClosed
  <2>6. ~(f.by = "pit" /\ f.pc # "iret")
    BY <2>2, Zenon DEF Critical
  <2>7. ~ExecFrame(f, h, d)
    <3>1. ~(f.by = "call" /\ f.pc = "resume")
      BY <2>5
    <3> QED
      BY <3>1, Zenon DEF ExecFrame
  <2>8. ~ChoiceFrame(f)
    BY <2>5, <2>6 DEF ChoiceFrame
  <2>9. ~MidFrame(f, h, d)
    BY <2>5, <2>6 DEF MidFrame
  <2> QED
    BY <2>2, <2>7, <2>8, <2>9 DEF Critical
<1>4. SafeColumn(h, n)
  BY <1>3 DEF SafeColumn
<1>5. n \in 0 .. MaxDepth
  BY <1>1 DEF TypeInv, TypeOK, Ctx
<1>6. \A d \in 1 .. n : ~IsMid(kstack[h][d])
  BY <1>3, <1>5, SafeNotMid
<1>7. ~Switching
  BY <1>1, <1>6 DEF Switching
<1> QED
  BY <1>1, <1>2, <1>4, <1>7 DEF RunningInv

\* A frame is pushed on a stack whose frames are all safe.
LEMMA SafePush ==
    ASSUME TaskInv, TypeInv', NEW h \in Stacks, NEW n \in 0 .. MaxDepth, NEW g,
           n + 1 \in Depths, h # Boot, SafeColumn(h, n),
           h = current, tss = current,
           status[current] = "active" \/ Drowsy,
           esp = [home |-> h, depth |-> n], esp' = [home |-> h, depth |-> n + 1],
           OnlyAbove(h, n + 1), kstack'[h][n + 1] = g,
           SafeFrame(g, h, n + 1) \/ Critical(g, h, n + 1)', ~IsMid(g),
           UNCHANGED <<tab, status, saved, tss, current>>
    PROVE  TaskInv'
<1>1. TypeInv /\ h \in tab /\ n \in Nat /\ current \in Pids /\ tab \subseteq Pids
  BY DEF TaskInv, TypeInv, TypeOK
<1>2. PICK j \in 0 .. MaxDepth : j = n + 1 /\ j \in Nat /\ j > 0
  BY DEF Depths
<1>3. SafeColumn(h, n)'
  <2>1. n < j
    BY <1>1, <1>2
  <2> QED
    BY <1>2, <2>1, ColumnKept
<1>4. SafeColumn(h, j - 1)'
  BY <1>1, <1>2, <1>3 DEF SafeColumn
<1>5. \A p \in tab' : p # current' => SavedOK(p)'
  <2> SUFFICES ASSUME NEW p \in tab, p # current PROVE SavedOK(p)'
    OBVIOUS
  <2>1. SavedOK(p) /\ p \in Pids /\ saved'[p] = saved[p]
    BY <1>1 DEF TaskInv
  <2> QED
    BY <1>1, <1>2, <2>1, SavedKept
<1>6. Drowsy => Drowsy'
  <2> SUFFICES ASSUME Drowsy PROVE Drowsy'
    OBVIOUS
  <2>1. n > 0 /\ esp.home = h /\ esp.depth = n /\ esp'.home = h /\ esp'.depth = n + 1
    BY DEF Drowsy
  <2>2. \A d \in Depths : d <= n => kstack'[h][d] = kstack[h][d]
    BY <1>1 DEF OnlyAbove, Depths
  <2>3. kstack'[h][1] = kstack[h][1] /\ (n > 1 => kstack'[h][2] = kstack[h][2])
    BY <1>1, <2>1, <2>2 DEF Depths
  <2> QED
    BY <1>1, <2>1, <2>3 DEF Drowsy
<1>7. status'[current'] = "active" \/ Drowsy'
  BY <1>6
<1>8. h \in tab' /\ h = current' /\ tss' = current' /\ esp' = [home |-> h, depth |-> j]
  BY <1>1, <1>2
<1>9. j > 0 => kstack'[h][j] = g /\ (SafeFrame(g, h, j) \/ Critical(g, h, j)')
  BY <1>2 DEF Critical, ExecFrame, MidFrame
<1>10. \A p \in tab' : status'[p] = "active" => p = current'
  BY DEF TaskInv
<1> QED
  BY <1>2, <1>4, <1>5, <1>7, <1>8, <1>9, <1>10, Assemble

LEMMA CallInv ==
    ASSUME TaskInv, TypeInv', NEW c \in SysCalls, Call(c)
    PROVE  TaskInv'
<1>1. PICK pc, by : /\ Push(kstack, pc, by)
                    /\ \/ by = "call" /\ pc \in CallPcs
                       \/ by = "yield" /\ pc = "scan"
  <2>1. c = "yield" \/ c \in CallPcs
    BY DEF SysCalls, CallPcs
  <2> QED
    BY <2>1 DEF Call
<1>2. esp.home # Boot /\ esp.depth = 0
  BY DEF Call, UserMode, TaskInv, BootInv
<1>3. Room
  BY <1>2 DEF Room
<1>4. PICK h, n, g :
             /\ h \in Stacks /\ n \in 0 .. MaxDepth
             /\ n + 1 \in Depths /\ n + 1 < MaxDepth
             /\ esp = [home |-> h, depth |-> n] /\ esp' = [home |-> h, depth |-> n + 1]
             /\ OnlyAbove(h, n + 1)
             /\ kstack'[h][n + 1] = g /\ g.pc = pc /\ g.by = by /\ g.it = current
             /\ g.ret = Here(h, n + 1)
  BY <1>1, <1>3, PushKept
<1>5. n = 0 /\ h # Boot
  BY <1>2, <1>4
<1>6. SafeColumn(h, n) /\ ~Switching /\ ~Drowsy
  BY <1>2, <1>5 DEF SafeColumn, Switching, Drowsy
<1>7. h = current /\ tss = current /\ status[current] = "active"
  BY <1>2, <1>4, <1>6 DEF TaskInv, RunningInv
<1>8. SafeFrame(g, h, n + 1)
  BY <1>1, <1>4, <1>5, <1>7 DEF SafeFrame
<1>9. ~IsMid(g)
  BY <1>1, <1>4 DEF IsMid, MidPcs
<1>10. UNCHANGED <<tab, status, saved, tss, current>>
  BY DEF Call
<1> QED
  BY <1>4, <1>5, <1>6, <1>7, <1>8, <1>9, <1>10, SafePush

\* What the timer does to the flags.
LEMMA PitCases ==
    ASSUME TaskInv, Pit
    PROVE  \/ /\ kstack' = kstack /\ esp' = esp
              /\ \A x \in {"switch", "exec", "init"} : blocked'[x] = blocked[x]
           \/ /\ Push(kstack, "scan", "pit")
              /\ ~blocked["switch"] /\ ~blocked["exec"] /\ ~blocked["init"]
              /\ blocked'["switch"]
<1>1. TypeInv /\ blocked \in [Flags -> BOOLEAN]
  BY DEF TaskInv, TypeInv, TypeOK
<1>2. PICK ticked : ticked = [blocked EXCEPT !["notify"] = FALSE]
  OBVIOUS
<1>3. \A x \in {"switch", "exec", "init"} : ticked[x] = blocked[x]
  BY <1>1, <1>2 DEF Flags
<1>4. CASE \A f \in Flags : ~ticked[f]
  <2>1. /\ blocked' = [ticked EXCEPT !["switch"] = TRUE]
        /\ Push(kstack, "scan", "pit")
    BY <1>2, <1>4 DEF Pit
  <2>2. ticked \in [Flags -> BOOLEAN] /\ "switch" \in Flags /\ "exec" \in Flags /\ "init" \in Flags
    BY <1>1, <1>2 DEF Flags
  <2>3. blocked'["switch"]
    BY <2>1, <2>2
  <2>4. ~ticked["switch"] /\ ~ticked["exec"] /\ ~ticked["init"]
    BY <1>4, <2>2
  <2>5. ~blocked["switch"] /\ ~blocked["exec"] /\ ~blocked["init"]
    BY <1>3, <2>4
  <2> QED
    BY <2>1, <2>3, <2>5
<1>5. CASE ~ \A f \in Flags : ~ticked[f]
  <2>1. blocked' = ticked /\ kstack' = kstack /\ esp' = esp
    BY <1>2, <1>5 DEF Pit
  <2> QED
    BY <1>3, <2>1
<1> QED
  BY <1>4, <1>5

LEMMA PitInv ==
    ASSUME TaskInv, TypeInv', Pit, Windows = {}, esp.home # Boot
    PROVE  TaskInv'
<1>1. UNCHANGED <<tab, status, saved, tss, current>> /\ TickDelivered /\ Room
  BY DEF Pit
<1>2. CASE /\ kstack' = kstack /\ esp' = esp
           /\ \A x \in {"switch", "exec", "init"} : blocked'[x] = blocked[x]
  <2>1. status' = status
    BY <1>1
  <2> QED
    BY <1>1, <1>2, <2>1, NoFrameMoves
<1>3. CASE /\ Push(kstack, "scan", "pit")
           /\ ~blocked["switch"] /\ ~blocked["exec"] /\ ~blocked["init"]
           /\ blocked'["switch"]
  <2>1. PICK h, n, g :
             /\ h \in Stacks /\ n \in 0 .. MaxDepth
             /\ n + 1 \in Depths /\ n + 1 < MaxDepth
             /\ esp = [home |-> h, depth |-> n] /\ esp' = [home |-> h, depth |-> n + 1]
             /\ OnlyAbove(h, n + 1)
             /\ kstack'[h][n + 1] = g /\ g.pc = "scan" /\ g.by = "pit" /\ g.it = current
             /\ g.ret = Here(h, n + 1)
    BY <1>1, <1>3, PushKept
  <2>2. h # Boot
    BY <2>1
  <2>3. SafeColumn(h, n) /\ h = current /\ tss = current /\ (status[current] = "active" \/ Drowsy)
    BY <1>1, <1>3, <2>1, <2>2, CalmColumn
  <2>4. Critical(g, h, n + 1)'
    <3>1. ChoiceFrame(g)'
      BY <2>1 DEF ChoiceFrame
    <3>2. blocked'["switch"]
      BY <1>3
    <3> QED
      BY <2>1, <3>1, <3>2 DEF Critical
  <2>5. ~IsMid(g)
    BY <2>1 DEF IsMid
  <2> QED
    BY <1>1, <2>1, <2>2, <2>3, <2>4, <2>5, SafePush
<1> QED
  BY <1>2, <1>3, PitCases

\* What can be at the top of the boot stack, the keyboard's frames apart.
LEMMA BootTop ==
    ASSUME TaskInv, esp.home = Boot, Top.pc \notin {"kbd", "notify", "ack"}
    PROVE  \E n \in Depths, f \in Frame :
             /\ TypeInv /\ ~UserMode /\ esp = [home |-> Boot, depth |-> n] /\ esp.depth = n
             /\ f = kstack[Boot][n] /\ f = Top /\ f \in Frame
             /\ tab = {InitPid} /\ current = InitPid
             /\ f.it = InitPid
             /\ \A d \in 2 .. n - 1 : KbdFrame(kstack[Boot][d]) /\ kstack[Boot][d].ret = Here(Boot, d)
             /\ \/ n = 1 /\ f.pc \in {"launch", "resume", "args", "iret"}
                \/ /\ n > 1 /\ f.ret = Here(Boot, n) /\ f.by = "pit"
                   /\ f.pc \in {"scan", "chosen", "ret"} /\ blocked["switch"]
                   /\ kstack[Boot][1].pc \in {"args", "iret"}
<1>1. TypeInv /\ BootInv
  BY DEF TaskInv
<1>2. PICK n, f : n = esp.depth /\ f = kstack[Boot][n]
  OBVIOUS
<1>3. tab = {InitPid} /\ ~UserMode /\ n > 0
  BY <1>1, <1>2 DEF BootInv, UserMode, TypeInv, TypeOK, Ctx
<1>4. /\ n \in Depths /\ f = Top /\ f \in Frame /\ f.it \in tab /\ esp = [home |-> Boot, depth |-> n]
  BY <1>1, <1>2, <1>3, TopGood DEF GoodFrame, TypeInv, TypeOK, Ctx
<1>5. current = InitPid
  BY <1>1, <1>3 DEF TypeInv, TypeOK
<1>6. CASE n = 1
  <2>1. f.pc \in {"launch", "resume", "args", "iret"}
    BY <1>1, <1>2, <1>6, Zenon DEF BootInv
  <2>2. \A d \in 2 .. n - 1 : FALSE
    BY <1>6
  <2> QED
    BY <1>1, <1>2, <1>3, <1>4, <1>5, <1>6, <2>1, <2>2
<1>7. CASE n # 1
  <2>1. n \in 2 .. n /\ n > 1
    BY <1>4, <1>7 DEF Depths
  <2>2. ~KbdFrame(f)
    BY <1>4 DEF KbdFrame
  <2>3. /\ f.ret = Here(Boot, n) /\ f.by = "pit" /\ f.pc \in {"scan", "chosen", "ret"}
        /\ blocked["switch"] /\ kstack[Boot][1].pc \in {"args", "iret"}
    <3>1. /\ kstack[Boot][n].ret = Here(Boot, n)
          /\ \/ KbdFrame(kstack[Boot][n])
             \/ /\ kstack[Boot][n].by = "pit" /\ kstack[Boot][n].pc \in {"scan", "chosen", "ret"}
                /\ blocked["switch"] /\ kstack[Boot][1].pc \in {"args", "iret"}
      BY <1>4, <2>1, BootColumn
    <3> QED
      BY <1>2, <2>2, <3>1
  <2>4. ASSUME NEW d \in 2 .. n - 1
        PROVE  KbdFrame(kstack[Boot][d]) /\ kstack[Boot][d].ret = Here(Boot, d)
    <3>1. d \in 2 .. n /\ n \in d + 1 .. n
      BY <2>1
    <3>2. /\ kstack[Boot][d].ret = Here(Boot, d)
          /\ \/ KbdFrame(kstack[Boot][d])
             \/ \A e \in d + 1 .. n : KbdFrame(kstack[Boot][e])
      BY <1>4, <3>1, BootColumn
    <3> QED
      BY <1>2, <2>2, <3>1, <3>2
  <2> QED
    BY <1>1, <1>2, <1>3, <1>4, <1>5, <2>1, <2>3, <2>4
<1> QED
  BY <1>6, <1>7

\* What BootInv says of the frame Process::launch started with.
BootFirst(f) ==
    /\ f.by = "start" /\ f.it = InitPid
    /\ \/ f.pc = "launch" /\ blocked["init"]
       \/ f.pc = "resume" /\ saved[InitPid] = UserOf(InitPid) /\ status[InitPid] = "active"
       \/ /\ f.pc \in {"args", "iret"} /\ f.arg = UserOf(InitPid)
          /\ tss = InitPid /\ status[InitPid] = "active"

LEMMA BootFirstHolds ==
    ASSUME TaskInv, esp.home = Boot
    PROVE  BootFirst(kstack[Boot][1])
<1>1. BootInv
  BY DEF TaskInv
<1> QED
  BY <1>1, Zenon DEF BootInv, BootFirst

\* The boot stack put together again.
LEMMA BootAssemble ==
    ASSUME TypeInv', NEW n \in Depths, esp' = [home |-> Boot, depth |-> n], tab' = {InitPid},
           NEW f, f = kstack'[Boot][1], BootFirst(f)',
           \A d \in 2 .. n - 1 : KbdFrame(kstack'[Boot][d]) /\ kstack'[Boot][d].ret = Here(Boot, d),
           n > 1 => /\ kstack'[Boot][n].ret = Here(Boot, n)
                    /\ \/ KbdFrame(kstack'[Boot][n])
                       \/ /\ kstack'[Boot][n].by = "pit"
                          /\ kstack'[Boot][n].pc \in {"scan", "chosen", "ret"}
                          /\ blocked'["switch"] /\ f.pc \in {"args", "iret"}
    PROVE  TaskInv'
<1>1. esp'.home = Boot /\ esp'.depth = n /\ n > 0 /\ n \in Nat
  BY DEF Depths
<1>2. current' = InitPid
  BY DEF TypeInv, TypeOK
<1>3. ASSUME NEW d \in 2 .. n
      PROVE  LET g == kstack'[Boot][d] IN
             /\ g.ret = Here(Boot, d)
             /\ \/ KbdFrame(g)
                \/ /\ g.by = "pit" /\ g.pc \in {"scan", "chosen", "ret"} /\ blocked'["switch"]
                   /\ f.pc \in {"args", "iret"}
                   /\ \A e \in d + 1 .. n : KbdFrame(kstack'[Boot][e])
  <2>1. CASE d \in 2 .. n - 1
    BY <2>1
  <2>2. CASE d = n
    <3>1. n > 1 /\ \A e \in d + 1 .. n : KbdFrame(kstack'[Boot][e])
      BY <1>1, <2>2
    <3> QED
      BY <2>2, <3>1, Zenon
  <2> QED
    BY <1>1, <2>1, <2>2
<1>4. BootInv'
  <2>1. \A d \in 2 .. esp'.depth :
             LET g == kstack'[Boot][d] IN
             /\ g.ret = Here(Boot, d)
             /\ \/ KbdFrame(g)
                \/ /\ g.by = "pit" /\ g.pc \in {"scan", "chosen", "ret"} /\ blocked'["switch"]
                   /\ kstack'[Boot][1].pc \in {"args", "iret"}
                   /\ \A e \in d + 1 .. esp'.depth : KbdFrame(kstack'[Boot][e])
    BY <1>1, <1>3
  <2>2. esp'.depth > 0
    BY <1>1
  <2> QED
    BY <2>1, <2>2, Zenon DEF BootInv, BootFirst
<1>5. \A p \in tab' : status'[p] = "active" => p = current'
  BY <1>2
<1>6. \A p \in tab' \ {current'} : SavedOK(p)'
  BY <1>2
<1> QED
  BY <1>1, <1>4, <1>5, <1>6 DEF TaskInv

LEMMA BootPit ==
    ASSUME TaskInv, TypeInv', Pit, Windows = {}, esp.home = Boot
    PROVE  TaskInv'
<1>1. UNCHANGED <<tab, status, saved, tss, current>> /\ TickDelivered /\ Room
  BY DEF Pit
<1>2. CASE /\ kstack' = kstack /\ esp' = esp
           /\ \A x \in {"switch", "exec", "init"} : blocked'[x] = blocked[x]
  <2>1. status' = status
    BY <1>1
  <2> QED
    BY <1>1, <1>2, <2>1, NoFrameMoves
<1>3. CASE /\ Push(kstack, "scan", "pit")
           /\ ~blocked["switch"] /\ ~blocked["exec"] /\ ~blocked["init"]
           /\ blocked'["switch"]
  <2>1. PICK h, n, g :
             /\ h \in Stacks /\ n \in 0 .. MaxDepth
             /\ n + 1 \in Depths /\ n + 1 < MaxDepth
             /\ esp = [home |-> h, depth |-> n] /\ esp' = [home |-> h, depth |-> n + 1]
             /\ OnlyAbove(h, n + 1)
             /\ kstack'[h][n + 1] = g /\ g.pc = "scan" /\ g.by = "pit" /\ g.it = current
             /\ g.ret = Here(h, n + 1)
    BY <1>1, <1>3, PushKept
  <2>2. h = Boot /\ esp.depth = n /\ BootInv /\ BootFirst(kstack[Boot][1])
    BY <2>1, BootFirstHolds DEF TaskInv
  <2>3. n > 0 /\ tab = {InitPid}
    BY <2>2 DEF BootInv
  <2>4. PICK j \in Depths : j = n + 1
    BY <2>1
  <2>5. \A d \in Depths : d < j => kstack'[Boot][d] = kstack[Boot][d]
    <3>1. OnlyAbove(Boot, j) /\ Boot \in Stacks
      BY <2>1, <2>2, <2>4
    <3> QED
      BY <3>1 DEF OnlyAbove, Depths
  <2>6. PICK f : f = kstack[Boot][1] /\ f = kstack'[Boot][1]
    <3>1. 1 \in Depths /\ 1 < j
      BY <2>1, <2>3, <2>4 DEF Depths
    <3>2. kstack'[Boot][1] = kstack[Boot][1]
      BY <2>5, <3>1
    <3> QED
      BY <3>2
  <2>7. f.pc \in {"args", "iret"}
    <3>1. f.by = "start" /\ f.pc # "launch" /\ (f.pc = "resume" \/ f.pc \in {"args", "iret"})
      BY <1>3, <2>2, <2>6, Zenon DEF BootFirst
    <3>2. WindowOf(f) = {}
      <4>1. 1 \in 1 .. esp.depth /\ esp.home = Boot
        BY <2>1, <2>2, <2>3
      <4>2. WindowOf(kstack[Boot][1]) \subseteq Windows
        BY <1>1, <4>1 DEF TickDelivered
      <4> QED
        BY <2>6, <4>2
    <3>3. f.pc # "resume"
      BY <3>1, <3>2, WindowClosed
    <3> QED
      BY <3>1, <3>3
  <2>8. BootFirst(f)'
    <3>1. BootFirst(f)
      BY <2>2, <2>6
    <3>2. f.by = "start" /\ f.it = InitPid /\ f.arg = UserOf(InitPid) /\ tss = InitPid
          /\ status[InitPid] = "active"
      BY <2>7, <3>1 DEF BootFirst
    <3>3. tss' = InitPid /\ status'[InitPid] = "active"
      BY <1>1, <3>2
    <3> QED
      BY <2>7, <3>2, <3>3 DEF BootFirst
  <2>9. ASSUME NEW d \in 2 .. j - 1
        PROVE  KbdFrame(kstack'[Boot][d]) /\ kstack'[Boot][d].ret = Here(Boot, d)
    <3>1. d \in 2 .. n /\ d \in Depths /\ d < j
      BY <2>1, <2>4 DEF Depths
    <3>2. /\ kstack[Boot][d].ret = Here(Boot, d)
          /\ KbdFrame(kstack[Boot][d]) \/ blocked["switch"]
      BY <2>1, <2>2, <3>1, BootColumn
    <3>3. KbdFrame(kstack[Boot][d])
      BY <1>3, <3>2
    <3> QED
      BY <2>5, <3>1, <3>2, <3>3
  <2>10. /\ kstack'[Boot][j] = g /\ g.ret = Here(Boot, j) /\ g.by = "pit" /\ g.pc = "scan"
    BY <2>1, <2>2, <2>4
  <2>11. j > 1 => /\ kstack'[Boot][j].ret = Here(Boot, j)
                  /\ \/ KbdFrame(kstack'[Boot][j])
                     \/ /\ kstack'[Boot][j].by = "pit"
                        /\ kstack'[Boot][j].pc \in {"scan", "chosen", "ret"}
                        /\ blocked'["switch"] /\ f.pc \in {"args", "iret"}
    BY <1>3, <2>7, <2>10
  <2>12. esp' = [home |-> Boot, depth |-> j] /\ tab' = {InitPid}
    BY <1>1, <2>1, <2>2, <2>3, <2>4
  <2> QED
    BY <2>6, <2>8, <2>9, <2>11, <2>12, BootAssemble
<1> QED
  BY <1>2, <1>3, PitCases

\* The first frame on the boot stack goes on.
LEMMA BootFirstStep ==
    ASSUME TypeInv, TypeInv', NEW g, kstack' = [kstack EXCEPT ![Boot][1] = g],
           BootFirst(g)', esp = [home |-> Boot, depth |-> 1], esp' = esp,
           tab = {InitPid}, tab' = tab
    PROVE  TaskInv'
<1>1. 1 \in Depths /\ Boot \in Stacks
  BY DEF Depths, Stacks
<1>2. kstack'[Boot][1] = g
  BY <1>1, PutAbove
<1>3. (\A d \in 2 .. 1 - 1 : FALSE) /\ ~(1 > 1)
  OBVIOUS
<1> QED
  BY <1>1, <1>2, <1>3, BootAssemble

LEMMA BootLaunch ==
    ASSUME TaskInv, TypeInv', Launch \/ Resume \/ LaunchUnblock, esp.home = Boot
    PROVE  TaskInv'
<1>1. Top.pc \in {"launch", "resume", "args"}
  BY DEF Launch, Resume, LaunchUnblock, At
<1>2. PICK n \in Depths, f \in Frame :
             /\ TypeInv /\ ~UserMode /\ esp = [home |-> Boot, depth |-> n] /\ esp.depth = n
             /\ f = kstack[Boot][n] /\ f = Top /\ f \in Frame
             /\ tab = {InitPid} /\ current = InitPid /\ f.it = InitPid
             /\ n = 1 \/ f.pc \in {"scan", "chosen", "ret"}
  BY <1>1, BootTop
<1>3. n = 1 /\ esp.home = Boot
  BY <1>1, <1>2
<1>4. BootFirst(f)
  BY <1>2, <1>3, BootFirstHolds
<1>5. status \in [Pids -> Status] /\ saved \in [Pids -> Ctx]
  BY <1>2 DEF TypeInv, TypeOK
<1>6. CASE Launch
  <2>1. PICK g : g = [f EXCEPT !.pc = "resume"]
    OBVIOUS
  <2>2. /\ kstack' = [kstack EXCEPT ![Boot][1] = g] /\ esp' = esp /\ tab' = tab
        /\ g.by = f.by /\ g.it = f.it /\ g.pc = "resume"
    BY <1>2, <1>3, <1>6, <2>1 DEF Launch, Goto, Frame
  <2>3. saved'[InitPid] = UserOf(InitPid) /\ status'[InitPid] = "active"
    BY <1>2, <1>5, <1>6 DEF Launch
  <2>4. g.by = "start" /\ g.it = InitPid
    BY <1>4, <2>2 DEF BootFirst
  <2>5. BootFirst(g)'
    BY <2>2, <2>3, <2>4 DEF BootFirst
  <2> QED
    BY <1>2, <1>3, <2>2, <2>5, BootFirstStep
<1>7. CASE Resume
  <2>1. PICK g : g = [f EXCEPT !.pc = "args", !.arg = saved[InitPid]]
    OBVIOUS
  <2>2. /\ kstack' = [kstack EXCEPT ![Boot][1] = g] /\ esp' = esp /\ tab' = tab
        /\ g.by = f.by /\ g.it = f.it /\ g.pc = "args" /\ g.arg = saved[InitPid]
    BY <1>2, <1>3, <1>7, <2>1 DEF Resume, Frame
  <2>3. tss' = InitPid /\ status'[InitPid] = "active" /\ f.pc = "resume"
    BY <1>2, <1>5, <1>7 DEF Resume, At
  <2>4. g.by = "start" /\ g.it = InitPid /\ g.arg = UserOf(InitPid)
    BY <1>4, <2>2, <2>3 DEF BootFirst
  <2>5. BootFirst(g)'
    BY <2>2, <2>3, <2>4 DEF BootFirst
  <2> QED
    BY <1>2, <1>3, <2>2, <2>5, BootFirstStep
<1>8. CASE LaunchUnblock
  <2>1. f.pc = "args"
    BY <1>2, <1>8 DEF LaunchUnblock, At
  <2>2. f.by = "start" /\ f.it = InitPid /\ f.arg = UserOf(InitPid)
        /\ tss = InitPid /\ status[InitPid] = "active"
    BY <1>4, <2>1 DEF BootFirst
  <2>3. f.arg.depth = 0
    BY <2>2 DEF UserOf
  <2>4. PICK g : g = [f EXCEPT !.pc = "iret"]
    OBVIOUS
  <2>5. /\ kstack' = [kstack EXCEPT ![Boot][1] = g] /\ esp' = esp /\ tab' = tab
        /\ g.by = f.by /\ g.it = f.it /\ g.pc = "iret" /\ g.arg = f.arg
    BY <1>2, <1>3, <1>8, <2>3, <2>4 DEF LaunchUnblock, Goto, Frame
  <2>6. tss' = InitPid /\ status'[InitPid] = "active"
    BY <1>8, <2>2 DEF LaunchUnblock
  <2>7. BootFirst(g)'
    BY <2>2, <2>5, <2>6 DEF BootFirst
  <2> QED
    BY <1>2, <1>3, <2>5, <2>7, BootFirstStep
<1> QED
  BY <1>6, <1>7, <1>8

LEMMA BootSwitch ==
    ASSUME TaskInv, TypeInv', NextProcScan \/ NextProcSwapOut \/ NextProcReturn, esp.home = Boot
    PROVE  TaskInv'
<1>1. Top.pc \in {"scan", "chosen", "ret"}
  BY DEF NextProcScan, NextProcSwapOut, NextProcReturn, At
<1>2. PICK n \in Depths, f \in Frame :
             /\ TypeInv /\ ~UserMode /\ esp = [home |-> Boot, depth |-> n] /\ esp.depth = n
             /\ f = kstack[Boot][n] /\ f = Top /\ f \in Frame
             /\ tab = {InitPid} /\ current = InitPid /\ f.it = InitPid
             /\ \A d \in 2 .. n - 1 : KbdFrame(kstack[Boot][d]) /\ kstack[Boot][d].ret = Here(Boot, d)
             /\ \/ n = 1 /\ f.pc \in {"launch", "resume", "args", "iret"}
                \/ /\ n > 1 /\ f.ret = Here(Boot, n) /\ f.by = "pit"
                   /\ f.pc \in {"scan", "chosen", "ret"} /\ blocked["switch"]
                   /\ kstack[Boot][1].pc \in {"args", "iret"}
  BY <1>1, BootTop
<1>3. /\ n > 1 /\ f.ret = Here(Boot, n) /\ f.by = "pit" /\ blocked["switch"]
      /\ kstack[Boot][1].pc \in {"args", "iret"}
  BY <1>1, <1>2
<1>4. PICK b : b = kstack[Boot][1]
  OBVIOUS
<1>5. b.by = "start" /\ b.it = InitPid /\ b.arg = UserOf(InitPid) /\ tss = InitPid
      /\ status[InitPid] = "active" /\ b.pc \in {"args", "iret"}
  BY <1>3, <1>4, BootFirstHolds DEF BootFirst
<1>6. /\ tab' = {InitPid} /\ tss' = tss /\ status' = status
  BY <1>2, <1>5 DEF NextProcScan, NextProcSwapOut, NextProcReturn
<1>7. BootFirst(b)'
  BY <1>5, <1>6 DEF BootFirst
<1>8. ASSUME NEW g, kstack' = [kstack EXCEPT ![Boot][n] = g]
      PROVE  /\ b = kstack'[Boot][1] /\ kstack'[Boot][n] = g
             /\ \A d \in 2 .. n - 1 : KbdFrame(kstack'[Boot][d]) /\ kstack'[Boot][d].ret = Here(Boot, d)
  <2>1. OnlyAbove(Boot, n) /\ kstack'[Boot][n] = g /\ Boot \in Stacks
    <3>1. Boot \in Stacks
      BY DEF Stacks
    <3>2. TypeInv /\ n \in Depths /\ kstack' = [kstack EXCEPT ![Boot][n] = g]
      BY <1>2, <1>8
    <3> QED
      BY ONLY <3>1, <3>2, PutAbove
  <2>2. \A d \in 1 .. n - 1 : d \in Depths /\ ~(Boot = Boot /\ d >= n)
    BY <1>3 DEF Depths
  <2>3. \A d \in 1 .. n - 1 : kstack'[Boot][d] = kstack[Boot][d]
    BY <2>1, <2>2 DEF OnlyAbove
  <2>4. 1 \in 1 .. n - 1 /\ \A d \in 2 .. n - 1 : d \in 1 .. n - 1
    BY <1>3 DEF Depths
  <2>5. b = kstack'[Boot][1]
    BY <1>4, <2>3, <2>4
  <2>6. \A d \in 2 .. n - 1 : kstack'[Boot][d] = kstack[Boot][d]
    BY <2>3, <2>4
  <2>7. \A d \in 2 .. n - 1 : KbdFrame(kstack'[Boot][d]) /\ kstack'[Boot][d].ret = Here(Boot, d)
    BY <1>2, <2>6
  <2> QED
    BY <2>1, <2>5, <2>7
<1>9. CASE NextProcReturn
  <2>1. kstack' = [kstack EXCEPT ![Boot][n] = Dead] /\ esp' = Here(Boot, n)
    BY <1>2, <1>3, <1>9 DEF NextProcReturn, Pop
  <2>2. PICK k \in Depths : k = n - 1
    BY <1>3 DEF Depths
  <2>3. esp' = [home |-> Boot, depth |-> k]
    BY <2>1, <2>2 DEF Here
  <2>4. \A d \in 2 .. k - 1 : d \in 2 .. n - 1
    BY <2>2 DEF Depths
  <2>5. k > 1 => k \in 2 .. n - 1
    BY <2>2 DEF Depths
  <2>6. b = kstack'[Boot][1]
    BY <1>8, <2>1
  <2>7. \A d \in 2 .. k - 1 : KbdFrame(kstack'[Boot][d]) /\ kstack'[Boot][d].ret = Here(Boot, d)
    BY <1>8, <2>1, <2>4
  <2>8. k > 1 => KbdFrame(kstack'[Boot][k]) /\ kstack'[Boot][k].ret = Here(Boot, k)
    BY <1>8, <2>1, <2>5
  <2> QED
    BY <1>6, <1>7, <2>3, <2>6, <2>7, <2>8, BootAssemble
<1>10. ASSUME NEW g, kstack' = [kstack EXCEPT ![Boot][n] = g], esp' = esp, blocked' = blocked,
              g.ret = Here(Boot, n), g.by = "pit", g.pc \in {"scan", "chosen", "ret"}
       PROVE  TaskInv'
  <2>1. /\ b = kstack'[Boot][1] /\ kstack'[Boot][n] = g
        /\ \A d \in 2 .. n - 1 : KbdFrame(kstack'[Boot][d]) /\ kstack'[Boot][d].ret = Here(Boot, d)
    BY <1>8, <1>10
  <2>2. blocked'["switch"] /\ esp' = [home |-> Boot, depth |-> n]
    BY <1>2, <1>3, <1>10
  <2> QED
    BY <1>5, <1>6, <1>7, <1>10, <2>1, <2>2, BootAssemble
<1>11. CASE NextProcScan
  <2>1. PICK q \in tab : kstack' = [kstack EXCEPT ![Boot][n] =
                [@ EXCEPT !.it = q, !.pc = IF status[q] \in {"runnable", "active"}
                                           THEN "chosen" ELSE "scan"]]
    BY <1>2, <1>11 DEF NextProcScan
  <2>2. PICK g : g = [f EXCEPT !.it = q, !.pc = IF status[q] \in {"runnable", "active"}
                                                THEN "chosen" ELSE "scan"]
    OBVIOUS
  <2>3. kstack' = [kstack EXCEPT ![Boot][n] = g] /\ esp' = esp /\ blocked' = blocked
    BY <1>2, <1>11, <2>1, <2>2 DEF NextProcScan
  <2>4. g.ret = Here(Boot, n) /\ g.by = "pit" /\ g.pc \in {"scan", "chosen", "ret"}
    BY <1>2, <1>3, <2>2 DEF Frame
  <2> QED
    BY <1>10, <2>3, <2>4
<1>12. CASE NextProcSwapOut
  <2>1. Goto("ret") /\ blocked' = blocked
    BY <1>2, <1>5, <1>12 DEF NextProcSwapOut
  <2>2. PICK g : g = [f EXCEPT !.pc = "ret"]
    OBVIOUS
  <2>3. kstack' = [kstack EXCEPT ![Boot][n] = g] /\ esp' = esp
    BY <1>2, <2>1, <2>2 DEF Goto
  <2>4. g.ret = Here(Boot, n) /\ g.by = "pit" /\ g.pc \in {"scan", "chosen", "ret"}
    BY <1>2, <1>3, <2>2 DEF Frame
  <2> QED
    BY <1>10, <2>1, <2>3, <2>4
<1> QED
  BY <1>9, <1>11, <1>12

\* The kernel leaves the boot stack for good.
LEMMA BootIret ==
    ASSUME TaskInv, TypeInv', LaunchIret, esp.home = Boot
    PROVE  TaskInv'
<1>1. Top.pc = "iret"
  BY DEF LaunchIret, At
<1>2. PICK n \in Depths, f \in Frame :
             /\ TypeInv /\ esp = [home |-> Boot, depth |-> n] /\ esp.depth = n
             /\ f = kstack[Boot][n] /\ f = Top
             /\ tab = {InitPid} /\ current = InitPid
             /\ n = 1 \/ f.pc \in {"scan", "chosen", "ret"}
  BY <1>1, BootTop
<1>3. n = 1 /\ f.pc = "iret"
  BY <1>1, <1>2
<1>4. f.arg = UserOf(InitPid) /\ tss = InitPid /\ status[InitPid] = "active"
  BY <1>2, <1>3, BootFirstHolds DEF BootFirst
<1>5. /\ esp' = [home |-> InitPid, depth |-> 0] /\ tab' = {InitPid} /\ current' = InitPid
      /\ tss' = InitPid /\ status'[InitPid] = "active"
  BY <1>2, <1>4 DEF LaunchIret, UserOf
<1>6. InitPid # Boot /\ 0 \in 0 .. MaxDepth
  OBVIOUS
<1>7. SafeColumn(InitPid, 0 - 1)'
  BY DEF SafeColumn
<1>8. /\ \A p \in tab' : status'[p] = "active" => p = current'
      /\ \A p \in tab' : p # current' => SavedOK(p)'
  BY <1>5
<1> QED
  BY <1>5, <1>6, <1>7, <1>8, Assemble

LEMMA InitInv == Init => TaskInv
<1> SUFFICES ASSUME Init PROVE TaskInv
  OBVIOUS
<1>1. TypeInv
  BY InitType
<1>2. kstack[Boot][1] = [Dead EXCEPT !.pc = "launch", !.by = "start"]
  BY DEF Init, Stacks, Depths
<1>3. /\ esp.home = Boot /\ esp.depth = 1 /\ tab = {InitPid} /\ current = InitPid
      /\ kstack[Boot][1].pc = "launch" /\ kstack[Boot][1].by = "start"
      /\ kstack[Boot][1].it = InitPid
  BY <1>2 DEF Init, Dead
<1>4. blocked["init"]
  BY DEF Init, Flags
<1>5. \A d \in 2 .. esp.depth : FALSE
  BY <1>3
<1>6. BootInv
  BY <1>3, <1>4, <1>5 DEF BootInv
<1> QED
  BY <1>1, <1>3, <1>6 DEF TaskInv

LEMMA NextProcInv ==
    ASSUME TaskInv, TypeInv', NextProc
    PROVE  TaskInv'
<1>1. CASE esp.home # Boot
  <2>1. LaunchUnblock => TaskInv'
    BY <1>1, LaunchUserUnblockInv, LaunchKernelUnblockInv
  <2> QED
    BY <1>1, <2>1, NextProcScanInv, NextProcSwapOutInv, NextProcSwapInInv, NextProcReturnInv,
       ResumeInv, LaunchIretInv DEF NextProc
<1>2. CASE esp.home = Boot
  <2>1. ~NextProcSwapIn
    <3> SUFFICES ASSUME NextProcSwapIn PROVE FALSE
      OBVIOUS
    <3>1. Top.pc = "swapped"
      BY DEF NextProcSwapIn, At
    <3>2. \E n \in Depths : \E f :
             /\ f = Top
             /\ \/ n = 1 /\ f.pc \in {"launch", "resume", "args", "iret"}
                \/ f.pc \in {"scan", "chosen", "ret"}
      BY <1>2, <3>1, BootTop
    <3> QED
      BY <3>1, <3>2
  <2> QED
    BY <1>2, <2>1, BootSwitch, BootLaunch, BootIret DEF NextProc
<1> QED
  BY <1>1, <1>2

LEMMA SysCallInv ==
    ASSUME TaskInv, TypeInv', SysCall
    PROVE  TaskInv'
<1>1. CASE esp.home # Boot
  BY <1>1, GetpidInv, ForkInv, ExecBlockInv, ExecReplaceInv, ExecInvalidInv, LaunchInv,
     BlockGotoInv, BlockPopInv, BlockSleepInv, BlockYieldInv DEF SysCall
<1>2. CASE esp.home = Boot
  <2>1. Launch \/ Top.pc \in CallPcs \cup {"execing"}
    BY DEF SysCall, Getpid, Fork, ExecBlock, ExecReplace, ExecInvalid, BlockFlag, BlockReady,
           BlockSleep, BlockYield, BlockWoken, BlockReturn, At, CallPcs
  <2>2. Top.pc \notin CallPcs \cup {"execing"}
    <3> SUFFICES ASSUME Top.pc \in CallPcs \cup {"execing"} PROVE FALSE
      OBVIOUS
    <3>1. Top.pc \notin {"kbd", "notify", "ack"}
      BY DEF CallPcs
    <3>2. \E n \in Depths : \E f :
             /\ f = Top
             /\ \/ n = 1 /\ f.pc \in {"launch", "resume", "args", "iret"}
                \/ f.pc \in {"scan", "chosen", "ret"}
      BY <1>2, <3>1, BootTop
    <3> QED
      BY <3>2 DEF CallPcs
  <2> QED
    BY <1>2, <2>1, <2>2, BootLaunch
<1> QED
  BY <1>1, <1>2

\* TaskInv is inductive.
LEMMA TaskInductive ==
    ASSUME Windows = {}
    PROVE  TaskInv /\ [Next]_vars => TaskInv'
<1> SUFFICES ASSUME TaskInv, [Next]_vars PROVE TaskInv'
  OBVIOUS
<1>1. TypeInv'
  BY TypeInductive DEF TaskInv
<1>2. CASE UNCHANGED vars
  <2>1. /\ kstack' = kstack /\ esp' = esp /\ UNCHANGED <<tab, saved, tss, current>>
        /\ status' = status /\ blocked' = blocked
    BY <1>2 DEF vars
  <2> QED
    BY <1>1, <2>1, NoFrameMoves
<1>3. CASE NextProc
  BY <1>1, <1>3, NextProcInv
<1>4. CASE SysCall
  BY <1>1, <1>4, SysCallInv
<1>5. CASE Keyboard
  BY <1>1, <1>5, KbdReadInv, KbdNotifiedInv, KbdAckInv, KbdWakeInv DEF Keyboard
<1>6. CASE KbdIrq
  BY <1>1, <1>6, KbdIrqInv
<1>7. CASE Pit
  BY <1>1, <1>7, PitInv, BootPit
<1>8. CASE \E c \in SysCalls : Call(c)
  BY <1>1, <1>8, CallInv
<1> QED
  BY <1>2, <1>3, <1>4, <1>5, <1>6, <1>7, <1>8 DEF Next, Execute

LEMMA TaskInvContexts == TaskInv => ContextIntegrity
<1> SUFFICES ASSUME TaskInv, NEW p \in tab \ {current}
             PROVE  saved[p].home = p /\ \A d \in 1 .. saved[p].depth : Live(p, d)
  BY DEF ContextIntegrity
<1>1. SavedOK(p)
  BY DEF TaskInv
<1>2. ASSUME NEW d \in 1 .. saved[p].depth PROVE Live(p, d)
  <2>1. SafeFrame(kstack[p][d], p, d)
    BY <1>1 DEF SavedOK, SafeColumn
  <2> QED
    BY <2>1 DEF SafeFrame, KbdFrame, CallPcs, Live
<1> QED
  BY <1>1, <1>2 DEF SavedOK

LEMMA TaskInvUser == TaskInv => UserRunsAsCurrent
<1> SUFFICES ASSUME TaskInv PROVE UserRunsAsCurrent
  OBVIOUS
<1>1. ASSUME UserMode PROVE esp.home = current /\ tss = current /\ status[current] = "active"
  <2>1. esp.home # Boot
    BY <1>1 DEF TaskInv, BootInv, UserMode
  <2>2. ~Switching /\ ~Drowsy
    BY <1>1 DEF UserMode, Switching, Drowsy
  <2> QED
    BY <2>1, <2>2 DEF TaskInv, RunningInv
<1> QED
  BY <1>1 DEF TaskInv, UserRunsAsCurrent

LEMMA TaskInvNoPanic == TaskInv => NoPanic
<1> SUFFICES ASSUME TaskInv, ~UserMode, Top.pc = "panic" PROVE FALSE
  BY DEF NoPanic, At
<1>1. CASE esp.home # Boot
  <2>1. PICK h, n, f : OnTop(h, n, f)
    BY <1>1, NotKbdTop
  <2>2. f.pc = "panic" /\ (SafeFrame(f, h, n) \/ Critical(f, h, n))
    BY <2>1 DEF OnTop
  <2> QED
    BY <2>2 DEF SafeFrame, KbdFrame, CallPcs, Critical, ExecFrame, ChoiceFrame, MidFrame
<1>2. CASE esp.home = Boot
  <2>1. \E n \in Depths : \E f :
             /\ f = Top
             /\ \/ n = 1 /\ f.pc \in {"launch", "resume", "args", "iret"}
                \/ f.pc \in {"scan", "chosen", "ret"}
    BY <1>2, BootTop
  <2> QED
    BY <2>1
<1> QED
  BY <1>1, <1>2

\* Away from the windows the invariant holds of every reachable state.
LEMMA TaskInvHolds ==
    ASSUME Windows = {}
    PROVE  Spec => []TaskInv
<1>1. Init => TaskInv
  BY InitInv
<1>2. TaskInv /\ [Next]_vars => TaskInv'
  BY TaskInductive
<1> QED
  BY <1>1, <1>2, PTL DEF Spec

\* Away from the windows, whatever interrupts nest and however often they
\* switch: the context that Process::resume restores lies on the stack of the
\* process it belongs to, in frames that have not been left.
THEOREM ContextsKept ==
    ASSUME Windows = {}
    PROVE  Spec => []ContextIntegrity
BY TaskInvHolds, TaskInvContexts, PTL

\* Away from the windows user code runs only as the process that current_proc,
\* the TSS and the one active status name.
THEOREM CurrentRuns ==
    ASSUME Windows = {}
    PROVE  Spec => []UserRunsAsCurrent
BY TaskInvHolds, TaskInvUser, PTL

\* Away from the windows next_proc never fails to swap in the process it
\* chose, and getpid, fork and execve never find current_proc inactive.
THEOREM NeverPanics ==
    ASSUME Windows = {}
    PROVE  Spec => []NoPanic
BY TaskInvHolds, TaskInvNoPanic, PTL
=============================================================================
