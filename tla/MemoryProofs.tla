---------------------------- MODULE MemoryProofs ----------------------------
(* No frame is shared and no mapped frame is free, for every number of       *)
(* processes, frames and pages, every layout of the address space and any    *)
(* interleaving of the calls, page by page.                                  *)
(*                                                                           *)
(* Isolation is not inductive: fork hands the frame under its copy space to  *)
(* the child, so the copy spaces of the forks in progress and the free       *)
(* blocks must be told apart from every mapped frame and from each other,    *)
(* and an allocator returns a fresh frame only if everything mapped is       *)
(* marked. Frame 0 is marked for good: it stands for "not mapped".           *)
(*                                                                           *)
(* The second part proves that what a process owns is mapped and that the    *)
(* processor sees it. The invariant, MapInv, says for each call in progress   *)
(* which pages of the caller and of the child of fork are mapped already.     *)
(*                                                                           *)
(* The third part is about the heaps.  Tiled says nothing of the walks that   *)
(* are on their way, or of who has a block: HInv adds where each call is in   *)
(* the list, a use for every block that is not free, the room below top, and  *)
(* that the malloc of a page table within a malloc stays under that table.    *)
EXTENDS Memory, Heap, WellFoundedInduction, TLAPS

\* What is needed of the types.
Shape ==
    /\ used \subseteq Frames
    /\ 0 \in used
    /\ map \in [Procs -> [Pages -> Frames]]
    /\ alive \subseteq Procs
    /\ current \in Procs
    /\ DOMAIN call = Procs
    /\ \A p \in Procs : call[p].op = "fork" =>
        /\ call[p].child \in Procs
        /\ call[p].copy \in Frames
    /\ blocks \subseteq Frames

\* The frame f backs page v of process p.
Backs(f, p, v) == f # 0 /\ map[p][v] = f

\* A frame backs one page at most.
OnePage ==
    \A p, q \in Procs : \A v, w \in Pages :
        Backs(map[p][v], p, v) /\ map[q][w] = map[p][v] => p = q /\ v = w

\* Mapped frames are marked and under no copy space.
Marked ==
    \A p \in Procs : \A v \in Pages : map[p][v] # 0 =>
        /\ map[p][v] \in used
        /\ map[p][v] \notin blocks
        /\ \A q \in Procs : map[p][v] # CopyOf(q)

\* Copy spaces are marked, and no two of them share a frame.
CopiesApart ==
    /\ blocks \subseteq used
    /\ \A p \in Procs :
        /\ CopyOf(p) \in used
        /\ CopyOf(p) # 0 => CopyOf(p) \notin blocks
        /\ \A q \in Procs : CopyOf(p) # 0 /\ CopyOf(q) = CopyOf(p) => q = p

IInv == Shape /\ OnePage /\ Marked /\ CopiesApart

\* The calls as the actions write them.
LEMMA CallShapes ==
    /\ InUser.op = "user"
    /\ \A v : Launching(v).op = "launch"
    /\ \A c, v, f : /\ Forking(c, v, f).op = "fork"
                    /\ Forking(c, v, f).child = c
                    /\ Forking(c, v, f).copy = f
    /\ \A a, b : Growing(a, b).op = "grow" /\ Shrinking(a, b).op = "shrink"
    /\ \A a : Stacking(a).op = "stack"
BY DEF InUser, Launching, Forking, Growing, Shrinking, Stacking

\* No fork begins, and one in progress keeps its child and its copy space.
CallStep ==
    /\ DOMAIN call' = Procs
    /\ \A p \in Procs : call'[p].op = "fork" =>
        /\ call[p].op = "fork"
        /\ call'[p].child = call[p].child
        /\ call'[p].copy = call[p].copy

\* The free blocks stay, or the current process gives its copy space back.
BlocksStep ==
    \/ blocks' = blocks
    \/ /\ call[current].op = "fork" /\ call'[current].op # "fork"
       /\ blocks' = blocks \cup {call[current].copy}

LEMMA CopyFacts ==
    ASSUME IInv, CallStep, BlocksStep
    PROVE  /\ \A p \in Procs : CopyOf(p)' = CopyOf(p) \/ CopyOf(p)' = 0
           /\ \A p \in Procs : CopyOf(p)' # 0 => CopyOf(p)' \notin blocks'
           /\ blocks' \subseteq blocks \cup {CopyOf(current)}
<1>1. \A p \in Procs : CopyOf(p)' = CopyOf(p) \/ CopyOf(p)' = 0
  BY DEF CopyOf, CallStep
<1>2. \/ blocks' = blocks
      \/ blocks' = blocks \cup {CopyOf(current)} /\ call'[current].op # "fork"
  BY DEF CopyOf, BlocksStep
<1>3. ASSUME NEW p \in Procs, CopyOf(p)' # 0
      PROVE  CopyOf(p)' = CopyOf(p) /\ call'[p].op = "fork" /\ CopyOf(p) \notin blocks
  BY <1>1, <1>3 DEF CopyOf, IInv, CopiesApart
<1>4. ASSUME NEW p \in Procs, CopyOf(p)' # 0 PROVE CopyOf(p)' \notin blocks'
  <2>1. CASE blocks' = blocks
    BY <1>3, <1>4, <2>1
  <2>2. CASE blocks' = blocks \cup {CopyOf(current)} /\ call'[current].op # "fork"
    <3>1. p # current /\ CopyOf(p) # 0 /\ current \in Procs
      BY <1>3, <1>4, <2>2 DEF IInv, Shape
    <3>2. CopyOf(p) # CopyOf(current)
      BY <3>1 DEF IInv, CopiesApart
    <3> QED BY <1>3, <1>4, <2>2, <3>2
  <2> QED BY <1>2, <2>1, <2>2
<1> QED BY <1>1, <1>2, <1>4

\* A step that maps nothing new and leaves marks, copy spaces and forks alone.
LEMMA StepKeeps ==
    ASSUME IInv,
           map' \in [Procs -> [Pages -> Frames]],
           \A p \in Procs, v \in Pages : map'[p][v] = map[p][v] \/ map'[p][v] = 0,
           used' = used, BlocksStep, CallStep,
           alive' \subseteq Procs, current' \in Procs
    PROVE  IInv'
<1>1. /\ \A p \in Procs : CopyOf(p)' = CopyOf(p) \/ CopyOf(p)' = 0
      /\ \A p \in Procs : CopyOf(p)' # 0 => CopyOf(p)' \notin blocks'
      /\ blocks' \subseteq blocks \cup {CopyOf(current)}
  BY CopyFacts
<1>2. Shape'
  BY <1>1 DEF IInv, Shape, CallStep, CopiesApart
<1>3. OnePage'
  BY DEF IInv, OnePage, Backs, Shape
<1>4. Marked'
  BY <1>1 DEF IInv, Marked, Shape
<1>5. CopiesApart'
  BY <1>1 DEF IInv, CopiesApart, Shape
<1> QED BY <1>2, <1>3, <1>4, <1>5 DEF IInv

\* A fresh frame is backed into a page that had none.
LEMMA AllocateKeeps ==
    ASSUME IInv, NEW d, NEW p \in Procs, NEW v, Allocate(d, p, v),
           UNCHANGED blocks, CallStep, alive' \subseteq Procs, current' \in Procs
    PROVE  IInv'
<1>1. PICK f \in Frames \ used :
        /\ map' = [map EXCEPT ![p][v] = f]
        /\ used \cup {f} \subseteq used'
        /\ used' \subseteq Frames
  <2>1. PICK f \in Frames :
          /\ IsNext(f, last[d], used)
          /\ map' = [map EXCEPT ![p][v] = f]
          /\ \/ used' = used \cup {f}
             \/ \E g \in Frames : used' = used \cup {f, g}
    BY DEF Allocate
  <2>2. f \in Frames \ used
    BY <2>1 DEF IsNext
  <2>3. used \cup {f} \subseteq used' /\ used' \subseteq Frames
    BY <2>1 DEF IInv, Shape
  <2> QED BY <2>1, <2>2, <2>3
<1>2. \A q \in Procs : CopyOf(q)' = CopyOf(q) \/ CopyOf(q)' = 0
  BY DEF CopyOf, CallStep
<1>3. /\ map' \in [Procs -> [Pages -> Frames]]
      /\ f # 0
      /\ \A q \in Procs, w \in Pages :
            map'[q][w] = IF q = p /\ w = v THEN f ELSE map[q][w]
  BY <1>1 DEF IInv, Shape
<1>4. Shape'
  BY <1>1, <1>3 DEF IInv, Shape, CallStep
<1>5. OnePage'
  BY <1>1, <1>3 DEF IInv, OnePage, Marked, Backs, Shape
<1>6. Marked'
  BY <1>1, <1>2, <1>3 DEF IInv, Marked, CopiesApart, Shape
<1>7. CopiesApart'
  BY <1>1, <1>2 DEF IInv, CopiesApart, Shape
<1> QED BY <1>4, <1>5, <1>6, <1>7 DEF IInv

\* Pages of the current process lose their frames, and so may all those of q.
LEMMA FreeKeeps ==
    ASSUME IInv, NEW vs, FreePages(vs),
           map' \in [Procs -> [Pages -> Frames]],
           \A p \in Procs, v \in Pages : map'[p][v] = map[p][v] \/ map'[p][v] = 0,
           \A v \in vs \cap Pages : map'[current][v] = 0,
           BlocksStep, CallStep, alive' \subseteq Procs, current' \in Procs
    PROVE  IInv'
<1>1. /\ \A p \in Procs : CopyOf(p)' = CopyOf(p) \/ CopyOf(p)' = 0
      /\ \A p \in Procs : CopyOf(p)' # 0 => CopyOf(p)' \notin blocks'
      /\ blocks' \subseteq blocks \cup {CopyOf(current)}
  BY CopyFacts
<1>2. \A f \in used : f \notin used' => f # 0 /\ \E v \in vs \cap Pages : map[current][v] = f
  BY DEF FreePages
<1>2a. used' \subseteq used
  BY DEF FreePages
<1>3. Shape'
  BY <1>1, <1>2, <1>2a DEF IInv, Shape, CallStep, CopiesApart
<1>4. OnePage'
  BY DEF IInv, OnePage, Backs, Shape
<1>5. ASSUME NEW p \in Procs, NEW v \in Pages, map'[p][v] # 0
      PROVE  map'[p][v] \in used'
  <2>1. map'[p][v] = map[p][v] /\ map[p][v] \in used
    BY <1>5 DEF IInv, Marked
  <2>2. SUFFICES ASSUME map[p][v] \notin used' PROVE FALSE
    BY <2>1
  <2>3. PICK w \in vs \cap Pages : map[current][w] = map[p][v]
    BY <1>2, <2>1, <2>2
  <2>4. p = current /\ v = w
    BY <1>5, <2>1, <2>3 DEF IInv, OnePage, Backs, Shape
  <2> QED BY <1>5, <2>3, <2>4
<1>6. Marked'
  BY <1>1, <1>5 DEF IInv, Marked, Shape
<1>7. \A f \in used : (f \in blocks \/ \E p \in Procs : f = CopyOf(p)) => f \in used'
  BY <1>2 DEF IInv, Marked, Shape
<1>8. CopiesApart'
  BY <1>1, <1>2, <1>7 DEF IInv, CopiesApart, Shape
<1> QED BY <1>3, <1>4, <1>6, <1>8 DEF IInv

LEMMA DestroyKeeps ==
    ASSUME IInv, NEW q \in Procs, Destroy(q),
           BlocksStep, CallStep, alive' \subseteq Procs, current' \in Procs
    PROVE  IInv'
<1>2. FreePages(FreeUserSpace)
  BY DEF Destroy
<1>3. map' = [map EXCEPT ![current] = Without(map[current], FreeUserSpace), ![q] = Unmapped]
  BY DEF Destroy
<1>4. 0 \in Frames
  BY DEF IInv, Shape
<1>5. Without(map[current], FreeUserSpace) \in [Pages -> Frames] /\ Unmapped \in [Pages -> Frames]
  BY <1>4 DEF IInv, Shape, Without, Unmapped
<1>6. map' \in [Procs -> [Pages -> Frames]]
  BY <1>3, <1>5 DEF IInv, Shape
<1>7. \A p \in Procs, v \in Pages : map'[p][v] = map[p][v] \/ map'[p][v] = 0
  BY <1>3 DEF IInv, Shape, Without, Unmapped
<1>8. \A v \in FreeUserSpace \cap Pages : map'[current][v] = 0
  BY <1>3 DEF IInv, Shape, Without, Unmapped
<1> QED BY <1>2, <1>6, <1>7, <1>8, FreeKeeps

\* Every step keeps the invariant.
LEMMA Step == ASSUME IInv, [Next]_vars PROVE IInv'
<1> USE DEF Running, Become
<1>0. /\ current \in Procs /\ alive \subseteq Procs /\ DOMAIN call = Procs
      /\ map \in [Procs -> [Pages -> Frames]] /\ 0 \in Frames
  BY DEF IInv, Shape
<1>1. ASSUME NEW c, call' = [call EXCEPT ![current] = c], c.op # "fork"
      PROVE  CallStep
  BY <1>0, <1>1 DEF CallStep
<1>2. CASE ExecBegin
  <2>1. map' \in [Procs -> [Pages -> Frames]]
    BY <1>0, <1>2 DEF ExecBegin, Unmapped
  <2>2. \A p \in Procs, v \in Pages : map'[p][v] = map[p][v] \/ map'[p][v] = 0
    BY <1>0, <1>2 DEF ExecBegin, Unmapped
  <2>3. /\ UNCHANGED <<used, blocks, alive, current>>
        /\ call' = [call EXCEPT ![current] = Launching(Base)]
    BY <1>2 DEF ExecBegin
  <2> QED BY <1>0, <1>1, <2>1, <2>2, <2>3, StepKeeps, CallShapes DEF BlocksStep
<1>3. CASE LaunchMap
  <2>1. /\ Allocate(Kernel, current, call[current].page)
        /\ UNCHANGED <<blocks, alive, current>>
        /\ call' = [call EXCEPT ![current] = Launching(LaunchNext(call[current].page))]
    BY <1>3 DEF LaunchMap
  <2> QED BY <1>0, <1>1, <2>1, AllocateKeeps, CallShapes
<1>4. CASE LaunchPanics \/ ForkPanics \/ ForkFaults \/ BrkFaults \/ StackFails
  <2>1. UNCHANGED <<used, map, blocks, alive, current, call>>
    BY <1>4 DEF LaunchPanics, ForkPanics, ForkFaults, BrkFaults, StackFails
  <2> QED BY <1>0, <2>1, StepKeeps DEF BlocksStep, CallStep
<1>5. CASE LaunchEnd
  <2>1. /\ UNCHANGED <<used, map, blocks, alive, current>>
        /\ call' = [call EXCEPT ![current] = InUser]
    BY <1>5 DEF LaunchEnd
  <2> QED BY <1>0, <1>1, <2>1, StepKeeps, CallShapes DEF BlocksStep
<1>6. ASSUME NEW c \in Procs, ForkBegin(c) PROVE IInv'
  <2>1. PICK f \in Frames : CopySpace(f) /\ call' = [call EXCEPT ![current] = Forking(c, Base, f)]
    BY <1>6 DEF ForkBegin
  <2>2. /\ map' = [map EXCEPT ![c] = Unmapped]
        /\ UNCHANGED <<alive, current>>
        /\ call[current].op = "user"
    BY <1>6 DEF ForkBegin
  <2>3. /\ map' \in [Procs -> [Pages -> Frames]]
        /\ \A p \in Procs, v \in Pages : map'[p][v] = map[p][v] \/ map'[p][v] = 0
    BY <1>0, <2>2 DEF Unmapped
  <2>4. \A p \in Procs : CopyOf(p)' = IF p = current THEN f ELSE CopyOf(p)
    BY <1>0, <2>1, CallShapes DEF CopyOf
  <2>5. /\ blocks' \subseteq blocks
        /\ used \subseteq used' /\ used' \subseteq Frames
        /\ f \in used' /\ f \notin blocks'
        /\ f \in blocks \/ f \notin used
    <3>1. CASE f \in blocks /\ blocks' = blocks \ {f} /\ used' = used
      BY <3>1 DEF IInv, CopiesApart, Shape
    <3>2. CASE blocks = {} /\ blocks' = {} /\ IsNext(f, last[Kernel], used) /\ used' = used \cup {f}
      BY <3>2 DEF IsNext, IInv, Shape
    <3> QED BY <2>1, <3>1, <3>2 DEF CopySpace
  <2>6. Shape'
    BY <1>0, <1>6, <2>1, <2>2, <2>3, <2>5, CallShapes DEF IInv, Shape
  <2>7. OnePage'
    BY <1>0, <2>3 DEF IInv, OnePage, Backs, Shape
  <2>8. Marked'
    BY <1>0, <2>3, <2>4, <2>5 DEF IInv, Marked, Shape
  <2>9. CopiesApart'
    BY <1>0, <2>4, <2>5 DEF IInv, CopiesApart, Shape
  <2> QED BY <2>6, <2>7, <2>8, <2>9 DEF IInv
<1>7. CASE ForkSkip
  <2>1. /\ UNCHANGED <<used, map, blocks, alive, current>>
        /\ call[current].op = "fork"
        /\ call' = [call EXCEPT ![current] =
                      Forking(call[current].child, call[current].page + 1, call[current].copy)]
    BY <1>7 DEF ForkSkip
  <2>2. CallStep
    BY <1>0, <2>1, CallShapes DEF CallStep
  <2> QED BY <1>0, <2>1, <2>2, StepKeeps DEF BlocksStep
<1>8. CASE ForkCopy
  <2> DEFINE c == call[current]
  <2>1. PICK f \in Frames : Remap(f) /\ call' = [call EXCEPT ![current] = Forking(c.child, c.page + 1, f)]
    BY <1>8 DEF ForkCopy
  <2>2. /\ c.op = "fork" /\ c.copy # 0
        /\ map' = [map EXCEPT ![c.child][c.page] = c.copy]
        /\ UNCHANGED <<alive, current, blocks>>
    BY <1>8 DEF ForkCopy
  <2>3. c.child \in Procs /\ c.copy \in Frames /\ c.copy = CopyOf(current)
    BY <1>0, <2>2 DEF IInv, Shape, CopyOf
  <2>4. \A p \in Procs : CopyOf(p)' = IF p = current THEN f ELSE CopyOf(p)
    BY <1>0, <2>1, CallShapes DEF CopyOf
  <2>5. /\ map' \in [Procs -> [Pages -> Frames]]
        /\ \A p \in Procs, v \in Pages :
            map'[p][v] = IF p = c.child /\ v = c.page THEN c.copy ELSE map[p][v]
    BY <1>0, <2>2, <2>3
  <2>6. /\ used \subseteq used' /\ used' \subseteq Frames
        /\ f \in used' /\ (f = 0 \/ f \notin used)
    BY <2>1 DEF Remap, IsNext, IInv, Shape
  <2>7. Shape'
    BY <1>0, <2>1, <2>2, <2>3, <2>5, <2>6, CallShapes DEF IInv, Shape
  <2>8. OnePage'
    BY <1>0, <2>2, <2>3, <2>5 DEF IInv, OnePage, Marked, Backs, Shape
  <2>9. ASSUME NEW p \in Procs, NEW v \in Pages, map'[p][v] # 0
        PROVE  /\ map'[p][v] \in used'
               /\ map'[p][v] \notin blocks'
               /\ \A q \in Procs : map'[p][v] # CopyOf(q)'
    <3>1. CASE p = c.child /\ v = c.page
      BY <1>0, <2>2, <2>3, <2>4, <2>5, <2>6, <3>1 DEF IInv, CopiesApart, Shape
    <3>2. CASE ~(p = c.child /\ v = c.page)
      BY <1>0, <2>2, <2>4, <2>5, <2>6, <2>9, <3>2 DEF IInv, Marked, Shape
    <3> QED BY <3>1, <3>2
  <2>10. Marked'
    BY <2>9 DEF Marked
  <2>11. CopiesApart'
    BY <1>0, <2>2, <2>4, <2>6 DEF IInv, CopiesApart, Shape
  <2> QED BY <2>7, <2>8, <2>10, <2>11 DEF IInv
<1>9. CASE ForkEnd
  <2>1. /\ UNCHANGED <<used, map, current>>
        /\ call[current].op = "fork"
        /\ blocks' = blocks \cup {call[current].copy}
        /\ alive' = alive \cup {call[current].child}
        /\ call' = [call EXCEPT ![current] = InUser]
    BY <1>9 DEF ForkEnd
  <2>2. CallStep /\ BlocksStep
    BY <1>0, <1>1, <2>1, CallShapes DEF BlocksStep
  <2>3. alive' \subseteq Procs
    BY <2>1 DEF IInv, Shape
  <2> QED BY <1>0, <2>1, <2>2, <2>3, StepKeeps
<1>10. CASE ForkFails
  <2>1. /\ UNCHANGED <<alive, current>>
        /\ call[current].op = "fork"
        /\ blocks' = blocks \cup {call[current].copy}
        /\ Destroy(call[current].child)
        /\ call' = [call EXCEPT ![current] = InUser]
    BY <1>10 DEF ForkFails
  <2>2. CallStep /\ BlocksStep
    BY <1>0, <1>1, <2>1, CallShapes DEF BlocksStep
  <2>3. call[current].child \in Procs
    BY <2>1 DEF IInv, Shape
  <2> QED BY <1>0, <2>1, <2>2, <2>3, DestroyKeeps
<1>11. ASSUME NEW q \in Procs, Reap(q) PROVE IInv'
  <2>1. /\ Destroy(q) /\ alive' \subseteq Procs
        /\ UNCHANGED <<current, call, blocks>>
    BY <1>0, <1>11 DEF Reap
  <2> QED BY <1>0, <2>1, DestroyKeeps DEF BlocksStep, CallStep
<1>12. ASSUME NEW a \in Addresses, Brk(a) PROVE IInv'
  <2>1. /\ UNCHANGED <<used, map, blocks, alive, current>>
        /\ \E x, y : \/ call' = [call EXCEPT ![current] = Growing(x, y)]
                    \/ call' = [call EXCEPT ![current] = Shrinking(x, y)]
    BY <1>12 DEF Brk
  <2> QED BY <1>0, <1>1, <2>1, StepKeeps, CallShapes DEF BlocksStep
<1>13. CASE BrkGrow
  <2>1. /\ Allocate(current, current, call[current].at \div PageSize + 1)
        /\ UNCHANGED <<blocks, alive, current>>
        /\ call' = [call EXCEPT ![current] =
                      Growing(call[current].to, call[current].at + PageSize)]
    BY <1>13 DEF BrkGrow
  <2> QED BY <1>0, <1>1, <2>1, AllocateKeeps, CallShapes
<1>14. CASE BrkGrowFails
  <2>1. /\ UNCHANGED <<used, map, blocks, alive, current>>
        /\ call' = call \/ call' = [call EXCEPT ![current] = InUser]
    BY <1>14 DEF BrkGrowFails
  <2>2. CallStep
    BY <1>0, <1>1, <2>1, CallShapes DEF CallStep
  <2> QED BY <1>0, <2>1, <2>2, StepKeeps DEF BlocksStep
<1>15. CASE BrkShrink
  <2> DEFINE v == call[current].at \div PageSize
  <2>1. /\ FreePages({v})
        /\ map' = [map EXCEPT ![current] = Without(@, {v})]
        /\ UNCHANGED <<blocks, alive, current>>
        /\ call' = [call EXCEPT ![current] =
                      Shrinking(call[current].to, call[current].at - PageSize)]
    BY <1>15 DEF BrkShrink
  <2>2. map' \in [Procs -> [Pages -> Frames]]
    BY <1>0, <2>1 DEF Without
  <2>3. /\ \A p \in Procs, w \in Pages : map'[p][w] = map[p][w] \/ map'[p][w] = 0
        /\ \A w \in {v} \cap Pages : map'[current][w] = 0
    BY <1>0, <2>1 DEF Without
  <2>4. CallStep
    BY <1>1, <2>1, CallShapes
  <2> QED BY <1>0, <2>1, <2>2, <2>3, <2>4, FreeKeeps DEF BlocksStep
<1>16. CASE BrkEnd
  <2>1. /\ UNCHANGED <<used, map, blocks, alive, current>>
        /\ call' = [call EXCEPT ![current] = InUser]
    BY <1>16 DEF BrkEnd
  <2> QED BY <1>0, <1>1, <2>1, StepKeeps, CallShapes DEF BlocksStep
<1>17. ASSUME NEW v \in Pages, NEW first \in BOOLEAN, PageFault(v, first) PROVE IInv'
  <2>1. /\ UNCHANGED <<used, map, blocks, alive, current>>
        /\ call' = call \/ \E n : call' = [call EXCEPT ![current] = Stacking(n)]
    BY <1>17 DEF PageFault
  <2>2. CallStep
    BY <1>0, <1>1, <2>1, CallShapes DEF CallStep
  <2> QED BY <1>0, <2>1, <2>2, StepKeeps DEF BlocksStep
<1>18. CASE StackGrow
  <2>1. /\ Allocate(current, current, Top - stack[current] - 1)
        /\ UNCHANGED <<blocks, alive, current, call>>
    BY <1>18 DEF StackGrow
  <2> QED BY <1>0, <2>1, AllocateKeeps DEF CallStep
<1>19. CASE StackEnd
  <2>1. /\ UNCHANGED <<used, map, blocks, alive, current>>
        /\ call' = [call EXCEPT ![current] = InUser]
    BY <1>19 DEF StackEnd
  <2> QED BY <1>0, <1>1, <2>1, StepKeeps, CallShapes DEF BlocksStep
<1>20. ASSUME NEW q \in Procs, Switch(q) PROVE IInv'
  <2>1. UNCHANGED <<used, map, blocks, alive, call>> /\ current' = q
    BY <1>20 DEF Switch
  <2> QED BY <1>0, <1>20, <2>1, StepKeeps DEF BlocksStep, CallStep
<1>21. CASE UNCHANGED vars
  BY <1>0, <1>21, StepKeeps DEF vars, BlocksStep, CallStep
<1> QED
  BY <1>2, <1>3, <1>4, <1>5, <1>6, <1>7, <1>8, <1>9, <1>10, <1>11, <1>12, <1>13,
     <1>14, <1>15, <1>16, <1>17, <1>18, <1>19, <1>20, <1>21 DEF Next

LEMMA Start == ASSUME Init PROVE IInv
<1>1. BootFrames - 1 \in Nat /\ 0 \in 0 .. BootFrames - 1 /\ 0 \in Frames
  BY FramesAssumption DEF Frames
<1>2. \A p \in Procs : CopyOf(p) = 0 /\ call[p].op # "fork"
  BY CallShapes DEF Init, CopyOf
<1>3. Shape
  BY <1>1, <1>2, ProcsAssumption, FramesAssumption DEF Init, Shape, Frames, Unmapped
<1>4. OnePage /\ Marked
  BY DEF Init, OnePage, Marked, Backs, Unmapped
<1>5. CopiesApart
  BY <1>1, <1>2 DEF Init, CopiesApart
<1> QED BY <1>3, <1>4, <1>5 DEF IInv

\* Processes are kept apart: no frame backs two pages of any two processes, nor a
\* page and the heap a fork copies through (duplicate_user_space, allocate).
THEOREM ProcessesIsolated == Spec => []Isolation
<1>1. IInv => Isolation
  BY DEF IInv, Shape, OnePage, Marked, Backs, Isolation, CopyFrames
<1> QED BY <1>1, Start, Step, PTL DEF Spec

\* A mapped frame is marked in used_pages, whatever is freed or reaped, so that
\* no PageFrameAllocator, each with its own last_alloc, hands it out again.
THEOREM MappedFramesMarked == Spec => []MappedAreUsed
<1>1. IInv => MappedAreUsed
  BY DEF IInv, Marked, CopiesApart, MappedAreUsed, CopyFrames
<1> QED BY <1>1, Start, Step, PTL DEF Spec
-----------------------------------------------------------------------------
(* What a process owns is mapped.  The addresses enter only through the      *)
(* numbers of pages below them, so that no step but those of PageCounts      *)
(* multiplies.                                                               *)

Floor(a) == a \div PageSize
Ceil(a) == IF a % PageSize = 0 THEN Floor(a) ELSE Floor(a) + 1

LEMMA Division ==
    ASSUME NEW a \in Nat
    PROVE  /\ Floor(a) \in Nat /\ a % PageSize \in 0 .. PageSize - 1
           /\ a = PageSize * Floor(a) + (a % PageSize)
BY LayoutAssumption DEF Floor

LEMMA Order ==
    ASSUME NEW m \in Int, NEW n \in Int
    PROVE  /\ m * PageSize \in Int /\ n * PageSize \in Int
           /\ m < n => m * PageSize + PageSize <= n * PageSize
           /\ m * PageSize < n * PageSize => m < n
           /\ (m + 1) * PageSize = m * PageSize + PageSize
<1>1. PageSize \in Nat /\ PageSize > 0
  BY LayoutAssumption
<1>2. \A k \in Nat : k * PageSize >= 0
  BY <1>1
<1>3. ASSUME m < n PROVE m * PageSize + PageSize <= n * PageSize
  <2>1. n - m - 1 \in Nat
    BY <1>3
  <2>2. n * PageSize = m * PageSize + PageSize + (n - m - 1) * PageSize
    BY <1>1
  <2> QED BY <1>1, <1>2, <2>1, <2>2
<1>4. ASSUME n <= m PROVE n * PageSize <= m * PageSize
  <2>1. m - n \in Nat
    BY <1>4
  <2>2. m * PageSize = n * PageSize + (m - n) * PageSize
    BY <1>1
  <2> QED BY <1>1, <1>2, <2>1, <2>2
<1> QED BY <1>1, <1>3, <1>4

LEMMA PageCounts ==
    ASSUME NEW a \in Nat
    PROVE  /\ Floor(a) \in Nat /\ Ceil(a) \in Nat
           /\ Ceil(a) <= Floor(a) + 1
           /\ RoundUp(a) = (Floor(a) + 1) * PageSize
           /\ BreakBot(a) = (Ceil(a) - 1) * PageSize
           /\ \A n \in Int : n * PageSize < a <=> n < Ceil(a)
           /\ \A n \in Int : a < n * PageSize <=> Floor(a) < n
<1> DEFINE f == Floor(a)
           r == a % PageSize
<1>0. PageSize \in Nat /\ PageSize > 0
  BY LayoutAssumption
<1>1. f \in Nat /\ r \in 0 .. PageSize - 1 /\ a = PageSize * f + r
  BY Division
<1>2. f * PageSize \in Nat /\ a = f * PageSize + r
  BY <1>0, <1>1
<1>3. (f + 1) * PageSize = f * PageSize + PageSize
  BY <1>1, Order
<1>4. Ceil(a) = IF r = 0 THEN f ELSE f + 1
  BY DEF Ceil
<1>5. (f - 1) * PageSize = f * PageSize - PageSize
  BY <1>0, <1>1
<1>9. f = Floor(a)
  OBVIOUS
<1> HIDE DEF f, r
<1>6. RoundUp(a) = (f + 1) * PageSize
  BY <1>0, <1>1, <1>2, <1>3 DEF RoundUp, r
<1>7. BreakBot(a) = (Ceil(a) - 1) * PageSize
  <2>1. CASE r = 0
    BY <1>1, <1>2, <1>4, <1>5, <2>1, <1>0 DEF BreakBot, r
  <2>2. CASE r # 0
    <3>1. Ceil(a) - 1 = f
      BY <1>1, <1>4, <2>2
    <3> QED BY <1>0, <1>1, <1>2, <2>2, <3>1 DEF BreakBot, r
  <2> QED BY <2>1, <2>2
<1>8. ASSUME NEW n \in Int
      PROVE  (n * PageSize < a <=> n < Ceil(a)) /\ (a < n * PageSize <=> f < n)
  <2>1. /\ n * PageSize \in Int
        /\ n < f => n * PageSize + PageSize <= f * PageSize
        /\ f < n => f * PageSize + PageSize <= n * PageSize
    <3>1. f \in Int
      BY <1>1
    <3>2. n < f => n * PageSize + PageSize <= f * PageSize
      BY <3>1, Order
    <3>3. f < n => f * PageSize + PageSize <= n * PageSize
      BY <3>1, Order
    <3> QED BY <1>0, <3>2, <3>3
  <2>2. n < f \/ n = f \/ f < n
    BY <1>1
  <2>3. CASE n < f
    BY <1>0, <1>1, <1>2, <1>4, <2>1, <2>3
  <2>4. CASE n = f
    BY <1>0, <1>1, <1>2, <1>4, <2>4
  <2>5. CASE f < n
    BY <1>0, <1>1, <1>2, <1>4, <2>1, <2>5
  <2> QED BY <2>2, <2>3, <2>4, <2>5
<1> QED BY ONLY <1>1, <1>4, <1>6, <1>7, <1>8, <1>9

LEMMA CountTypes ==
    ASSUME NEW a \in Nat
    PROVE  Floor(a) \in Nat /\ Ceil(a) \in Nat /\ Ceil(a) <= Floor(a) + 1
BY PageCounts

LEMMA Below ==
    ASSUME NEW a \in Nat, NEW n \in Int
    PROVE  n * PageSize < a <=> n < Ceil(a)
BY PageCounts

LEMMA Above ==
    ASSUME NEW a \in Nat, NEW n \in Int
    PROVE  a < n * PageSize <=> Floor(a) < n
BY PageCounts

LEMMA FloorOf ==
    ASSUME NEW k \in Nat
    PROVE  Floor(k * PageSize) = k
<1>0. PageSize \in Nat /\ PageSize > 0
  BY LayoutAssumption
<1>1. k * PageSize \in Nat
  BY <1>0
<1>2. Floor(k * PageSize) \in Nat
  BY <1>1, CountTypes
<1>3. k * PageSize < (k + 1) * PageSize <=> Floor(k * PageSize) < k + 1
  BY <1>1, Above
<1>4. k * PageSize < k * PageSize <=> Floor(k * PageSize) < k
  BY <1>1, Above
<1>5. (k + 1) * PageSize = k * PageSize + PageSize
  BY Order
<1> QED BY ONLY <1>0, <1>1, <1>2, <1>3, <1>4, <1>5, k \in Nat

-----------------------------------------------------------------------------
\* Every table index is below the pages its trip through free_user_space can
\* reach: with 1024 pages a table, the user half has the tables 32 to 767, and
\* the binary begins at page 32840.
TablesBelow == \A i \in Tables : i + FreeSpan <= Base

\* The pages of p below a break and of a stack.
Own(p, v) == v < Ceil(break[p]) \/ v >= Top - stack[p]
Has(m, low, high) == \A v \in Pages : v < low \/ v >= high => m[v] # 0
HasOwn(p) == Has(map[p], Ceil(break[p]), Top - stack[p])

\* Break and stack do not overlap.
Apart(p) ==
    /\ break[p] \in Nat \ {0} /\ stack[p] \in 0 .. Top
    /\ Ceil(break[p]) <= Top - stack[p]

\* What is mapped at each stage of a call.
LaunchOK(p) ==
    LET c == call[p] IN
    /\ break[p] = ElfBreak /\ stack[p] = 1
    /\ c.page \in Base .. Top
    /\ \A v \in Pages : v < c.page /\ Own(p, v) => map[p][v] # 0
ForkOK(p) ==
    LET c == call[p] IN
    /\ HasOwn(p)
    /\ c.page \in Base .. Top
    /\ break[c.child] = break[p] /\ stack[c.child] = stack[p]
    /\ \A v \in Pages : v < c.page /\ Own(p, v) => map[c.child][v] # 0
GrowOK(p) ==
    LET c == call[p]
        k == Floor(c.at) IN
    /\ c.to \in Nat \ {0} /\ c.at \in Nat /\ c.at = k * PageSize
    /\ Ceil(c.to) <= Top - stack[p] /\ Ceil(break[p]) <= k + 1
    /\ Has(map[p], k + 1, Top - stack[p])
ShrinkOK(p) ==
    LET c == call[p] IN
    /\ c.to \in Nat \ {0} /\ c.at \in Nat
    /\ Ceil(c.to) <= Top - stack[p] /\ Floor(c.at) < Top - stack[p]
    /\ Has(map[p], Ceil(c.to), Top - stack[p])
StackOK(p) ==
    LET c == call[p] IN
    /\ HasOwn(p)
    /\ c.to \in 0 .. Top /\ Ceil(break[p]) <= Top - c.to

Given(p) ==
    /\ Apart(p)
    /\ call[p].op \in {"user", "launch", "fork", "grow", "shrink", "stack"}
    /\ call[p].op = "user" => HasOwn(p)
    /\ call[p].op = "launch" => LaunchOK(p)
    /\ call[p].op = "fork" => ForkOK(p)
    /\ call[p].op = "grow" => GrowOK(p)
    /\ call[p].op = "shrink" => ShrinkOK(p)
    /\ call[p].op = "stack" => StackOK(p)

\* Who is in a call: the live processes, one of them alone if it launches; a
\* child being made is not alive and has one parent.
Callers ==
    /\ current \in alive /\ alive \subseteq Procs
    /\ DOMAIN break = Procs /\ DOMAIN stack = Procs
    /\ \A p \in Procs \ alive : call[p].op = "user"
    /\ \A p \in Procs : call[p].op = "launch" => p = current
    /\ \A p \in Procs : call[p].op = "fork" => call[p].child \in Procs \ alive
    /\ \A p, q \in Procs : call[p].op = "fork" /\ call[q].op = "fork"
                           /\ call[p].child = call[q].child => p = q

\* What the kernel's table shows of the current process.
Seen ==
    /\ loaded \subseteq Tables
    /\ call[current].op = "launch" =>
         \A v \in Pages : map[current][v] # 0 => TableOf(v) \in loaded
    /\ call[current].op \in {"user", "fork", "grow"} =>
         \A v \in Pages : Own(current, v) => TableOf(v) \in loaded
    /\ call[current].op # "shrink" => loaded \subseteq TablesIn(map[current])

MapInv == Callers /\ Seen /\ \A p \in alive : Given(p)

LEMMA PagesAre == Pages \subseteq Nat /\ Top \in Nat /\ Base \in Nat
BY LayoutAssumption DEF Pages

LEMMA OwnedIs ==
    ASSUME NEW p, break[p] \in Nat
    PROVE  Owned(p) = {v \in Pages : Own(p, v)}
<1>1. \A v \in Pages : v * PageSize < break[p] <=> v < Ceil(break[p])
  BY Below, PagesAre
<1> QED BY <1>1 DEF Owned, Own

\* A process keeps what it has if its call, break and stack stay and nothing of
\* its own or of its child is unmapped.
LEMMA GivenKept ==
    ASSUME IInv, NEW p \in Procs, Given(p),
           call'[p] = call[p], break'[p] = break[p], stack'[p] = stack[p],
           \A v \in Pages : map[p][v] # 0 => map'[p][v] # 0,
           call[p].op = "fork" => LET c == call[p].child IN
               /\ break'[c] = break[c] /\ stack'[c] = stack[c]
               /\ \A v \in Pages : map[c][v] # 0 => map'[c][v] # 0
    PROVE  Given(p)'
<1>1. Apart(p)' /\ \A v : Own(p, v)' <=> Own(p, v)
  BY DEF Given, Apart, Own
<1>2. \A low, high : Has(map[p], low, high) => Has(map'[p], low, high)
  BY DEF Has
<1>3. HasOwn(p) => HasOwn(p)'
  BY <1>2 DEF HasOwn
<1>4. call[p].op = "launch" => LaunchOK(p)'
  BY <1>1 DEF Given, LaunchOK
<1>5. call[p].op = "fork" => ForkOK(p)'
  BY <1>1, <1>3 DEF Given, ForkOK
<1>6. call[p].op = "grow" => GrowOK(p)'
  BY <1>2 DEF Given, GrowOK
<1>7. call[p].op = "shrink" => ShrinkOK(p)'
  BY <1>2 DEF Given, ShrinkOK
<1>8. call[p].op = "stack" => StackOK(p)'
  BY <1>3 DEF Given, StackOK
<1> QED BY <1>1, <1>3, <1>4, <1>5, <1>6, <1>7, <1>8 DEF Given

\* The processes that are neither current nor x, the one made or removed.
LEMMA Others ==
    ASSUME IInv, MapInv, NEW x \in Procs,
           \A p \in Procs \ {current} : call[p].op = "fork" => call[p].child # x,
           \A q \in Procs \ {current, x} :
               /\ call'[q] = call[q] /\ break'[q] = break[q]
               /\ stack'[q] = stack[q] /\ map'[q] = map[q]
    PROVE  \A p \in alive \ {current, x} : Given(p)'
<1> SUFFICES ASSUME NEW p \in alive \ {current, x} PROVE Given(p)'
  OBVIOUS
<1>1. p \in Procs /\ Given(p) /\ p \in Procs \ {current, x}
  BY DEF MapInv, Callers
<1>2. call[p].op = "fork" => call[p].child \in Procs \ {current, x}
  BY <1>1 DEF MapInv, Callers
<1> QED BY <1>1, <1>2, GivenKept

\* A step of the current process on itself and on x, its child or the process
\* it reaps.
LEMMA Assemble ==
    ASSUME IInv, MapInv, NEW x \in Procs,
           current' = current, current \in alive',
           DOMAIN break' = Procs, DOMAIN stack' = Procs,
           alive' \subseteq alive \cup {x}, alive \ {x} \subseteq alive',
           \A p \in Procs \ {current} : call[p].op = "fork" => call[p].child # x,
           \A q \in Procs \ {current} : call'[q] = call[q],
           \A q \in Procs \ {current, x} :
               break'[q] = break[q] /\ stack'[q] = stack[q] /\ map'[q] = map[q],
           x \notin alive' => call'[x].op = "user",
           call'[current].op = "fork" => call'[current].child = x /\ x \notin alive',
           Given(current)', x \in alive' => Given(x)', Seen'
    PROVE  MapInv'
<1>1. \A p \in alive' : Given(p)'
  <2>1. \A p \in alive \ {current, x} : Given(p)'
    BY Others
  <2> QED BY <2>1
<1>2. \A p \in Procs \ alive' : call'[p].op = "user"
  BY DEF MapInv, Callers
<1>3. \A p \in Procs : call'[p].op = "launch" => p = current
  BY DEF MapInv, Callers
<1>4. \A p \in Procs : call'[p].op = "fork" => call'[p].child \in Procs \ alive'
  BY DEF MapInv, Callers
<1>5. \A p, q \in Procs : call'[p].op = "fork" /\ call'[q].op = "fork"
                          /\ call'[p].child = call'[q].child => p = q
  BY DEF MapInv, Callers
<1>6. alive' \subseteq Procs
  BY DEF MapInv, Callers
<1>7. Callers'
  BY <1>2, <1>3, <1>4, <1>5, <1>6 DEF Callers
<1> QED BY <1>1, <1>7 DEF MapInv

\* The same with nobody but the current process touched.
LEMMA Alone ==
    ASSUME IInv, MapInv, current' = current, alive' = alive,
           DOMAIN break' = Procs, DOMAIN stack' = Procs,
           \A q \in Procs \ {current} :
               /\ call'[q] = call[q] /\ break'[q] = break[q]
               /\ stack'[q] = stack[q] /\ map'[q] = map[q],
           call'[current].op # "fork", Given(current)', Seen'
    PROVE  MapInv'
<1>1. /\ current \in Procs /\ current \in alive
      /\ \A p \in Procs \ {current} : call[p].op = "fork" => call[p].child # current
  BY DEF MapInv, Callers
<1> QED BY <1>1, Assemble

LEMMA AllocateEffect ==
    ASSUME IInv, NEW d, NEW p \in Procs, NEW v, Allocate(d, p, v)
    PROVE  /\ \A q \in Procs \ {p} : map'[q] = map[q]
           /\ \A w \in Pages : w = v \/ map[p][w] # 0 => map'[p][w] # 0
           /\ \A w \in Pages : map'[p][w] # 0 => w = v \/ map[p][w] # 0
           /\ TablesIn(map[p]) \subseteq TablesIn(map'[p])
<1>1. PICK f \in Frames : f \notin used /\ map' = [map EXCEPT ![p][v] = f]
  BY DEF Allocate, IsNext
<1>2. f # 0 /\ map \in [Procs -> [Pages -> Frames]]
  BY <1>1 DEF IInv, Shape
<1>3. /\ \A q \in Procs \ {p} : map'[q] = map[q]
      /\ \A w \in Pages : map'[p][w] = IF w = v THEN f ELSE map[p][w]
  BY <1>1, <1>2
<1>4. TablesIn(map[p]) \subseteq TablesIn(map'[p])
  BY <1>2, <1>3 DEF TablesIn
<1> QED BY <1>2, <1>3, <1>4

\* The wrong pages free_user_space computes are outside the user half.
LEMMA DestroyEffect ==
    ASSUME IInv, MapInv, TablesBelow, NEW q \in Procs, q # current, Destroy(q)
    PROVE  /\ \A p \in Procs \ {q} : map'[p] = map[p]
           /\ loaded' = loaded \cap TablesIn(map[current])
<1>1. FreeUserSpace = {}
  <2>1. ASSUME NEW v \in Pages, NEW i \in loaded, v < i + FreeSpan PROVE FALSE
    <3>1. i \in Tables
      BY DEF MapInv, Seen
    <3>2. i \in Int /\ v \in Int /\ Base <= v /\ FreeSpan \in Int
      BY <3>1, LayoutAssumption DEF Tables, TableOf, Pages
    <3> QED BY <2>1, <3>1, <3>2, PagesAre DEF TablesBelow
  <2> QED BY <2>1 DEF FreeUserSpace, FreedWithTable
<1>2. map \in [Procs -> [Pages -> Frames]] /\ current \in Procs
  BY DEF IInv, Shape
<1>3. Without(map[current], FreeUserSpace) = map[current]
  BY <1>1, <1>2 DEF Without
<1> QED BY <1>2, <1>3 DEF Destroy

LEMMA Current ==
    ASSUME IInv, MapInv
    PROVE  /\ current \in Procs /\ current \in alive /\ Given(current) /\ Apart(current)
           /\ map \in [Procs -> [Pages -> Frames]] /\ DOMAIN call = Procs
           /\ DOMAIN break = Procs /\ DOMAIN stack = Procs /\ loaded \subseteq Tables
BY DEF IInv, Shape, MapInv, Callers, Seen, Given

\* The calls with their fields.
LEMMA CallFields ==
    /\ InUser.op = "user"
    /\ \A v : Launching(v).op = "launch" /\ Launching(v).page = v
    /\ \A c, v, f : /\ Forking(c, v, f).op = "fork"
                    /\ Forking(c, v, f).child = c
                    /\ Forking(c, v, f).page = v
                    /\ Forking(c, v, f).copy = f
    /\ \A a, b : /\ Growing(a, b).op = "grow" /\ Shrinking(a, b).op = "shrink"
                 /\ Growing(a, b).to = a /\ Growing(a, b).at = b
                 /\ Shrinking(a, b).to = a /\ Shrinking(a, b).at = b
    /\ \A a : Stacking(a).op = "stack" /\ Stacking(a).to = a
BY DEF InUser, Launching, Forking, Growing, Shrinking, Stacking

\* ELF break and top of the user half.
LEMMA LayoutPages ==
    /\ ElfBreak \in Nat \ {0} /\ Ceil(ElfBreak) \in Nat /\ Ceil(ElfBreak) <= Top - 1
    /\ Base \in 1 .. Top
<1>1. /\ PageSize \in Nat \ {0} /\ Base \in Nat \ {0} /\ Top \in Nat /\ ElfBreak \in Nat
      /\ Base * PageSize < ElfBreak /\ ElfBreak < (Top - 1) * PageSize
  BY LayoutAssumption
<1>2. Ceil(ElfBreak) \in Nat /\ Ceil(ElfBreak) <= Floor(ElfBreak) + 1 /\ Floor(ElfBreak) \in Nat
  BY <1>1, CountTypes
<1>3. Base < Ceil(ElfBreak)
  BY <1>1, Below
<1>4. Floor(ElfBreak) < Top - 1
  <2>1. Top - 1 \in Int
    BY <1>1
  <2> QED BY <1>1, <2>1, Above
<1>5. ElfBreak # 0
  <2>1. Base * PageSize \in Int /\ 0 * PageSize = 0 /\ (0 < Base => 0 * PageSize + PageSize <= Base * PageSize)
    BY <1>1, Order
  <2> QED BY <1>1, <2>1
<1> QED BY <1>1, <1>2, <1>3, <1>4, <1>5

LEMMA ExecBeginMaps == ASSUME IInv, MapInv, ExecBegin PROVE MapInv'
<1>1. /\ loaded' = {} /\ map' = [map EXCEPT ![current] = Unmapped]
      /\ break' = [break EXCEPT ![current] = ElfBreak]
      /\ stack' = [stack EXCEPT ![current] = 1]
      /\ call' = [call EXCEPT ![current] = Launching(Base)]
      /\ UNCHANGED <<alive, current>>
  BY DEF ExecBegin, Become
<1>2. /\ call'[current] = Launching(Base) /\ map'[current] = Unmapped
      /\ break'[current] = ElfBreak /\ stack'[current] = 1
  BY <1>1, Current
<1>3. Apart(current)'
  BY <1>1, <1>2, LayoutPages, PagesAre DEF Apart
<1>4. LaunchOK(current)'
  <2>1. \A v \in Pages : ~(v < Base) /\ Base \in Base .. Top
    BY LayoutPages, PagesAre DEF Pages
  <2>2. call'[current].page = Base
    BY <1>2, CallFields
  <2>3. \A v \in Pages : v < Base => FALSE
    BY <2>1
  <2>4. current' = current /\ Base \in Base .. Top
    BY <1>1, LayoutPages
  <2>5. \A v \in Pages : v < call'[current].page => FALSE
    BY <2>2, <2>3
  <2> QED BY <1>2, <2>2, <2>4, <2>5 DEF LaunchOK
<1>5. Given(current)'
  BY <1>1, <1>2, <1>3, <1>4, CallFields DEF Given
<1>6. Seen'
  BY <1>1, <1>2, CallFields DEF Seen, Unmapped, TablesIn
<1> QED BY <1>1, <1>2, <1>5, <1>6, Alone, Current, CallFields

LEMMA LaunchMapMaps == ASSUME IInv, MapInv, LaunchMap PROVE MapInv'
<1> DEFINE v == call[current].page
           n == LaunchNext(v)
<1>1. /\ call[current].op = "launch" /\ v < Top /\ Allocate(Kernel, current, v)
      /\ loaded' = loaded \cup {TableOf(v)}
      /\ call' = [call EXCEPT ![current] = Launching(n)]
      /\ UNCHANGED <<break, stack, alive, current>>
  BY DEF LaunchMap, Running, Become
<1>2. LaunchOK(current) /\ Apart(current)
  BY <1>1, Current DEF Given
<1>3. v \in Base .. Top /\ v \in Pages
  BY <1>1, <1>2, PagesAre DEF LaunchOK, Pages
<1>4. /\ \A q \in Procs \ {current} : map'[q] = map[q]
      /\ \A w \in Pages : w = v \/ map[current][w] # 0 => map'[current][w] # 0
      /\ \A w \in Pages : map'[current][w] # 0 => w = v \/ map[current][w] # 0
      /\ TablesIn(map[current]) \subseteq TablesIn(map'[current])
  BY <1>1, Current, AllocateEffect
<1>5. call'[current] = Launching(n) /\ \A q \in Procs \ {current} : call'[q] = call[q]
  BY <1>1, Current
<1>6. n \in Base .. Top /\ \A w \in Pages : w < n /\ Own(current, w) => w < v \/ w = v
  <2>1. (v + 1) * PageSize < ElfBreak <=> v + 1 < Ceil(ElfBreak)
    <3>1. v + 1 \in Int /\ ElfBreak \in Nat
      BY <1>3, LayoutPages
    <3> HIDE DEF v
    <3> QED BY <3>1, Below
  <2>2. n = IF v + 1 < Ceil(ElfBreak) THEN v + 1 ELSE IF v = Top - 1 THEN Top ELSE Top - 1
    BY <2>1 DEF LaunchNext
  <2>3. /\ break[current] = ElfBreak /\ stack[current] = 1
    BY <1>2 DEF LaunchOK
  <2>4. \A w \in Pages : Own(current, w) <=> w < Ceil(ElfBreak) \/ w >= Top - 1
    BY <2>3 DEF Own
  <2>5. Pages \subseteq Int /\ v \in Int /\ Top \in Int /\ Base \in Int /\ v >= Base /\ v < Top
    BY <1>1, <1>3, PagesAre
  <2>6. n \in Base .. Top
    BY <2>2, <2>5, LayoutPages
  <2>7. ASSUME NEW w \in Pages, w < n, w < Ceil(ElfBreak) \/ w >= Top - 1 PROVE w < v \/ w = v
    BY <2>2, <2>5, <2>7, LayoutPages
  <2> QED BY <2>4, <2>6, <2>7
<1> HIDE DEF v, n
<1>7. LaunchOK(current)'
  <2>1. \A w : Own(current, w)' <=> Own(current, w)
    BY <1>1 DEF Own
  <2>2. \A w \in Pages : w < v /\ Own(current, w) => map[current][w] # 0
    BY <1>2 DEF LaunchOK, v
  <2>3. call'[current].page = n
    BY <1>5, CallFields
  <2>4. \A w \in Pages : w < n /\ Own(current, w) => map'[current][w] # 0
    BY <1>4, <1>6, <2>2
  <2>5. break[current] = ElfBreak /\ stack[current] = 1
    BY <1>2 DEF LaunchOK
  <2> QED BY <1>1, <1>6, <2>1, <2>3, <2>4, <2>5 DEF LaunchOK
<1>8. Given(current)'
  BY <1>1, <1>2, <1>5, <1>7, CallFields DEF Given, Apart
<1>9. Seen'
  <2>1. TableOf(v) \in TablesIn(map'[current]) /\ TableOf(v) \in Tables
    BY <1>3, <1>4 DEF TablesIn, Tables
  <2>2. \A w \in Pages : map'[current][w] # 0 => TableOf(w) \in loaded'
    BY <1>1, <1>4 DEF MapInv, Seen
  <2>3. loaded' \subseteq Tables /\ loaded' \subseteq TablesIn(map'[current])
    BY <1>1, <1>4, <2>1 DEF MapInv, Seen
  <2> QED BY <1>1, <1>5, <2>2, <2>3, CallFields DEF Seen
<1> QED
  BY <1>1, <1>4, <1>5, <1>8, <1>9, Alone, Current, CallFields

LEMMA LaunchEndMaps == ASSUME IInv, MapInv, LaunchEnd PROVE MapInv'
<1>1. /\ call[current].op = "launch" /\ call[current].page = Top
      /\ call' = [call EXCEPT ![current] = InUser]
      /\ UNCHANGED <<map, loaded, break, stack, alive, current>>
  BY DEF LaunchEnd, Running, Become
<1>2. LaunchOK(current) /\ Apart(current)
  BY <1>1, Current DEF Given
<1>3. call'[current] = InUser /\ \A q \in Procs \ {current} : call'[q] = call[q]
  BY <1>1, Current
<1>4. \A w \in Pages : Own(current, w) => map[current][w] # 0
  BY <1>1, <1>2, PagesAre DEF LaunchOK, Pages
<1>5. Given(current)'
  BY <1>1, <1>2, <1>3, <1>4, CallFields DEF Given, Apart, HasOwn, Has, Own
<1>6. Seen'
  BY <1>1, <1>3, <1>4, CallFields DEF MapInv, Seen, Own
<1> QED BY <1>1, <1>3, <1>5, <1>6, Alone, Current, CallFields

LEMMA ForkBeginMaps == ASSUME IInv, MapInv, NEW c \in Procs, ForkBegin(c) PROVE MapInv'
<1>1. /\ call[current].op = "user" /\ c \notin alive
      /\ \A p \in alive : call[p].op = "fork" => call[p].child # c
      /\ map' = [map EXCEPT ![c] = Unmapped]
      /\ break' = [break EXCEPT ![c] = break[current]]
      /\ stack' = [stack EXCEPT ![c] = stack[current]]
      /\ UNCHANGED <<loaded, alive, current>>
  BY DEF ForkBegin, Running
<1>2. PICK f \in Frames : call' = [call EXCEPT ![current] = Forking(c, Base, f)]
  BY DEF ForkBegin, Become
<1>3. /\ current # c /\ current \in Procs /\ Given(current)
      /\ call'[current] = Forking(c, Base, f)
      /\ \A q \in Procs \ {current} : call'[q] = call[q]
      /\ \A q \in Procs \ {c} : map'[q] = map[q] /\ break'[q] = break[q] /\ stack'[q] = stack[q]
      /\ break'[c] = break[current] /\ stack'[c] = stack[current]
      /\ DOMAIN break' = Procs /\ DOMAIN stack' = Procs
  BY <1>1, <1>2, Current
<1>4. \A p \in Procs \ {current} : call[p].op = "fork" => call[p].child # c
  BY <1>1 DEF MapInv, Callers
<1>5. HasOwn(current)' /\ Apart(current)'
  BY <1>1, <1>3 DEF Given, HasOwn, Apart
<1>6. ForkOK(current)'
  <2>1. Base \in Base .. Top /\ \A v \in Pages : v < Base => FALSE
    BY LayoutPages, PagesAre DEF Pages
  <2>2. call'[current].child = c /\ call'[current].page = Base /\ current' = current
    BY <1>1, <1>3, CallFields
  <2>3. \A v \in Pages : v < call'[current].page => FALSE
    BY <2>1, <2>2
  <2> QED BY <1>3, <1>5, <2>1, <2>2, <2>3 DEF ForkOK
<1>7. Given(current)'
  BY <1>1, <1>3, <1>5, <1>6, CallFields DEF Given
<1>8. Seen'
  BY <1>1, <1>3, CallFields DEF MapInv, Seen, Own
<1>9. /\ call'[current].op = "fork" => call'[current].child = c
      /\ current \in alive' /\ c \notin alive' /\ call'[c].op = "user"
  BY <1>1, <1>3, CallFields, Current DEF MapInv, Callers
<1> QED BY <1>1, <1>3, <1>4, <1>7, <1>8, <1>9, Assemble

\* The child of the running fork.
LEMMA OwnChild ==
    ASSUME IInv, MapInv, call[current].op = "fork"
    PROVE  LET c == call[current].child IN
           /\ c \in Procs /\ c \notin alive /\ c # current /\ call[c].op = "user"
           /\ \A p \in Procs \ {current} : call[p].op = "fork" => call[p].child # c
           /\ ForkOK(current) /\ Apart(current)
BY Current DEF MapInv, Callers, Given

\* An owned page of the current process is shown by the kernel's table.
LEMMA OwnShown ==
    ASSUME IInv, MapInv, call[current].op = "fork", NEW v \in Pages, Own(current, v)
    PROVE  Shown(v)
BY OwnChild DEF ForkOK, HasOwn, Has, Own, MapInv, Seen, Shown

LEMMA ForkSkipMaps == ASSUME IInv, MapInv, ForkSkip PROVE MapInv'
<1> DEFINE c == call[current].child
           g == call[current].page
<1>1. /\ call[current].op = "fork" /\ g < Top /\ ~Shown(g)
      /\ call' = [call EXCEPT ![current] = Forking(c, g + 1, call[current].copy)]
      /\ UNCHANGED <<map, loaded, break, stack, alive, current>>
  BY DEF ForkSkip, Running, Become
<1>2. /\ c \in Procs /\ c \notin alive /\ c # current /\ call[c].op = "user"
      /\ \A p \in Procs \ {current} : call[p].op = "fork" => call[p].child # c
      /\ ForkOK(current) /\ Apart(current)
  BY <1>1, OwnChild
<1>3. /\ \A q \in Procs \ {current} : call'[q] = call[q]
      /\ call'[current].op = "fork" /\ call'[current].child = c /\ call'[current].page = g + 1
  BY <1>1, Current, CallFields
<1>4. /\ g \in Base .. Top /\ \A v \in Pages : v < g /\ Own(current, v) => map[c][v] # 0
      /\ break[c] = break[current] /\ stack[c] = stack[current] /\ HasOwn(current)
  BY <1>2 DEF ForkOK
<1>5. \A v \in Pages : Own(current, v) => v # g
  BY <1>1, OwnShown
<1> HIDE DEF c, g
<1>6. g + 1 \in Base .. Top /\ \A v \in Pages : v < g + 1 => v < g \/ v = g
  BY <1>1, <1>4, PagesAre
<1>7. ForkOK(current)'
  <2>1. HasOwn(current)' /\ (\A v : Own(current, v)' <=> Own(current, v))
    BY <1>1, <1>4 DEF HasOwn, Own
  <2>2. \A v \in Pages : v < g + 1 /\ Own(current, v) => map[c][v] # 0
    BY <1>4, <1>5, <1>6
  <2> QED BY <1>1, <1>3, <1>4, <1>6, <2>1, <2>2 DEF ForkOK
<1>8. Given(current)'
  BY <1>1, <1>2, <1>3, <1>7 DEF Given, Apart
<1>9. Seen'
  BY <1>1, <1>3 DEF MapInv, Seen, Own
<1> QED BY <1>1, <1>2, <1>3, <1>8, <1>9, Assemble, Current

LEMMA ForkCopyMaps == ASSUME IInv, MapInv, ForkCopy PROVE MapInv'
<1> DEFINE c == call[current].child
           g == call[current].page
           k == call[current].copy
<1>1. /\ call[current].op = "fork" /\ g < Top /\ k # 0
      /\ map' = [map EXCEPT ![c][g] = k]
      /\ UNCHANGED <<loaded, break, stack, alive, current>>
  BY DEF ForkCopy, Running
<1>2. PICK f \in Frames : call' = [call EXCEPT ![current] = Forking(c, g + 1, f)]
  BY DEF ForkCopy, Become
<1>3. /\ c \in Procs /\ c \notin alive /\ c # current /\ call[c].op = "user"
      /\ \A p \in Procs \ {current} : call[p].op = "fork" => call[p].child # c
      /\ ForkOK(current) /\ Apart(current)
  BY <1>1, OwnChild
<1>4. /\ \A q \in Procs \ {current} : call'[q] = call[q]
      /\ call'[current].op = "fork" /\ call'[current].child = c /\ call'[current].page = g + 1
  BY <1>1, <1>2, Current, CallFields
<1>5. /\ g \in Base .. Top /\ \A v \in Pages : v < g /\ Own(current, v) => map[c][v] # 0
      /\ break[c] = break[current] /\ stack[c] = stack[current] /\ HasOwn(current)
  BY <1>3 DEF ForkOK
<1> HIDE DEF c, g, k
<1>6. /\ \A q \in Procs \ {c} : map'[q] = map[q]
      /\ \A v \in Pages : map'[c][v] = IF v = g THEN k ELSE map[c][v]
  BY <1>1, <1>3, Current
<1>7. g + 1 \in Base .. Top /\ \A v \in Pages : v < g + 1 => v < g \/ v = g
  BY <1>1, <1>5, PagesAre
<1>8. ForkOK(current)'
  <2>1. HasOwn(current)' /\ (\A v : Own(current, v)' <=> Own(current, v))
    BY <1>1, <1>3, <1>5, <1>6, Current DEF HasOwn, Own
  <2>2. \A v \in Pages : v < g + 1 /\ Own(current, v) => map'[c][v] # 0
    BY <1>1, <1>5, <1>6, <1>7
  <2> QED BY <1>1, <1>4, <1>5, <1>7, <2>1, <2>2 DEF ForkOK
<1>9. Given(current)'
  BY <1>1, <1>3, <1>4, <1>8 DEF Given, Apart
<1>10. Seen'
  <2>1. map'[current] = map[current]
    BY <1>3, <1>6, Current
  <2> QED BY <1>1, <1>4, <2>1 DEF MapInv, Seen, Own
<1> QED BY <1>1, <1>3, <1>4, <1>6, <1>9, <1>10, Assemble, Current

LEMMA ForkEndMaps == ASSUME IInv, MapInv, ForkEnd PROVE MapInv'
<1>0. PICK c : c = call[current].child
  OBVIOUS
<1>1. /\ call[current].op = "fork" /\ call[current].page = Top
      /\ alive' = alive \cup {c} /\ call' = [call EXCEPT ![current] = InUser]
      /\ UNCHANGED <<map, loaded, break, stack, current>>
  BY <1>0 DEF ForkEnd, Running, Become
<1>2. /\ c \in Procs /\ c \notin alive /\ c # current /\ call[c].op = "user"
      /\ \A p \in Procs \ {current} : call[p].op = "fork" => call[p].child # c
      /\ ForkOK(current) /\ Apart(current)
  BY <1>0, <1>1, OwnChild
<1>3. /\ \A q \in Procs \ {current} : call'[q] = call[q]
      /\ call'[current].op = "user" /\ call'[c].op = "user"
  BY <1>1, <1>2, Current, CallFields
<1>4. /\ \A v \in Pages : Own(current, v) => map[c][v] # 0
      /\ break[c] = break[current] /\ stack[c] = stack[current] /\ HasOwn(current)
  BY <1>0, <1>1, <1>2, PagesAre DEF ForkOK, Pages
<1>5. Given(current)'
  BY <1>1, <1>2, <1>3, <1>4 DEF Given, Apart, HasOwn
<1>6. Given(c)'
  <2>1. HasOwn(c) /\ Apart(c)
    BY <1>2, <1>4 DEF HasOwn, Has, Own, Apart
  <2> QED BY <1>1, <1>3, <2>1 DEF Given, HasOwn, Apart
<1>7. Seen'
  BY <1>1, <1>3 DEF MapInv, Seen, Own
<1> QED BY <1>1, <1>2, <1>3, <1>5, <1>6, <1>7, Assemble, Current

LEMMA ForkFailsMaps == ASSUME IInv, MapInv, TablesBelow, ForkFails PROVE MapInv'
<1> DEFINE c == call[current].child
<1>1. /\ call[current].op = "fork" /\ Destroy(c)
      /\ call' = [call EXCEPT ![current] = InUser]
      /\ UNCHANGED <<break, stack, alive, current>>
  BY DEF ForkFails, Running, Become
<1>2. /\ c \in Procs /\ c \notin alive /\ c # current /\ call[c].op = "user"
      /\ \A p \in Procs \ {current} : call[p].op = "fork" => call[p].child # c
      /\ ForkOK(current) /\ Apart(current)
  BY <1>1, OwnChild
<1>3. /\ \A q \in Procs \ {current} : call'[q] = call[q]
      /\ call'[current].op = "user" /\ call'[c].op = "user"
  BY <1>1, <1>2, Current, CallFields
<1> HIDE DEF c
<1>4. /\ \A p \in Procs \ {c} : map'[p] = map[p]
      /\ loaded' = loaded \cap TablesIn(map[current])
  BY <1>1, <1>2, DestroyEffect
<1>5. HasOwn(current) /\ map'[current] = map[current]
  BY <1>2, <1>4, Current DEF ForkOK
<1>6. Given(current)'
  BY <1>1, <1>2, <1>3, <1>5 DEF Given, Apart, HasOwn
<1>7. Seen'
  <2>1. \A v \in Pages : Own(current, v) => TableOf(v) \in loaded'
    BY <1>1, <1>4, <1>5 DEF MapInv, Seen, HasOwn, Has, Own, TablesIn
  <2> QED BY <1>1, <1>3, <1>4, <1>5, <2>1 DEF MapInv, Seen, Own
<1> QED BY <1>1, <1>2, <1>3, <1>4, <1>6, <1>7, Assemble, Current

LEMMA ReapMaps == ASSUME IInv, MapInv, TablesBelow, NEW q \in Procs, Reap(q) PROVE MapInv'
<1>1. /\ call[current].op = "user" /\ q \in alive \ {current} /\ call[q].op = "user"
      /\ Destroy(q) /\ alive' = alive \ {q}
      /\ UNCHANGED <<break, stack, current, call>>
  BY DEF Reap, Running
<1>2. /\ \A p \in Procs \ {q} : map'[p] = map[p]
      /\ loaded' = loaded \cap TablesIn(map[current])
  BY <1>1, DestroyEffect
<1>3. HasOwn(current) /\ map'[current] = map[current] /\ Given(current)
  BY <1>1, <1>2, Current DEF Given
<1>4. Given(current)'
  BY <1>1, <1>3 DEF Given, Apart, HasOwn
<1>5. Seen'
  <2>1. \A v \in Pages : Own(current, v) => TableOf(v) \in loaded'
    BY <1>1, <1>2, <1>3 DEF MapInv, Seen, HasOwn, Has, Own, TablesIn
  <2> QED BY <1>1, <1>2, <1>3, <2>1 DEF MapInv, Seen, Own
<1>6. \A p \in Procs \ {current} : call[p].op = "fork" => call[p].child # q
  BY <1>1 DEF MapInv, Callers
<1> QED BY <1>1, <1>2, <1>4, <1>5, <1>6, Assemble, Current

LEMMA BrkMaps ==
    ASSUME IInv, MapInv, BrkCareful = TRUE, NEW a \in Addresses, Brk(a) PROVE MapInv'
<1>0. PICK b, t : b = break[current] /\ t = Top - stack[current]
  OBVIOUS
<1>1. /\ call[current].op = "user" /\ ElfBreak <= a
      /\ RoundUp(a) < t * PageSize /\ b < t * PageSize
      /\ call' = [call EXCEPT ![current] =
                    IF a > BreakBot(b) + PageSize THEN Growing(a, BreakBot(b))
                                                  ELSE Shrinking(a, b)]
      /\ UNCHANGED <<map, loaded, break, stack, alive, current>>
  BY <1>0 DEF Brk, Running, Become
<1>2. HasOwn(current) /\ Apart(current)
  BY <1>1, Current DEF Given
<1>3. b \in Nat \ {0} /\ t \in Nat /\ Ceil(b) <= t
  BY <1>0, <1>2, PagesAre DEF Apart
<1>4. a \in Nat \ {0}
  <2>1. Base * PageSize \in Int /\ Top * PageSize \in Int
    BY LayoutAssumption
  <2> QED BY <1>1, <2>1, LayoutPages DEF Addresses
<1>5. \A q \in Procs \ {current} : call'[q] = call[q]
  BY <1>1, Current
<1>6. /\ Ceil(a) \in Nat /\ Ceil(b) \in Nat /\ Floor(a) \in Nat /\ Floor(b) \in Nat
      /\ Ceil(a) <= Floor(a) + 1 /\ RoundUp(a) = (Floor(a) + 1) * PageSize
      /\ BreakBot(b) = (Ceil(b) - 1) * PageSize
  <2>1. /\ Ceil(a) \in Nat /\ Floor(a) \in Nat
        /\ Ceil(a) <= Floor(a) + 1 /\ RoundUp(a) = (Floor(a) + 1) * PageSize
    BY <1>4, PageCounts
  <2>2. /\ Ceil(b) \in Nat /\ Floor(b) \in Nat /\ BreakBot(b) = (Ceil(b) - 1) * PageSize
    BY <1>3, PageCounts
  <2> QED BY <2>1, <2>2
<1>7. Floor(b) < t
  BY <1>1, <1>3, Above
<1>8. Floor(a) + 1 < t
  <2>1. Floor(a) + 1 \in Int /\ t \in Int
    BY <1>3, <1>6
  <2>2. (Floor(a) + 1) * PageSize < t * PageSize => Floor(a) + 1 < t
    BY <2>1, Order
  <2> QED BY <1>1, <1>6, <2>2
<1>9. Has(map[current], Ceil(b), t)
  BY <1>0, <1>2 DEF HasOwn
<1>10. 0 < Ceil(b)
  <2>1. 0 * PageSize = 0
    BY LayoutAssumption
  <2>2. 0 * PageSize < b <=> 0 < Ceil(b)
    BY <1>3, Below
  <2> QED BY <1>3, <2>1, <2>2
<1>11. CASE a > BreakBot(b) + PageSize
  <2>1. call'[current] = Growing(a, BreakBot(b))
    BY <1>1, <1>11, Current
  <2>2. PICK k \in Nat : k = Ceil(b) - 1
    BY <1>6, <1>10
  <2>3. BreakBot(b) = k * PageSize /\ k * PageSize \in Nat
    BY <1>6, <2>2, LayoutAssumption
  <2>4. Floor(k * PageSize) = k
    BY FloorOf
  <2>5. GrowOK(current)'
    BY <1>0, <1>1, <1>3, <1>4, <1>6, <1>8, <1>9, <2>1, <2>2, <2>3, <2>4, CallFields DEF GrowOK
  <2>6. Given(current)'
    BY <1>1, <1>2, <2>1, <2>5, CallFields DEF Given, Apart
  <2>7. Seen'
    BY <1>1, <2>1, CallFields DEF MapInv, Seen, Own
  <2> QED BY <1>1, <1>5, <2>1, <2>6, <2>7, Alone, Current, CallFields
<1>12. CASE ~(a > BreakBot(b) + PageSize)
  <2>1. call'[current] = Shrinking(a, b)
    BY <1>1, <1>12, Current
  <2>2. Ceil(a) <= Ceil(b)
    <3>1. BreakBot(b) + PageSize = Ceil(b) * PageSize
      <4>1. (Ceil(b) - 1 + 1) * PageSize = (Ceil(b) - 1) * PageSize + PageSize
        BY <1>6, Order
      <4>2. Ceil(b) - 1 + 1 = Ceil(b)
        BY <1>6
      <4> QED BY <1>6, <4>1, <4>2
    <3>2. Ceil(b) * PageSize \in Int /\ ~(Ceil(b) * PageSize < a)
      BY <1>4, <1>6, <1>12, <3>1, LayoutAssumption
    <3>3. Ceil(b) * PageSize < a <=> Ceil(b) < Ceil(a)
      BY <1>4, <1>6, Below
    <3> QED BY <1>6, <3>2, <3>3
  <2>3. Has(map[current], Ceil(a), t)
    BY <1>6, <1>9, <2>2, PagesAre DEF Has
  <2>4. ShrinkOK(current)'
    BY <1>0, <1>1, <1>3, <1>4, <1>6, <1>7, <1>8, <2>1, <2>3, CallFields DEF ShrinkOK
  <2>5. Given(current)'
    BY <1>1, <1>2, <2>1, <2>4, CallFields DEF Given, Apart
  <2>6. Seen'
    BY <1>1, <2>1, CallFields DEF MapInv, Seen, Own
  <2> QED BY <1>1, <1>5, <2>1, <2>5, <2>6, Alone, Current, CallFields
<1> QED BY <1>11, <1>12

LEMMA BrkGrowMaps == ASSUME IInv, MapInv, BrkGrow PROVE MapInv'
<1>0. PICK a, at, k, t : /\ a = call[current].to /\ at = call[current].at
                         /\ k = Floor(at) /\ t = Top - stack[current]
  OBVIOUS
<1>1. /\ call[current].op = "grow" /\ a > at + PageSize
      /\ Allocate(current, current, k + 1)
      /\ call' = [call EXCEPT ![current] = Growing(a, at + PageSize)]
      /\ UNCHANGED <<loaded, break, stack, alive, current>>
  BY <1>0 DEF BrkGrow, Running, Become, Floor
<1>2. GrowOK(current) /\ Apart(current)
  BY <1>1, Current DEF Given
<1>3. /\ \A q \in Procs \ {current} : map'[q] = map[q]
      /\ \A w \in Pages : w = k + 1 \/ map[current][w] # 0 => map'[current][w] # 0
      /\ TablesIn(map[current]) \subseteq TablesIn(map'[current])
  BY <1>1, Current, AllocateEffect
<1>4. /\ \A q \in Procs \ {current} : call'[q] = call[q]
      /\ call'[current].op = "grow" /\ call'[current].to = a
      /\ call'[current].at = at + PageSize
  BY <1>1, Current, CallFields
<1>5. /\ a \in Nat \ {0} /\ at \in Nat /\ at = k * PageSize /\ k \in Nat
      /\ Ceil(a) <= t /\ Ceil(break[current]) <= k + 1
      /\ Has(map[current], k + 1, t)
  BY <1>0, <1>2, CountTypes DEF GrowOK
<1>6. at + PageSize = (k + 1) * PageSize /\ at + PageSize \in Nat
  BY <1>5, Order, LayoutAssumption
<1>7. Floor(at + PageSize) = k + 1
  BY <1>5, <1>6, FloorOf
<1>8. Has(map'[current], k + 1 + 1, t)
  <2>1. \A w \in Pages : w < k + 1 + 1 => w < k + 1 \/ w = k + 1
    <3>1. k \in Nat
      BY <1>5
    <3> QED BY ONLY <3>1, PagesAre
  <2>2. \A w \in Pages : w < k + 1 \/ w >= t => map[current][w] # 0
    BY <1>5 DEF Has
  <2>3. \A w \in Pages : w < k + 1 + 1 \/ w >= t => map'[current][w] # 0
    BY ONLY <1>3, <2>1, <2>2
  <2> QED BY <2>3 DEF Has
<1>9. Ceil(break[current]) <= k + 1 + 1
  <2>1. break[current] \in Nat
    BY <1>2 DEF Apart
  <2>2. Ceil(break[current]) \in Nat
    BY <2>1, CountTypes
  <2> QED BY <1>5, <2>2
<1>10. GrowOK(current)'
  BY <1>0, <1>1, <1>4, <1>5, <1>6, <1>7, <1>8, <1>9 DEF GrowOK
<1>11. Given(current)'
  BY <1>1, <1>2, <1>4, <1>10 DEF Given, Apart
<1>12. Seen'
  BY <1>1, <1>3, <1>4 DEF MapInv, Seen, Own
<1> QED BY <1>1, <1>3, <1>4, <1>11, <1>12, Alone, Current

LEMMA QuietMaps ==
    ASSUME IInv, MapInv, UNCHANGED <<map, loaded, break, stack, alive, current, call>>
    PROVE  MapInv'
<1>1. Callers'
  BY DEF MapInv, Callers
<1>2. Seen'
  BY DEF MapInv, Seen, Own
<1>3. \A p \in alive : Given(p)'
  BY DEF MapInv, Given, Apart, LaunchOK, ForkOK, GrowOK, ShrinkOK, StackOK, HasOwn, Has, Own
<1> QED BY <1>1, <1>2, <1>3 DEF MapInv

LEMMA BrkGrowFailsMaps == ASSUME IInv, MapInv, BrkGrowFails PROVE MapInv'
<1>1. /\ call[current].op = "grow"
      /\ UNCHANGED <<map, loaded, break, stack, alive, current>>
      /\ call' = call \/ call' = [call EXCEPT ![current] = InUser]
  BY DEF BrkGrowFails, Running, Become
<1>2. CASE call' = call
  BY <1>1, <1>2, QuietMaps
<1>3. CASE call' = [call EXCEPT ![current] = InUser]
  <2>1. GrowOK(current) /\ Apart(current)
    BY <1>1, Current DEF Given
  <2>2. /\ \A q \in Procs \ {current} : call'[q] = call[q]
        /\ call'[current].op = "user"
    BY <1>3, Current, CallFields
  <2>3. HasOwn(current)
    <3>1. Floor(call[current].at) \in Nat /\ Ceil(break[current]) \in Nat
      BY <2>1, CountTypes DEF GrowOK, Apart
    <3> QED BY <2>1, <3>1, PagesAre DEF GrowOK, Has, HasOwn
  <2>4. Given(current)'
    BY <1>1, <2>1, <2>2, <2>3 DEF Given, Apart, HasOwn
  <2>5. Seen'
    BY <1>1, <2>2 DEF MapInv, Seen, Own
  <2> QED BY <1>1, <2>2, <2>4, <2>5, Alone, Current
<1> QED BY <1>1, <1>2, <1>3

LEMMA BrkShrinkMaps == ASSUME IInv, MapInv, BrkShrink PROVE MapInv'
<1>0. PICK a, at, v, t : /\ a = call[current].to /\ at = call[current].at
                         /\ v = Floor(at) /\ t = Top - stack[current]
  OBVIOUS
<1>1. /\ call[current].op = "shrink" /\ RoundUp(a) <= at
      /\ map' = [map EXCEPT ![current] = Without(map[current], {v})]
      /\ call' = [call EXCEPT ![current] = Shrinking(a, at - PageSize)]
      /\ UNCHANGED <<loaded, break, stack, alive, current>>
  BY <1>0 DEF BrkShrink, Running, Become, Floor
<1>2. ShrinkOK(current) /\ Apart(current)
  BY <1>1, Current DEF Given
<1>3. /\ a \in Nat \ {0} /\ at \in Nat /\ v \in Nat /\ Ceil(a) <= t /\ v < t
      /\ Has(map[current], Ceil(a), t)
  BY <1>0, <1>2, CountTypes DEF ShrinkOK
<1>4. t \in Int
  BY <1>0, <1>2, PagesAre DEF Apart
<1>5. /\ \A q \in Procs \ {current} : map'[q] = map[q]
      /\ \A w \in Pages : map'[current][w] = IF w = v THEN 0 ELSE map[current][w]
  BY <1>1, Current DEF Without
<1>6. /\ \A q \in Procs \ {current} : call'[q] = call[q]
      /\ call'[current].op = "shrink" /\ call'[current].to = a
      /\ call'[current].at = at - PageSize
  BY <1>1, Current, CallFields
<1>7. Ceil(a) <= v /\ PageSize <= at /\ Ceil(a) \in Nat
  <2>1. /\ Ceil(a) \in Nat /\ Floor(a) \in Nat /\ Ceil(a) <= Floor(a) + 1
        /\ RoundUp(a) = (Floor(a) + 1) * PageSize
    BY <1>3, PageCounts
  <2>2. at < (Floor(a) + 1) * PageSize <=> v < Floor(a) + 1
    <3>1. Floor(a) + 1 \in Int
      BY <2>1
    <3> QED BY <1>0, <1>3, <3>1, Above
  <2>3. (Floor(a) + 1) * PageSize = Floor(a) * PageSize + PageSize /\ Floor(a) * PageSize \in Nat
    BY <2>1, Order, LayoutAssumption
  <2>4. PageSize \in Nat
    BY LayoutAssumption
  <2> QED BY <1>1, <1>3, <2>1, <2>2, <2>3, <2>4
<1>8. at - PageSize \in Nat /\ Floor(at - PageSize) < t
  <2>1. PageSize \in Nat \ {0}
    BY LayoutAssumption
  <2>2. at - PageSize \in Nat
    BY <1>3, <1>7, <2>1
  <2>3. at < t * PageSize
    BY <1>0, <1>3, <1>4, Above
  <2>4. at - PageSize < t * PageSize
    BY <1>3, <1>4, <2>1, <2>3
  <2> QED BY <1>4, <2>2, <2>4, Above
<1>9. Has(map'[current], Ceil(a), t)
  BY <1>3, <1>4, <1>5, <1>7, PagesAre DEF Has
<1>10. ShrinkOK(current)'
  BY <1>0, <1>1, <1>3, <1>6, <1>8, <1>9 DEF ShrinkOK
<1>11. Given(current)'
  BY <1>1, <1>2, <1>6, <1>10 DEF Given, Apart
<1>12. Seen'
  BY <1>1, <1>6 DEF MapInv, Seen, Own
<1> QED BY <1>1, <1>5, <1>6, <1>11, <1>12, Alone, Current

LEMMA BrkEndMaps == ASSUME IInv, MapInv, BrkEnd PROVE MapInv'
<1>0. PICK a, at, t : /\ a = call[current].to /\ at = call[current].at
                      /\ t = Top - stack[current]
  OBVIOUS
<1>1. /\ \/ call[current].op = "grow" /\ a <= at + PageSize
         \/ call[current].op = "shrink"
      /\ break' = [break EXCEPT ![current] = a]
      /\ loaded' = TablesIn(map[current])
      /\ call' = [call EXCEPT ![current] = InUser]
      /\ UNCHANGED <<map, stack, alive, current>>
  BY <1>0 DEF BrkEnd, Running, Become, Load
<1>2. Apart(current) /\ Given(current)
  BY Current
<1>3. a \in Nat \ {0} /\ Ceil(a) <= t /\ Has(map[current], Ceil(a), t)
  <2>1. CASE call[current].op = "grow"
    <3>1. GrowOK(current) /\ a <= at + PageSize
      BY <1>1, <1>2, <2>1 DEF Given
    <3>2. /\ a \in Nat \ {0} /\ at \in Nat /\ at = Floor(at) * PageSize /\ Floor(at) \in Nat
          /\ Ceil(a) <= t /\ Has(map[current], Floor(at) + 1, t) /\ Ceil(a) \in Nat
      BY <1>0, <3>1, CountTypes DEF GrowOK
    <3>3. at + PageSize = (Floor(at) + 1) * PageSize
      BY <3>2, Order
    <3>4. (Floor(at) + 1) * PageSize < a <=> Floor(at) + 1 < Ceil(a)
      <4>1. a \in Nat /\ Floor(at) + 1 \in Int
        BY <3>2
      <4> QED BY ONLY <4>1, Below
    <3>5. Ceil(a) <= Floor(at) + 1
      <4>1. PageSize \in Nat
        BY LayoutAssumption
      <4> QED BY <3>1, <3>2, <3>3, <3>4, <4>1
    <3>6. \A w \in Pages : w < Ceil(a) => w < Floor(at) + 1
      <4>1. Ceil(a) \in Nat /\ Floor(at) \in Nat
        BY <3>2
      <4> QED BY ONLY <3>5, <4>1, PagesAre
    <3> QED BY <3>2, <3>6 DEF Has
  <2>2. CASE call[current].op = "shrink"
    BY <1>0, <1>2, <2>2 DEF Given, ShrinkOK
  <2> QED BY <1>1, <2>1, <2>2
<1>4. /\ \A q \in Procs \ {current} : call'[q] = call[q] /\ break'[q] = break[q]
      /\ call'[current].op = "user" /\ break'[current] = a /\ DOMAIN break' = Procs
  BY <1>1, Current, CallFields
<1>5. HasOwn(current)' /\ Apart(current)'
  BY <1>0, <1>1, <1>2, <1>3, <1>4 DEF HasOwn, Apart
<1>6. Given(current)'
  BY <1>4, <1>5, <1>1 DEF Given
<1>7. Seen'
  <2>1. TablesIn(map[current]) \subseteq Tables
    BY DEF TablesIn, Tables
  <2>2. \A v \in Pages : Own(current, v)' => TableOf(v) \in TablesIn(map[current])
    BY <1>1, <1>5 DEF HasOwn, Has, Own, TablesIn
  <2> QED BY <1>1, <1>4, <2>1, <2>2 DEF Seen
<1> QED BY <1>1, <1>4, <1>6, <1>7, Alone, Current

LEMMA PageFaultMaps ==
    ASSUME IInv, MapInv, NEW v \in Pages, NEW first \in BOOLEAN, PageFault(v, first)
    PROVE  MapInv'
<1>0. PICK n : n = Top - v + (IF first THEN 1 ELSE 0)
  OBVIOUS
<1>1. /\ call[current].op = "user"
      /\ UNCHANGED <<map, loaded, break, stack, alive, current>>
      /\ \/ /\ n <= Top /\ (Top - n) * PageSize >= break[current]
            /\ call' = [call EXCEPT ![current] = Stacking(n)]
         \/ call' = call
  BY <1>0 DEF PageFault, Running, Become
<1>2. HasOwn(current) /\ Apart(current)
  BY <1>1, Current DEF Given
<1>3. CASE /\ n <= Top /\ (Top - n) * PageSize >= break[current]
           /\ call' = [call EXCEPT ![current] = Stacking(n)]
  <2>1. /\ \A q \in Procs \ {current} : call'[q] = call[q]
        /\ call'[current].op = "stack" /\ call'[current].to = n
    BY <1>3, Current, CallFields
  <2>2. n \in 0 .. Top
    <3>1. v \in Nat /\ v < Top /\ Top \in Nat
      BY PagesAre, LayoutAssumption DEF Pages
    <3>2. n = Top - v \/ n = Top - v + 1
      BY <1>0, <3>1
    <3> QED BY <1>3, <3>1, <3>2
  <2>3. Ceil(break[current]) <= Top - n
    <3>1. Top - n \in Nat /\ break[current] \in Nat
      BY <1>2, <2>2, PagesAre DEF Apart
    <3>2. (Top - n) * PageSize \in Nat /\ Ceil(break[current]) \in Nat
      <4>1. \A m \in Nat : m * PageSize \in Nat
        BY LayoutAssumption
      <4> QED BY <3>1, <4>1, CountTypes
    <3>3. (Top - n) * PageSize < break[current] <=> Top - n < Ceil(break[current])
      <4>1. Top - n \in Int
        BY <3>1
      <4> QED BY <3>1, <4>1, Below
    <3> QED BY <1>3, <3>1, <3>2, <3>3
  <2>4. StackOK(current)'
    BY <1>1, <1>2, <2>1, <2>2, <2>3 DEF StackOK, HasOwn
  <2>5. Given(current)'
    BY <1>1, <1>2, <2>1, <2>4 DEF Given, Apart
  <2>6. Seen'
    BY <1>1, <2>1 DEF MapInv, Seen, Own
  <2> QED BY <1>1, <2>1, <2>5, <2>6, Alone, Current
<1>4. CASE call' = call
  BY <1>1, <1>4, QuietMaps
<1> QED BY <1>1, <1>3, <1>4

LEMMA StackGrowMaps == ASSUME IInv, MapInv, StackGrow PROVE MapInv'
<1>0. PICK n, s : n = call[current].to /\ s = stack[current]
  OBVIOUS
<1>1. /\ call[current].op = "stack" /\ s < n
      /\ Allocate(current, current, Top - s - 1)
      /\ stack' = [stack EXCEPT ![current] = s + 1]
      /\ UNCHANGED <<loaded, break, alive, current, call>>
  BY <1>0 DEF StackGrow, Running
<1>2. StackOK(current) /\ Apart(current)
  BY <1>1, Current DEF Given
<1>3. /\ \A q \in Procs \ {current} : map'[q] = map[q]
      /\ \A w \in Pages : w = Top - s - 1 \/ map[current][w] # 0 => map'[current][w] # 0
      /\ TablesIn(map[current]) \subseteq TablesIn(map'[current])
  BY <1>1, Current, AllocateEffect
<1>4. /\ \A q \in Procs \ {current} : stack'[q] = stack[q]
      /\ stack'[current] = s + 1 /\ DOMAIN stack' = Procs
  BY <1>1, Current
<1>5. /\ n \in 0 .. Top /\ s \in 0 .. Top /\ Top \in Nat
      /\ Ceil(break[current]) \in Nat /\ break[current] \in Nat \ {0}
      /\ Ceil(break[current]) <= Top - n
      /\ Has(map[current], Ceil(break[current]), Top - s)
  BY <1>0, <1>2, PagesAre, CountTypes DEF StackOK, Apart, HasOwn
<1>6. s + 1 \in 0 .. Top /\ Ceil(break[current]) <= Top - (s + 1)
  BY <1>1, <1>5
<1>7. Has(map'[current], Ceil(break[current]), Top - (s + 1))
  <2>1. \A w \in Pages : w >= Top - (s + 1) => w >= Top - s \/ w = Top - s - 1
    <3>1. s \in Int /\ Top \in Int /\ Pages \subseteq Int
      BY <1>5, PagesAre
    <3> QED BY ONLY <3>1
  <2>2. \A w \in Pages : w < Ceil(break[current]) \/ w >= Top - s => map[current][w] # 0
    BY <1>5 DEF Has
  <2> QED BY <1>3, <2>1, <2>2 DEF Has
<1>8. HasOwn(current)' /\ Apart(current)'
  BY <1>1, <1>4, <1>5, <1>6, <1>7 DEF HasOwn, Apart
<1>9. StackOK(current)'
  BY <1>0, <1>1, <1>5, <1>8 DEF StackOK
<1>10. Given(current)'
  BY <1>1, <1>8, <1>9 DEF Given
<1>11. Seen'
  BY <1>1, <1>3 DEF MapInv, Seen
<1> QED BY <1>1, <1>3, <1>4, <1>10, <1>11, Alone, Current

LEMMA StackEndMaps == ASSUME IInv, MapInv, StackEnd PROVE MapInv'
<1>1. /\ call[current].op = "stack"
      /\ loaded' = TablesIn(map[current])
      /\ call' = [call EXCEPT ![current] = InUser]
      /\ UNCHANGED <<map, break, stack, alive, current>>
  BY DEF StackEnd, Running, Become, Load
<1>2. HasOwn(current) /\ Apart(current)
  BY <1>1, Current DEF Given, StackOK
<1>3. /\ \A q \in Procs \ {current} : call'[q] = call[q]
      /\ call'[current].op = "user"
  BY <1>1, Current, CallFields
<1>4. Given(current)'
  BY <1>1, <1>2, <1>3 DEF Given, HasOwn, Apart
<1>5. Seen'
  <2>1. TablesIn(map[current]) \subseteq Tables
    BY DEF TablesIn, Tables
  <2>2. \A v \in Pages : Own(current, v) => TableOf(v) \in TablesIn(map[current])
    BY <1>2 DEF HasOwn, Has, Own, TablesIn
  <2> QED BY <1>1, <1>3, <2>1, <2>2 DEF Seen, Own
<1> QED BY <1>1, <1>3, <1>4, <1>5, Alone, Current

LEMMA SwitchMaps == ASSUME IInv, MapInv, NEW q \in Procs, Switch(q) PROVE MapInv'
<1>1. /\ call[current].op # "launch" /\ q \in alive /\ current' = q
      /\ loaded' = TablesIn(map[q])
      /\ UNCHANGED <<map, break, stack, alive, call>>
  BY DEF Switch, Load
<1>2. \A p \in Procs : call[p].op # "launch"
  BY <1>1 DEF MapInv, Callers
<1>3. Callers'
  BY <1>1, <1>2 DEF MapInv, Callers
<1>4. \A p \in alive' : Given(p)'
  BY <1>1 DEF MapInv, Given, Apart, LaunchOK, ForkOK, GrowOK, ShrinkOK, StackOK, HasOwn, Has, Own
<1>5. TablesIn(map[q]) \subseteq Tables
  BY DEF TablesIn, Tables
<1>6. ASSUME call[q].op \in {"user", "fork", "grow"}, NEW v \in Pages, Own(q, v)
      PROVE  TableOf(v) \in TablesIn(map[q])
  <2>1. Given(q)
    BY <1>1 DEF MapInv
  <2>2. CASE call[q].op \in {"user", "fork"}
    BY <1>6, <2>1, <2>2 DEF Given, ForkOK, HasOwn, Has, Own, TablesIn
  <2>3. CASE call[q].op = "grow"
    <3>1. GrowOK(q) /\ Apart(q)
      BY <2>1, <2>3 DEF Given
    <3>2. Floor(call[q].at) \in Nat /\ Ceil(break[q]) \in Nat /\ Ceil(break[q]) <= Floor(call[q].at) + 1
      BY <3>1, CountTypes DEF GrowOK, Apart
    <3>3. v < Ceil(break[q]) => v < Floor(call[q].at) + 1
      BY <3>2, PagesAre
    <3> QED BY <1>6, <3>1, <3>3 DEF GrowOK, Has, Own, TablesIn
  <2> QED BY <1>6, <2>2, <2>3
<1>7. Seen'
  BY <1>1, <1>2, <1>5, <1>6 DEF Seen, Own
<1> QED BY <1>3, <1>4, <1>7 DEF MapInv

LEMMA MapStep ==
    ASSUME IInv, MapInv, TablesBelow, BrkCareful = TRUE, [Next]_vars PROVE MapInv'
<1>1. CASE LaunchPanics
  BY <1>1, QuietMaps DEF LaunchPanics
<1>2. CASE ForkPanics
  BY <1>2, QuietMaps DEF ForkPanics
<1>3. CASE ForkFaults
  BY <1>3, QuietMaps DEF ForkFaults
<1>4. CASE BrkFaults
  BY <1>4, QuietMaps DEF BrkFaults
<1>5. CASE StackFails
  BY <1>5, QuietMaps DEF StackFails
<1>6. CASE UNCHANGED vars
  BY <1>6, QuietMaps DEF vars
<1> QED
  BY <1>1, <1>2, <1>3, <1>4, <1>5, <1>6, ExecBeginMaps, LaunchMapMaps, LaunchEndMaps,
     ForkBeginMaps, ForkSkipMaps, ForkCopyMaps, ForkEndMaps, ForkFailsMaps, ReapMaps,
     BrkMaps, BrkGrowMaps, BrkGrowFailsMaps, BrkShrinkMaps, BrkEndMaps, PageFaultMaps,
     StackGrowMaps, StackEndMaps, SwitchMaps DEF Next

LEMMA MapStart == ASSUME Init PROVE MapInv
<1>1. /\ First \in Procs /\ alive = {First} /\ current = First /\ loaded = {}
      /\ call = [p \in Procs |-> IF p = First THEN Launching(Base) ELSE InUser]
      /\ map[First] = Unmapped /\ break = [p \in Procs |-> ElfBreak]
      /\ stack = [p \in Procs |-> 1]
  BY ProcsAssumption DEF Init
<1>2. \A p \in Procs : call[p].op = IF p = First THEN "launch" ELSE "user"
  BY <1>1, CallFields
<1>3. Callers
  BY <1>1, <1>2 DEF Callers
<1>4. Seen
  BY <1>1, <1>2 DEF Seen, Unmapped, TablesIn
<1>5. Given(First)
  <2>1. Apart(First)
    BY <1>1, LayoutPages, PagesAre DEF Apart
  <2>2. \A v \in Pages : v < Base => FALSE
    BY PagesAre DEF Pages
  <2>3. call[First].page = Base
    BY <1>1, CallFields
  <2>4. LaunchOK(First)
    BY <1>1, <2>2, <2>3, LayoutPages DEF LaunchOK
  <2> QED BY <1>1, <1>2, <2>1, <2>4 DEF Given
<1> QED BY <1>1, <1>3, <1>4, <1>5 DEF MapInv

\* What exec, fork, brk and the page faults have given a process stays mapped,
\* page by page and through the calls, exits and reaps of all the others: the
\* pages that free_user_space takes by mistake belong to nobody, as long as the
\* tables are numbered below the binary, and brk frees none but its own as long as
\* no break is moved that the stack has reached.
THEOREM PagesStay ==
    ASSUME TablesBelow, BrkCareful = TRUE
    PROVE  Spec => []OwnedMapped
<1>1. IInv /\ MapInv => OwnedMapped
  <2> SUFFICES ASSUME IInv, MapInv, NEW p \in alive, call[p].op \in {"user", "fork"},
                      NEW v \in Owned(p)
               PROVE  map[p][v] # 0
    BY DEF OwnedMapped
  <2>1. Given(p) /\ HasOwn(p) /\ break[p] \in Nat
    BY DEF MapInv, Given, ForkOK, Apart
  <2>2. v \in Pages /\ Own(p, v)
    BY <2>1, OwnedIs
  <2> QED BY <2>1, <2>2 DEF HasOwn, Has, Own
<1>2. IInv /\ MapInv /\ [Next]_vars => (IInv /\ MapInv)'
  BY Step, MapStep
<1>3. Init => IInv /\ MapInv
  BY Start, MapStart
<1> QED BY <1>1, <1>2, <1>3, PTL DEF Spec

\* A process in user mode sees its memory: the kernel's page descriptor table,
\* the only one that is ever loaded, refers to each page table that what the
\* process owns is in, and to no deleted one, after every switch and call.
THEOREM UserSeesOwn ==
    ASSUME TablesBelow, BrkCareful = TRUE
    PROVE  Spec => []CurrentLoaded
<1>1. IInv /\ MapInv => CurrentLoaded
  <2> SUFFICES ASSUME IInv, MapInv, call[current].op = "user"
               PROVE  /\ {TableOf(v) : v \in Owned(current)} \subseteq loaded
                      /\ loaded \subseteq TablesIn(map[current])
    BY DEF CurrentLoaded
  <2>1. break[current] \in Nat
    BY Current DEF Apart
  <2> QED BY <2>1, OwnedIs DEF MapInv, Seen
<1>2. IInv /\ MapInv /\ [Next]_vars => (IInv /\ MapInv)'
  BY Step, MapStep
<1>3. Init => IInv /\ MapInv
  BY Start, MapStart
<1> QED BY <1>1, <1>2, <1>3, PTL DEF Spec

-----------------------------------------------------------------------------
(***************************************************************************)
(* The heaps.  First the invariant, HInv; then what each change of the list *)
(* does to the tiling; then the operators of find_free_block and new_block; *)
(* then one lemma for each step.                                            *)
(***************************************************************************)

\* A request: a whole page if it is aligned.
RequestOK(f) ==
    /\ f.size \in Nat \ {0}
    /\ f.align = 0 \/ (f.align = PageUnits /\ f.size = PageUnits /\ kind = "kernel")

\* A next_page that waits for the page table of its page.
MappingOK(f) ==
    /\ f.op = "map"
    /\ RequestOK(f)
    /\ kind = "kernel"
    /\ f.page \in Nat /\ f.page <= TopPage
    /\ TableAt(f.page) \in tables

\* Where the walk is: prev is the block before, if there is one.
WalkOK(f) ==
    /\ RequestOK(f)
    /\ f.at \in Blocks(mem, end)
    /\ \/ f.prev = Null /\ f.at = start
       \/ f.prev \in Blocks(mem, end) \ {end} /\ mem[f.prev].next = f.at

DoingOK(f) ==
    \/ f = Idle
    \/ f.op = "find" /\ WalkOK(f)
    \/ /\ f.op = "stop" /\ WalkOK(f)
       /\ f.fits \in BOOLEAN
       /\ f.fits => f.at # end /\ Fits(mem, f.at, f.size, f.align)
       /\ ~f.fits => f.at = end
    \/ f.op = "grow" /\ RequestOK(f) /\ kind = "kernel"
    \/ f.op = "map" /\ MappingOK(f)
    \/ f.op = "merge" /\ f.at \in Blocks(mem, end) \ {end} /\ mem[f.at].free

\* The malloc of a page table: its own pages are under the table that is made.
NestedOK(f, g) ==
    /\ MappingOK(g)
    /\ f.op \in {"find", "stop", "grow"}
    /\ f.size = PageUnits /\ f.align = PageUnits
    /\ end < g.page * PageUnits
    /\ g.page % TablePages = 0

CallsOK ==
    /\ DOMAIN doing = HProcs /\ DOMAIN parked = HProcs
    /\ \A p, q \in HProcs : p # q => doing[p] = Idle \/ doing[q] = Idle
    /\ \A p \in HProcs :
         /\ DoingOK(doing[p])
         /\ \/ parked[p] = <<>>
            \/ parked[p] = <<parked[p][1]>> /\ NestedOK(doing[p], parked[p][1])

\* Every block in use has its block of the list, and every such block its use.
LiveOK(m, e, l) ==
    /\ \A b \in l :
         /\ b.at \in Nat \ {0} /\ b.size \in Nat
         /\ b.align \in Nat /\ (b.align # 0 => b.at % b.align = 0)
         /\ b.at - 1 \in Blocks(m, e)
         /\ ~m[b.at - 1].free /\ b.size <= m[b.at - 1].size
    /\ \A b, c \in l : b.at = c.at => b = c
    /\ \A a \in Blocks(m, e) : ~m[a].free => \E b \in l : b.at = a + 1

SpaceOK ==
    /\ end < top
    /\ kind = "kernel" => /\ top = PageUnits * TopPage
                          /\ TopPage > 0
                          /\ mapped = 0 .. TopPage - 1
                          /\ \A g \in mapped : TableAt(g) \in tables

Sorts ==
    /\ kind \in {"kernel", "user"}
    /\ mem \in [Addrs -> Metadata]
    /\ start \in Addrs /\ end \in Addrs /\ top \in Addrs

HInv == Sorts /\ Tiled /\ LiveOK(mem, end, live) /\ SpaceOK /\ CallsOK

-----------------------------------------------------------------------------
LEMMA Units == /\ PageUnits \in Nat \ {0} /\ MaxAddr \in Nat /\ Addrs \subseteq Nat
               /\ \A a \in Addrs : a <= MaxAddr
               /\ \A a \in Nat : a <= MaxAddr => a \in Addrs
<1>1. PageUnits \in Nat \ {0} /\ MaxPages \in Nat \ {0}
  BY PageAssumption, BoundAssumption
<1>2. MaxAddr \in Nat
  BY <1>1 DEF MaxAddr
<1> QED BY <1>1, <1>2 DEF Addrs

\* The blocks in use stay, none smaller, and none is added.
Kept(m, e, n, d) ==
    /\ \A a \in Blocks(m, e) : ~m[a].free =>
         a \in Blocks(n, d) /\ ~n[a].free /\ m[a].size <= n[a].size
    /\ \A a \in Blocks(n, d) : ~n[a].free => a \in Blocks(m, e) /\ ~m[a].free

LEMMA KeptLive ==
    ASSUME NEW m \in [Addrs -> Metadata], NEW n \in [Addrs -> Metadata],
           NEW e \in Addrs, NEW d \in Addrs, NEW l,
           LiveOK(m, e, l), Kept(m, e, n, d)
    PROVE  LiveOK(n, d, l)
<1>1. ASSUME NEW b \in l
      PROVE  b.at - 1 \in Blocks(n, d) /\ ~n[b.at - 1].free /\ b.size <= n[b.at - 1].size
  <2> DEFINE a == b.at - 1
  <2>1. a \in Blocks(m, e) /\ ~m[a].free /\ b.size <= m[a].size /\ b.size \in Nat
    BY DEF LiveOK
  <2>2. a \in Blocks(n, d) /\ ~n[a].free /\ m[a].size <= n[a].size
    BY <2>1 DEF Kept
  <2>3. a \in Addrs
    BY <2>1 DEF Blocks
  <2>4. m[a].size \in Nat /\ n[a].size \in Nat
    BY <2>3 DEF Metadata
  <2> QED BY <2>1, <2>2, <2>4
<1>2. \A a \in Blocks(n, d) : ~n[a].free => \E b \in l : b.at = a + 1
  BY DEF LiveOK, Kept
<1> QED BY <1>1, <1>2 DEF LiveOK

\* What the tiling says of a block and its neighbours.
LEMMA TilingFacts ==
    ASSUME NEW m \in [Addrs -> Metadata], NEW s, NEW e \in Addrs, Tiling(m, s, e)
    PROVE  /\ m[e].next = Null /\ m[e].size = 0 /\ m[e].free
           /\ s \in Blocks(m, e) /\ e \in Blocks(m, e) /\ Blocks(m, e) \subseteq Addrs
           /\ \A a \in Blocks(m, e) : s <= a /\ a <= e
           /\ \A a \in Addrs : a # e => (a \in Blocks(m, e) <=> m[a].next # Null)
           /\ \A a \in Blocks(m, e) : a # e =>
                /\ m[a].next = a + 1 + m[a].size
                /\ m[a].next \in Blocks(m, e)
                /\ a < m[a].next
                /\ \A b \in Blocks(m, e) : b <= a \/ m[a].next <= b
<1>1. ASSUME NEW a \in Blocks(m, e), a # e
      PROVE  m[a].next = a + 1 + m[a].size /\ a < m[a].next
  <2>1. a \in Addrs
    BY DEF Blocks
  <2>2. m[a].size \in Nat /\ a \in Nat
    BY <2>1, Units DEF Metadata
  <2> QED BY <1>1, <2>2 DEF Tiling, End, data_size
<1> QED BY <1>1 DEF Tiling, EmptyLast, Blocks

\* A block is split in two at n.
LEMMA SplitTiling ==
    ASSUME NEW m \in [Addrs -> Metadata], NEW m2 \in [Addrs -> Metadata],
           NEW s \in Addrs, NEW e \in Addrs, Tiling(m, s, e),
           NEW a \in Blocks(m, e), a # e, NEW n \in Nat, a < n, n < m[a].next,
           m2[a].next = n, m2[a].size = n - a - 1,
           m2[n].next = m[a].next, m2[n].size = m[a].next - n - 1,
           \A x \in Addrs : x # a /\ x # n => m2[x] = m[x]
    PROVE  /\ n \in Addrs /\ n \notin Blocks(m, e)
           /\ Blocks(m2, e) = Blocks(m, e) \cup {n}
           /\ Tiling(m2, s, e)
<1> DEFINE B == Blocks(m, e)
           c == m[a].next
<1>1. /\ B \subseteq Addrs /\ c \in B /\ c <= e /\ e \in B /\ s \in B
      /\ \A b \in B : s <= b /\ b <= e /\ (b <= a \/ c <= b)
      /\ a \in Addrs /\ c \in Addrs
  BY TilingFacts
<1>2. n \in Addrs /\ n \notin B /\ n # e /\ n # a
  <2>1. a \in Nat /\ c \in Nat /\ e \in Nat /\ c <= MaxAddr /\ e <= MaxAddr /\ MaxAddr \in Nat
    BY <1>1, Units
  <2>2. n <= MaxAddr
    BY <1>1, <2>1
  <2> QED BY <1>1, <2>1, <2>2, Units
<1>3. Blocks(m2, e) = B \cup {n}
  <2>1. m2[a].next # Null /\ m2[n].next # Null
    BY <1>1, <1>2, Units DEF Null
  <2>2. ASSUME NEW x \in Addrs PROVE m2[x].next # Null <=> (m[x].next # Null \/ x = n)
    BY <1>1, <1>2, <2>1, TilingFacts
  <2> QED BY <1>2, <2>2 DEF Blocks
<1>4. ASSUME NEW x \in B \cup {n}, x # e
      PROVE  /\ m2[x].next = x + 1 + m2[x].size
             /\ m2[x].next \in B \cup {n}
             /\ \A b \in B \cup {n} : b <= x \/ m2[x].next <= b
  <2>0. B \subseteq Nat /\ a \in Nat /\ c \in Nat
    BY <1>1, Units
  <2>1. CASE x = a
    BY <1>1, <2>0, <2>1
  <2>2. CASE x = n
    BY <1>1, <2>0, <2>2
  <2>3. CASE x # a /\ x # n
    <3>1. x \in B /\ m2[x] = m[x] /\ x \in Nat
      BY <1>1, <2>0, <2>3
    <3>2. /\ m[x].next = x + 1 + m[x].size /\ m[x].next \in B
          /\ \A b \in B : b <= x \/ m[x].next <= b
      BY <3>1, <1>4, TilingFacts
    <3>3. x <= a \/ c <= x
      BY <1>1, <3>1
    <3>4. m[x].next \in Nat
      BY <3>2, <2>0
    <3>5. n <= x \/ m[x].next <= n
      BY <2>0, <2>3, <3>1, <3>2, <3>3, <3>4
    <3> QED BY <3>1, <3>2, <3>5
  <2> QED BY <2>1, <2>2, <2>3
<1>5. m2[e] = EmptyLast
  BY <1>2 DEF Tiling
<1>6. \A b \in B \cup {n} : s <= b /\ b <= e
  <2>1. B \subseteq Nat
    BY <1>1, Units
  <2> QED BY <1>1, <2>1
<1> HIDE DEF B, c
<1>7. Tiling(m2, s, e)
  <2>1. s \in B
    BY <1>1
  <2> QED BY <1>3, <1>4, <1>5, <1>6, <2>1 DEF Tiling, End, data_size
<1> QED BY <1>2, <1>3, <1>7 DEF B

\* A block takes the memory of the one after it.
LEMMA MergeTiling ==
    ASSUME NEW m \in [Addrs -> Metadata], NEW m2 \in [Addrs -> Metadata],
           NEW s \in Addrs, NEW e \in Addrs, Tiling(m, s, e),
           NEW a \in Blocks(m, e), a # e, NEW b, b = m[a].next, b # e,
           m2[a].next = m[b].next, m2[a].size = m[a].size + 1 + m[b].size,
           m2[b].next = Null,
           \A x \in Addrs : x # a /\ x # b => m2[x] = m[x]
    PROVE  /\ b \in Blocks(m, e) /\ b # a
           /\ Blocks(m2, e) = Blocks(m, e) \ {b}
           /\ Tiling(m2, s, e)
<1> DEFINE B == Blocks(m, e)
           c == m[b].next
<1>1. /\ B \subseteq Addrs /\ b \in B /\ c \in B /\ e \in B /\ s \in B /\ a \in B
      /\ b = a + 1 + m[a].size /\ c = b + 1 + m[b].size /\ a < b /\ b < c
      /\ \A x \in B : s <= x /\ x <= e /\ (x <= a \/ b <= x) /\ (x <= b \/ c <= x)
  BY TilingFacts
<1>2. B \subseteq Nat /\ m[a].size \in Nat /\ m[b].size \in Nat
  BY <1>1, Units DEF Metadata
<1>3. Blocks(m2, e) = B \ {b}
  <2>1. m2[a].next # Null
    BY <1>1, <1>2 DEF Null
  <2>2. ASSUME NEW x \in Addrs, x # e PROVE m2[x].next # Null <=> x \in B /\ x # b
    BY <1>1, <2>1, <2>2, TilingFacts
  <2> QED BY <1>1, <2>2 DEF Blocks
<1>4. ASSUME NEW x \in B \ {b}, x # e
      PROVE  /\ m2[x].next = x + 1 + m2[x].size
             /\ m2[x].next \in B \ {b}
             /\ \A y \in B \ {b} : y <= x \/ m2[x].next <= y
  <2>1. CASE x = a
    <3>1. m2[x].next = x + 1 + m2[x].size
      BY <1>1, <1>2, <2>1
    <3>2. c \in B \ {b} /\ m2[x].next = c
      BY <1>1, <1>2, <2>1
    <3>3. \A y \in B \ {b} : y <= x \/ c <= y
      BY <1>1, <1>2, <2>1
    <3> QED BY <3>1, <3>2, <3>3
  <2>2. CASE x # a
    <3>1. x \in B /\ m2[x] = m[x] /\ x \in Nat
      BY <1>1, <1>2, <2>2
    <3>2. /\ m[x].next = x + 1 + m[x].size /\ m[x].next \in B /\ x < m[x].next
          /\ \A y \in B : y <= x \/ m[x].next <= y
      BY <3>1, <1>4, TilingFacts
    <3>3. m[x].next # b
      <4>1. m[x].next \in Nat /\ a \in Nat /\ b \in Nat
        BY <1>1, <1>2, <3>2
      <4>2. x <= a \/ b <= x
        BY <1>1, <3>1
      <4>3. a <= x \/ m[x].next <= a
        BY <1>1, <3>2
      <4> QED BY <1>1, <2>2, <3>1, <3>2, <4>1, <4>2, <4>3
    <3> QED BY <3>1, <3>2, <3>3
  <2> QED BY <2>1, <2>2
<1>5. s # b
  BY <1>1, <1>2
<1>6. m2[e] = EmptyLast
  BY <1>1, <1>2 DEF Tiling
<1> HIDE DEF B, c
<1>7. Tiling(m2, s, e)
  <2>1. \A x \in B \ {b} : s <= x /\ x <= e
    BY <1>1
  <2> QED BY <1>1, <1>3, <1>4, <1>5, <1>6, <2>1 DEF Tiling, End, data_size
<1> QED BY <1>1, <1>2, <1>3, <1>7 DEF B

\* The last block becomes an ordinary one, and n the last.
LEMMA AppendTiling ==
    ASSUME NEW m \in [Addrs -> Metadata], NEW m2 \in [Addrs -> Metadata],
           NEW s \in Addrs, NEW e \in Addrs, Tiling(m, s, e),
           NEW n \in Addrs, e < n,
           m2[e].next = n, m2[e].size = n - e - 1, m2[n] = EmptyLast,
           \A x \in Addrs : x # e /\ x # n => m2[x] = m[x]
    PROVE  Blocks(m2, n) = Blocks(m, e) \cup {n} /\ Tiling(m2, s, n)
<1> DEFINE B == Blocks(m, e)
<1>1. /\ B \subseteq Addrs /\ e \in B /\ s \in B
      /\ \A x \in B : s <= x /\ x <= e
  BY TilingFacts
<1>2. B \subseteq Nat /\ n \in Nat /\ n \notin B /\ n # Null
  <2>1. B \subseteq Nat /\ n \in Nat
    BY <1>1, Units
  <2> QED BY <1>1, <2>1 DEF Null
<1>3. Blocks(m2, n) = B \cup {n}
  <2>1. ASSUME NEW x \in Addrs, x # n PROVE m2[x].next # Null <=> x \in B
    BY <1>1, <1>2, <2>1, TilingFacts
  <2> QED BY <1>1, <2>1 DEF Blocks
<1>4. ASSUME NEW x \in B
      PROVE  /\ m2[x].next = x + 1 + m2[x].size
             /\ m2[x].next \in B \cup {n}
             /\ \A y \in B \cup {n} : y <= x \/ m2[x].next <= y
  <2>1. CASE x = e
    BY <1>1, <1>2, <2>1
  <2>2. CASE x # e
    <3>1. m2[x] = m[x] /\ x # n
      BY <1>1, <1>2, <2>2
    <3>2. /\ m[x].next = x + 1 + m[x].size /\ m[x].next \in B
          /\ \A y \in B : y <= x \/ m[x].next <= y
      BY <2>2, TilingFacts
    <3>3. m[x].next <= n
      BY <1>1, <1>2, <3>2
    <3> QED BY <3>1, <3>2, <3>3
  <2> QED BY <2>1, <2>2
<1>5. \A x \in B \cup {n} : s <= x /\ x <= n
  BY <1>1, <1>2
<1> HIDE DEF B
<1>6. Tiling(m2, s, n)
  BY <1>1, <1>3, <1>4, <1>5 DEF Tiling, End, data_size
<1> QED BY <1>3, <1>6 DEF B

\* A block is moved up to n, and the one before it, if any, takes the room.
LEMMA MoveTiling ==
    ASSUME NEW m \in [Addrs -> Metadata], NEW m2 \in [Addrs -> Metadata],
           NEW s \in Addrs, NEW e \in Addrs, Tiling(m, s, e),
           NEW a \in Blocks(m, e), a # e, NEW n \in Nat, a < n, n < m[a].next,
           NEW p \in Blocks(m, e), p # e, m[p].next = a,
           m2[a].next = Null, m2[n].next = m[a].next,
           m2[n].size = m[a].next - n - 1,
           m2[p].next = n, m2[p].size = n - p - 1,
           \A x \in Addrs : x # a /\ x # n /\ x # p => m2[x] = m[x]
    PROVE  /\ n \in Addrs /\ n \notin Blocks(m, e) /\ p # a /\ p # n
           /\ Blocks(m2, e) = (Blocks(m, e) \ {a}) \cup {n}
           /\ Tiling(m2, s, e)
<1> DEFINE B == Blocks(m, e)
           c == m[a].next
           D == (B \ {a}) \cup {n}
<1>1. /\ B \subseteq Addrs /\ c \in B /\ e \in B /\ s \in B /\ p < a
      /\ \A b \in B : s <= b /\ b <= e /\ (b <= a \/ c <= b) /\ (b <= p \/ a <= b)
  BY TilingFacts
<1>2. B \subseteq Nat /\ c <= MaxAddr /\ MaxAddr \in Nat
  BY <1>1, Units
<1>3. n \in Addrs /\ n \notin B /\ n # e /\ p # a /\ p # n /\ s # a
  <2>1. n <= MaxAddr
    BY <1>2, <1>1
  <2>2. n \notin B
    BY <1>2, <1>1
  <2>3. p # a /\ s # a
    BY <1>2, <1>1
  <2> QED BY <1>1, <2>1, <2>2, <2>3, Units
<1>4. Blocks(m2, e) = D
  <2>1. m2[p].next # Null /\ m2[n].next # Null
    BY <1>1, <1>2 DEF Null
  <2>2. ASSUME NEW x \in Addrs, x # e PROVE m2[x].next # Null <=> x \in D
    BY <1>1, <1>3, <2>1, <2>2, TilingFacts
  <2> QED BY <1>1, <1>3, <2>2 DEF Blocks
<1>5. ASSUME NEW x \in D, x # e
      PROVE  /\ m2[x].next = x + 1 + m2[x].size
             /\ m2[x].next \in D
             /\ \A y \in D : y <= x \/ m2[x].next <= y
  <2>1. CASE x = p
    <3>1. m2[x].next = x + 1 + m2[x].size
      BY <1>2, <2>1
    <3>2. \A y \in D : y <= x \/ n <= y
      <4>1. \A y \in B : y # a => y <= p \/ c <= y
        BY <1>1, <1>2
      <4> QED BY <1>1, <1>2, <2>1, <4>1
    <3> QED BY <2>1, <3>1, <3>2
  <2>2. CASE x = n
    <3>1. m2[x].next = x + 1 + m2[x].size
      BY <1>1, <1>2, <2>2
    <3>2. c \in D /\ m2[x].next = c
      BY <1>1, <1>2, <2>2
    <3>3. \A y \in D : y <= n \/ c <= y
      BY <1>1, <1>2
    <3> QED BY <2>2, <3>1, <3>2, <3>3
  <2>3. CASE x # p /\ x # n
    <3>1. x \in B /\ x # a /\ m2[x] = m[x] /\ x \in Nat
      BY <1>1, <1>2, <2>3
    <3>2. /\ m[x].next = x + 1 + m[x].size /\ m[x].next \in B /\ x < m[x].next
          /\ \A y \in B : y <= x \/ m[x].next <= y
      BY <3>1, <1>5, TilingFacts
    <3>3. m[x].next \in Nat
      BY <3>2, <1>2
    <3>4. m[x].next # a
      <4>1. p <= x \/ m[x].next <= p
        BY <1>1, <1>2, <3>2
      <4>2. x <= p \/ a <= x
        BY <1>1, <3>1
      <4> QED BY <1>1, <1>2, <2>3, <3>1, <3>2, <3>3, <4>1, <4>2
    <3>5. n <= x \/ m[x].next <= n
      <4>1. x <= a \/ c <= x
        BY <1>1, <3>1
      <4>2. a <= x \/ m[x].next <= a
        BY <1>1, <3>2
      <4> QED BY <1>1, <1>2, <3>1, <3>3, <4>1, <4>2
    <3> QED BY <3>1, <3>2, <3>4, <3>5
  <2> QED BY <2>1, <2>2, <2>3
<1>6. m2[e] = EmptyLast
  BY <1>1, <1>3 DEF Tiling
<1>7. s \in D /\ \A b \in D : s <= b /\ b <= e
  <2>1. c <= e /\ s <= a
    BY <1>1
  <2> QED BY <1>1, <1>2, <1>3, <2>1
<1> HIDE DEF B, c, D
<1>8. Tiling(m2, s, e)
  BY <1>4, <1>5, <1>6, <1>7 DEF Tiling, End, data_size
<1> QED BY <1>3, <1>4, <1>8 DEF B, D

\* The same of the first block, which takes the start of the heap along.
LEMMA MoveFirst ==
    ASSUME NEW m \in [Addrs -> Metadata], NEW m2 \in [Addrs -> Metadata],
           NEW s \in Addrs, NEW e \in Addrs, Tiling(m, s, e),
           s # e, NEW n \in Nat, s < n, n < m[s].next,
           m2[s].next = Null, m2[n].next = m[s].next,
           m2[n].size = m[s].next - n - 1,
           \A x \in Addrs : x # s /\ x # n => m2[x] = m[x]
    PROVE  /\ n \in Addrs /\ n \notin Blocks(m, e)
           /\ Blocks(m2, e) = (Blocks(m, e) \ {s}) \cup {n}
           /\ Tiling(m2, n, e)
<1> DEFINE B == Blocks(m, e)
           c == m[s].next
           D == (B \ {s}) \cup {n}
<1>1. /\ B \subseteq Addrs /\ c \in B /\ e \in B /\ s \in B
      /\ \A b \in B : s <= b /\ b <= e /\ (b <= s \/ c <= b)
  BY TilingFacts
<1>2. B \subseteq Nat /\ c <= MaxAddr /\ MaxAddr \in Nat
  BY <1>1, Units
<1>3. n \in Addrs /\ n \notin B /\ n # e
  <2>1. n <= MaxAddr
    BY <1>2, <1>1
  <2>2. n \notin B
    BY <1>2, <1>1
  <2> QED BY <1>1, <2>1, <2>2, Units
<1>4. Blocks(m2, e) = D
  <2>1. m2[n].next # Null
    BY <1>1, <1>2 DEF Null
  <2>2. ASSUME NEW x \in Addrs, x # e PROVE m2[x].next # Null <=> x \in D
    BY <1>1, <1>3, <2>1, <2>2, TilingFacts
  <2> QED BY <1>1, <1>3, <2>2 DEF Blocks
<1>5. ASSUME NEW x \in D, x # e
      PROVE  /\ m2[x].next = x + 1 + m2[x].size
             /\ m2[x].next \in D
             /\ \A y \in D : y <= x \/ m2[x].next <= y
  <2>1. CASE x = n
    <3>1. m2[x].next = x + 1 + m2[x].size
      BY <1>1, <1>2, <2>1
    <3>2. c \in D /\ m2[x].next = c
      BY <1>1, <1>2, <2>1
    <3>3. \A y \in D : y <= n \/ c <= y
      BY <1>1, <1>2
    <3> QED BY <2>1, <3>1, <3>2, <3>3
  <2>2. CASE x # n
    <3>1. x \in B /\ x # s /\ m2[x] = m[x] /\ x \in Nat
      BY <1>1, <1>2, <2>2
    <3>2. /\ m[x].next = x + 1 + m[x].size /\ m[x].next \in B
          /\ \A y \in B : y <= x \/ m[x].next <= y
      BY <3>1, <1>5, TilingFacts
    <3>3. m[x].next # s /\ m[x].next \in Nat /\ n <= x
      <4>1. c <= x /\ s < x
        BY <1>1, <1>2, <3>1
      <4>2. x < m[x].next
        BY <3>1, <1>5, TilingFacts
      <4> QED BY <1>1, <1>2, <3>1, <3>2, <4>1, <4>2
    <3> QED BY <3>1, <3>2, <3>3
  <2> QED BY <2>1, <2>2
<1>6. m2[e] = EmptyLast
  BY <1>1, <1>3 DEF Tiling
<1>7. n \in D /\ \A b \in D : n <= b /\ b <= e
  <2>1. c <= e
    BY <1>1
  <2> QED BY <1>1, <1>2, <1>3, <2>1
<1> HIDE DEF B, c, D
<1>8. Tiling(m2, n, e)
  BY <1>4, <1>5, <1>6, <1>7 DEF Tiling, End, data_size
<1> QED BY <1>3, <1>4, <1>8 DEF B, D

\* The last block is moved up to n.
LEMMA MoveLastTiling ==
    ASSUME NEW m \in [Addrs -> Metadata], NEW m2 \in [Addrs -> Metadata],
           NEW s \in Addrs, NEW e \in Addrs, Tiling(m, s, e),
           NEW n \in Addrs, e < n,
           NEW p \in Blocks(m, e), p # e, m[p].next = e,
           m2[e].next = Null, m2[n] = EmptyLast,
           m2[p].next = n, m2[p].size = n - p - 1,
           \A x \in Addrs : x # e /\ x # n /\ x # p => m2[x] = m[x]
    PROVE  /\ Blocks(m2, n) = (Blocks(m, e) \ {e}) \cup {n}
           /\ n \notin Blocks(m, e)
           /\ Tiling(m2, s, n)
<1> DEFINE B == Blocks(m, e)
           D == (B \ {e}) \cup {n}
<1>1. /\ B \subseteq Addrs /\ e \in B /\ s \in B /\ p < e
      /\ \A b \in B : s <= b /\ b <= e /\ (b <= p \/ e <= b)
  BY TilingFacts
<1>2. B \subseteq Nat /\ n \in Nat
  BY <1>1, Units
<1>3. n \notin B /\ p # n /\ s # e
  BY <1>2, <1>1
<1>4. Blocks(m2, n) = D
  <2>1. m2[p].next # Null
    BY <1>1, <1>2 DEF Null
  <2>2. ASSUME NEW x \in Addrs, x # n PROVE m2[x].next # Null <=> x \in D
    BY <1>1, <1>3, <2>1, <2>2, TilingFacts
  <2> QED BY <1>1, <1>3, <2>2 DEF Blocks
<1>5. ASSUME NEW x \in D, x # n
      PROVE  /\ m2[x].next = x + 1 + m2[x].size
             /\ m2[x].next \in D
             /\ \A y \in D : y <= x \/ m2[x].next <= y
  <2>1. CASE x = p
    <3>1. m2[x].next = x + 1 + m2[x].size
      BY <1>2, <2>1
    <3>2. \A y \in D : y <= x \/ n <= y
      <4>1. \A y \in B : y # e => y <= p
        BY <1>1, <1>2
      <4> QED BY <1>2, <2>1, <4>1
    <3> QED BY <2>1, <3>1, <3>2
  <2>2. CASE x # p
    <3>1. x \in B /\ x # e /\ m2[x] = m[x] /\ x \in Nat
      BY <1>1, <1>2, <1>5, <2>2
    <3>2. /\ m[x].next = x + 1 + m[x].size /\ m[x].next \in B /\ x < m[x].next
          /\ \A y \in B : y <= x \/ m[x].next <= y
      BY <3>1, TilingFacts
    <3>3. m[x].next \in Nat
      BY <3>2, <1>2
    <3>4. m[x].next # e
      <4>1. p <= x \/ m[x].next <= p
        BY <1>1, <1>2, <3>2
      <4>2. x <= p
        BY <1>1, <1>2, <3>1
      <4> QED BY <1>1, <1>2, <2>2, <3>1, <3>2, <3>3, <4>1, <4>2
    <3>5. m[x].next <= n
      BY <1>1, <1>2, <3>2
    <3> QED BY <3>1, <3>2, <3>4, <3>5
  <2> QED BY <2>1, <2>2
<1>7. s \in D /\ \A b \in D : s <= b /\ b <= n
  BY <1>1, <1>2, <1>3
<1> HIDE DEF B, D
<1>8. Tiling(m2, s, n)
  BY <1>4, <1>5, <1>7 DEF Tiling, End, data_size
<1> QED BY <1>3, <1>4, <1>8 DEF B, D

\* The last block is the only one.
LEMMA MoveOnly ==
    ASSUME NEW m \in [Addrs -> Metadata], NEW m2 \in [Addrs -> Metadata],
           NEW e \in Addrs, Tiling(m, e, e),
           NEW n \in Addrs, e < n,
           m2[e].next = Null, m2[n] = EmptyLast,
           \A x \in Addrs : x # e /\ x # n => m2[x] = m[x]
    PROVE  Blocks(m, e) = {e} /\ Blocks(m2, n) = {n} /\ Tiling(m2, n, n)
<1>1. Blocks(m, e) = {e}
  <2>1. ASSUME NEW x \in Blocks(m, e) PROVE x = e
    <3>1. x \in Addrs /\ e <= x /\ x <= e
      BY TilingFacts
    <3> QED BY <3>1, Units
  <2> QED BY <2>1, TilingFacts
<1>2. Blocks(m2, n) = {n}
  <2>1. ASSUME NEW x \in Addrs, x # n PROVE m2[x].next = Null
    BY <1>1, <2>1 DEF Blocks
  <2> QED BY <2>1 DEF Blocks
<1>3. n \in Nat
  BY Units
<1> QED BY <1>1, <1>2, <1>3 DEF Tiling

\* Every block but the first has one before it.
LEMMA HasPrevious ==
    ASSUME NEW m \in [Addrs -> Metadata], NEW s \in Addrs, NEW e \in Addrs,
           Tiling(m, s, e), s # e
    PROVE  \E p \in Blocks(m, e) : p # e /\ m[p].next = e
<1> DEFINE B == Blocks(m, e)
           T == {x \in Nat : \E b \in B : b # e /\ x = e - b}
<1>1. /\ s \in B /\ B \subseteq Nat /\ e \in Nat
      /\ \A b \in B : b <= e
  BY TilingFacts, Units
<1>2. T \subseteq Nat /\ e - s \in T
  BY <1>1
<1>3. PICK x \in T : \A y \in T : ~(y < x)
  <2>1. IsWellFoundedOn(OpToRel(<, Nat), Nat)
    BY NatLessThanWellFounded
  <2>2. PICK x \in T : \A y \in T : ~(<<y, x>> \in OpToRel(<, Nat))
    BY <1>2, <2>1, WFMin
  <2> QED BY <1>2, <2>2 DEF OpToRel
<1>4. PICK p \in B : p # e /\ x = e - p
  BY <1>3
<1>5. \A b \in B : b # e => b <= p
  <2>1. ASSUME NEW b \in B, b # e PROVE b <= p
    <3>1. e - b \in T
      BY <1>1, <2>1
    <3>2. ~(e - b < x)
      BY <1>3, <3>1
    <3> QED BY <1>1, <1>4, <3>2
  <2> QED BY <2>1
<1>6. m[p].next \in B /\ p < m[p].next
  BY <1>4, TilingFacts
<1>7. m[p].next = e
  BY <1>1, <1>5, <1>6
<1> QED BY <1>4, <1>7

\* Rounding up to whole units.
LEMMA Aligning ==
    ASSUME NEW x \in Nat, NEW n \in Nat \ {0}
    PROVE  /\ AlignUp(x, n) \in Nat /\ x <= AlignUp(x, n) /\ AlignUp(x, n) <= x + n - 1
           /\ AlignUp(x, n) % n = 0
<1> DEFINE y == x + n - 1
           q == y \div n
           r == y % n
<1>1. y \in Nat
  OBVIOUS
<1>2. q \in Nat /\ r \in 0 .. n - 1 /\ y = n * q + r
  BY <1>1
<1>3. AlignUp(x, n) = q * n
  BY DEF AlignUp
<1> HIDE DEF q, r
<1>4. q * n \in Nat /\ q * n = n * q
  BY <1>2
<1>5. (q * n) % n = 0
  BY <1>2
<1> QED BY <1>2, <1>3, <1>4, <1>5

\* Where aligned data begins.
LEMMA Begins ==
    ASSUME NEW x \in Nat, NEW n, n = 0 \/ n = PageUnits
    PROVE  /\ Begin(x, n) \in Nat /\ x < Begin(x, n) /\ Begin(x, n) <= x + 1 + n
           /\ n # 0 => Begin(x, n) <= x + n /\ Begin(x, n) % n = 0
           /\ n = 0 => Begin(x, n) = x + 1
<1>1. CASE n = 0
  BY <1>1 DEF Begin, AlignUp, data_size
<1>2. CASE n # 0
  <2>1. n \in Nat \ {0} /\ x + 1 \in Nat
    BY <1>2, Units
  <2>2. Begin(x, n) = AlignUp(x + 1, n)
    BY DEF Begin, data_size
  <2>3. /\ AlignUp(x + 1, n) \in Nat /\ x + 1 <= AlignUp(x + 1, n)
        /\ AlignUp(x + 1, n) <= x + 1 + n - 1 /\ AlignUp(x + 1, n) % n = 0
    BY <2>1, Aligning
  <2> HIDE DEF AlignUp
  <2> QED BY <1>2, <2>1, <2>2, <2>3
<1> QED BY <1>1, <1>2

\* Two blocks' metadata are written, or three.
LEMMA TwoWritten ==
    ASSUME NEW m \in [Addrs -> Metadata], NEW x \in Addrs, NEW y \in Addrs, x # y,
           NEW u \in Metadata, NEW v \in Metadata,
           NEW n, n = [m EXCEPT ![x] = u, ![y] = v]
    PROVE  /\ n \in [Addrs -> Metadata] /\ n[x] = u /\ n[y] = v
           /\ \A z \in Addrs : z # x /\ z # y => n[z] = m[z]
OBVIOUS

LEMMA Written ==
    ASSUME NEW d \in Nat, NEW k \in Addrs \cup {Null}, NEW b \in BOOLEAN
    PROVE  /\ [size |-> d, next |-> k, free |-> b] \in Metadata
           /\ Blank \in Metadata /\ EmptyLast \in Metadata
BY DEF Metadata, Blank, EmptyLast

LEMMA Fields ==
    ASSUME NEW r \in Metadata
    PROVE  /\ r.size \in Nat /\ r.next \in Addrs \cup {Null} /\ r.free \in BOOLEAN
           /\ \A d \in Nat : /\ [r EXCEPT !.size = d] \in Metadata
                             /\ [r EXCEPT !.size = d].size = d
                             /\ [r EXCEPT !.size = d].next = r.next
                             /\ [r EXCEPT !.size = d].free = r.free
BY DEF Metadata

\* AlignBlock leaves a free block of the size asked for, where it is aligned.
LEMMA AlignKeeps ==
    ASSUME Sorts, Tiled, NEW f, WalkOK(f), f.fits, f.at # end,
           Fits(mem, f.at, f.size, f.align)
    PROVE  LET m == AlignBlock(mem, f)
               a == Placed(f)
               s == IF StartMoves(f) THEN a ELSE start
           IN  /\ m \in [Addrs -> Metadata] /\ s \in Addrs /\ a \in Addrs
               /\ Tiling(m, s, end)
               /\ a \in Blocks(m, end) /\ a # end
               /\ m[a].free /\ f.size <= m[a].size
               /\ f.align # 0 => (a + 1) % f.align = 0
               /\ Kept(mem, end, m, end)
<1> DEFINE B == Blocks(mem, end)
           o == f.at
           c == mem[o].next
           a == Placed(f)
           m == AlignBlock(mem, f)
           s == IF StartMoves(f) THEN a ELSE start
<1>1. /\ B \subseteq Addrs /\ o \in B /\ c \in B /\ o < c /\ c = o + 1 + mem[o].size
      /\ mem \in [Addrs -> Metadata] /\ start \in Addrs /\ end \in Addrs
      /\ Tiling(mem, start, end) /\ mem[o].free /\ start \in B
      /\ \A b \in B : start <= b /\ b <= end
  BY TilingFacts DEF Sorts, Tiled, WalkOK, Fits
<1>2. o \in Nat /\ c \in Nat /\ mem[o].size \in Nat /\ o \in Addrs /\ c \in Addrs
  BY <1>1, Units DEF Metadata
<1>3. /\ f.size \in Nat \ {0} /\ (f.align = 0 \/ (f.align = PageUnits /\ f.size = PageUnits))
      /\ f.size <= mem[o].size
  <2>1. RequestOK(f)
    BY DEF WalkOK
  <2> QED BY <2>1 DEF RequestOK, Fits
<1>4. /\ a \in Nat /\ o <= a /\ a + 1 = Begin(o, f.align) /\ a = Begin(o, f.align) - 1
      /\ f.align # 0 => (a + 1) % f.align = 0
  <2>1. f.align = 0 \/ f.align = PageUnits
    BY <1>3
  <2>2. a = Begin(o, f.align) - 1
    BY DEF Placed, data_size
  <2> QED BY <1>2, <2>1, <2>2, Begins
<1>5. f.size <= c - a - 1 /\ a < c
  <2>1. End(mem, o) = c
    BY <1>1 DEF End, data_size
  <2>2. CASE End(mem, o) < Begin(o, f.align)
    <3>1. CASE f.align = 0
      <4>1. Begin(o, f.align) = o + 1
        BY <1>2, <3>1, Begins
      <4> QED BY <1>1, <1>2, <2>1, <2>2, <4>1
    <3>2. CASE f.align # 0
      <4>1. f.align = PageUnits /\ f.size = PageUnits
        BY <1>3, <3>2
      <4>2. Begin(o, f.align) <= o + f.align
        BY <1>2, <3>2, <4>1, Begins
      <4> QED BY <1>1, <1>2, <1>3, <1>4, <2>1, <2>2, <4>1, <4>2
    <3> QED BY <3>1, <3>2
  <2>3. CASE f.size <= End(mem, o) - Begin(o, f.align)
    BY <1>2, <1>3, <1>4, <2>1, <2>3
  <2> QED BY <2>2, <2>3 DEF Fits
<1>6. a \in Addrs
  <2>1. c <= MaxAddr /\ MaxAddr \in Nat
    BY <1>2, Units
  <2> QED BY <1>2, <1>4, <1>5, <2>1, Units
<1>7. f.at = o /\ Placed(f) = a
  OBVIOUS
<1>8. f.prev = Null \/ f.prev \in Addrs
  BY <1>1 DEF WalkOK
<1> DEFINE Goal == /\ m \in [Addrs -> Metadata] /\ s \in Addrs /\ Tiling(m, s, end)
                   /\ a \in Blocks(m, end) /\ a # end
                   /\ m[a].free /\ f.size <= m[a].size
                   /\ Kept(mem, end, m, end)
<1>9. ASSUME a = o PROVE Goal
  <2>1. m = mem /\ s = start
    BY <1>7, <1>9 DEF AlignBlock, StartMoves
  <2>2. Kept(mem, end, mem, end)
    BY <1>1 DEF Kept, Metadata
  <2> QED BY <1>1, <1>3, <1>4, <1>6, <1>9, <2>1, <2>2
<1>10. ASSUME a # o, RoomBefore(o, a) PROVE Goal
  <2>1. m = [mem EXCEPT ![o] = [size |-> a - o - 1, next |-> a, free |-> TRUE],
                        ![a] = [size |-> c - a - 1, next |-> c, free |-> TRUE]]
    BY <1>1, <1>7, <1>10 DEF AlignBlock, End, data_size
  <2>2. s = start
    BY <1>7, <1>10 DEF StartMoves
  <2>3. a - o - 1 \in Nat /\ c - a - 1 \in Nat
    BY <1>2, <1>4, <1>5, <1>10
  <2>4. /\ m \in [Addrs -> Metadata]
        /\ m[o] = [size |-> a - o - 1, next |-> a, free |-> TRUE]
        /\ m[a] = [size |-> c - a - 1, next |-> c, free |-> TRUE]
        /\ \A x \in Addrs : x # o /\ x # a => m[x] = mem[x]
    <3> DEFINE u == [size |-> a - o - 1, next |-> a, free |-> TRUE]
               v == [size |-> c - a - 1, next |-> c, free |-> TRUE]
    <3>1. u \in Metadata /\ v \in Metadata
      BY <1>2, <1>6, <2>3, Written
    <3>2. m = [mem EXCEPT ![o] = u, ![a] = v]
      BY <2>1
    <3> HIDE DEF m, a, o, c, u, v
    <3>3. /\ m \in [Addrs -> Metadata] /\ m[o] = u /\ m[a] = v
          /\ \A x \in Addrs : x # o /\ x # a => m[x] = mem[x]
      BY <1>1, <1>2, <1>6, <1>10, <3>1, <3>2, TwoWritten
    <3> QED BY <3>3 DEF u, v
  <2> HIDE DEF m, s, a, c, o
  <2>5. /\ a \notin B /\ Blocks(m, end) = B \cup {a} /\ Tiling(m, start, end)
    <3>1. o < a
      BY <1>2, <1>4, <1>10
    <3>2. /\ mem \in [Addrs -> Metadata] /\ m \in [Addrs -> Metadata]
          /\ start \in Addrs /\ end \in Addrs /\ Tiling(mem, start, end)
          /\ o \in Blocks(mem, end) /\ o # end /\ a \in Nat /\ a < mem[o].next
          /\ m[o].next = a /\ m[o].size = a - o - 1
          /\ m[a].next = mem[o].next /\ m[a].size = mem[o].next - a - 1
          /\ \A x \in Addrs : x # o /\ x # a => m[x] = mem[x]
      BY <1>1, <1>4, <1>5, <2>4 DEF c, o
    <3> QED BY ONLY <3>1, <3>2, SplitTiling
  <2>6. Kept(mem, end, m, end)
    <3>1. \A x \in B : x # o => m[x] = mem[x]
      BY <1>1, <2>4, <2>5
    <3>2. \A x \in B : mem[x].size \in Nat
      BY <1>1 DEF Metadata
    <3> QED BY <1>1, <2>4, <2>5, <3>1, <3>2 DEF Kept
  <2>7. a # end
    BY <1>1, <2>5, TilingFacts
  <2> QED BY <1>1, <1>5, <2>2, <2>4, <2>5, <2>6, <2>7
<1>11. ASSUME a # o, ~RoomBefore(o, a), f.prev = Null PROVE Goal
  <2>1. m = [mem EXCEPT ![o] = Blank, ![a] = [mem[o] EXCEPT !.size = @ - (a - o)]]
    BY <1>7, <1>11 DEF AlignBlock
  <2>2. s = a /\ o = start
    BY <1>1, <1>7, <1>8, <1>11, Units DEF StartMoves, WalkOK, Null
  <2>3. mem[o].size - (a - o) = c - a - 1 /\ c - a - 1 \in Nat
    BY <1>1, <1>2, <1>4, <1>5
  <2>4. /\ m \in [Addrs -> Metadata]
        /\ m[o] = Blank
        /\ m[a].size = c - a - 1 /\ m[a].next = c /\ m[a].free
        /\ \A x \in Addrs : x # o /\ x # a => m[x] = mem[x]
    <3> HIDE DEF m, a, o, c
    <3>1. /\ Blank \in Metadata /\ mem[o] \in Metadata
          /\ m = [mem EXCEPT ![o] = Blank, ![a] = [mem[o] EXCEPT !.size = c - a - 1]]
      BY <1>1, <1>2, <2>1, <2>3, Written
    <3>2. /\ [mem[o] EXCEPT !.size = c - a - 1] \in Metadata
          /\ [mem[o] EXCEPT !.size = c - a - 1].size = c - a - 1
          /\ [mem[o] EXCEPT !.size = c - a - 1].next = mem[o].next
          /\ [mem[o] EXCEPT !.size = c - a - 1].free = mem[o].free
      BY <2>3, <3>1, Fields
    <3> QED BY <1>1, <1>2, <1>6, <1>11, <3>1, <3>2, TwoWritten DEF c
  <2> HIDE DEF m, s, a, c, o
  <2>5. a \notin B /\ Blocks(m, end) = (B \ {o}) \cup {a} /\ Tiling(m, a, end)
    <3>1. o < a
      BY <1>2, <1>4, <1>11
    <3>2. o # end
      BY DEF o
    <3>3. m[o].next = Null
      BY <2>4 DEF Blank
    <3> QED BY <1>1, <1>4, <1>5, <2>2, <2>4, <3>1, <3>2, <3>3, MoveFirst DEF c
  <2>6. Kept(mem, end, m, end)
    <3>1. \A x \in B : x # o => m[x] = mem[x]
      BY <1>1, <2>4, <2>5
    <3>2. \A x \in B : mem[x].size \in Nat
      BY <1>1 DEF Metadata
    <3> QED BY <1>1, <2>4, <2>5, <3>1, <3>2 DEF Kept
  <2>7. a # end
    BY <1>1, <2>5, TilingFacts
  <2> QED BY <1>1, <1>5, <1>6, <2>2, <2>4, <2>5, <2>6, <2>7
<1>12. ASSUME a # o, ~RoomBefore(o, a), f.prev # Null PROVE Goal
  <2> DEFINE p == f.prev
  <2>1. p \in B /\ p # end /\ mem[p].next = o /\ p \in Addrs
    BY <1>1, <1>12 DEF WalkOK
  <2>2. p < o /\ p \in Nat /\ o = p + 1 + mem[p].size /\ mem[p].size \in Nat
    <3>1. p < mem[p].next /\ mem[p].next = p + 1 + mem[p].size
      BY <1>1, <2>1, TilingFacts
    <3>2. p \in Nat /\ mem[p] \in Metadata
      BY <1>1, <2>1, Units
    <3> QED BY <2>1, <3>1, <3>2, Fields
  <2>3. m = [[mem EXCEPT ![o] = Blank, ![a] = [mem[o] EXCEPT !.size = @ - (a - o)]]
                EXCEPT ![p].next = a, ![p].size = @ + (a - o)]
    BY <1>7, <1>12 DEF AlignBlock
  <2>4. s = start
    BY <1>12 DEF StartMoves
  <2>5. /\ mem[o].size - (a - o) = c - a - 1 /\ c - a - 1 \in Nat
        /\ mem[p].size + (a - o) = a - p - 1 /\ a - p - 1 \in Nat
        /\ p # a /\ p # o /\ mem[p].size <= a - p - 1
    BY <1>1, <1>2, <1>4, <1>5, <2>2
  <2>6. /\ m \in [Addrs -> Metadata]
        /\ m[o] = Blank
        /\ m[a].size = c - a - 1 /\ m[a].next = c /\ m[a].free
        /\ m[p].size = a - p - 1 /\ m[p].next = a /\ m[p].free = mem[p].free
        /\ \A x \in Addrs : x # o /\ x # a /\ x # p => m[x] = mem[x]
    <3> HIDE DEF m, a, o, c, p
    <3> DEFINE r == [mem[o] EXCEPT !.size = c - a - 1]
               k == [mem EXCEPT ![o] = Blank, ![a] = r]
    <3>1. /\ Blank \in Metadata /\ mem[o] \in Metadata
          /\ m = [k EXCEPT ![p].next = a, ![p].size = @ + (a - o)]
      BY <1>1, <1>2, <2>3, <2>5, Written
    <3>2. r \in Metadata /\ r.size = c - a - 1 /\ r.next = mem[o].next /\ r.free = mem[o].free
      BY <2>5, <3>1, Fields
    <3> HIDE DEF r
    <3>3. /\ k \in [Addrs -> Metadata] /\ k[o] = Blank /\ k[a] = r
          /\ \A x \in Addrs : x # o /\ x # a => k[x] = mem[x]
      BY <1>1, <1>2, <1>6, <1>12, <3>1, <3>2, TwoWritten
    <3> HIDE DEF k
    <3> DEFINE d == a - p - 1
    <3>4. m = [k EXCEPT ![p].next = a, ![p].size = d] /\ d \in Nat
      BY <2>1, <2>5, <3>1, <3>3
    <3> HIDE DEF d
    <3>5. /\ m \in [Addrs -> Metadata] /\ m[p].size = d /\ m[p].next = a
          /\ m[p].free = k[p].free
          /\ \A x \in Addrs : x # p => m[x] = k[x]
      BY <1>6, <2>1, <3>3, <3>4 DEF Metadata
    <3>6. o # p /\ a # p /\ k[p] = mem[p]
      BY <2>1, <2>5, <3>3
    <3> QED BY <1>1, <1>2, <1>6, <3>2, <3>3, <3>5, <3>6 DEF c, d
  <2> HIDE DEF m, s, a, c, o, p
  <2>7. a \notin B /\ Blocks(m, end) = (B \ {o}) \cup {a} /\ Tiling(m, start, end)
    <3>1. o < a
      BY <1>2, <1>4, <1>12
    <3>2. o # end
      BY DEF o
    <3>3. m[o].next = Null
      BY <2>6 DEF Blank
    <3>4. /\ a < mem[o].next /\ m[a].next = mem[o].next /\ m[a].size = mem[o].next - a - 1
      BY <1>5, <2>6 DEF c
    <3> QED BY <1>1, <1>4, <2>1, <2>6, <3>1, <3>2, <3>3, <3>4, MoveTiling
  <2>8. Kept(mem, end, m, end)
    <3>1. \A x \in B : x # o /\ x # p => m[x] = mem[x]
      BY <1>1, <2>6, <2>7
    <3>2. \A x \in B : mem[x].size \in Nat
      BY <1>1 DEF Metadata
    <3> QED BY <1>1, <2>1, <2>5, <2>6, <2>7, <3>1, <3>2 DEF Kept
  <2>9. a # end
    BY <1>1, <2>7, TilingFacts
  <2> QED BY <1>1, <1>5, <2>4, <2>6, <2>7, <2>8, <2>9
<1>13. Goal
  BY <1>9, <1>10, <1>11, <1>12
<1> HIDE DEF m, s, a, c, o, B
<1> QED BY <1>4, <1>6, <1>13 DEF m, s, a

\* A block is marked free or not.
LEMMA Flagged ==
    ASSUME NEW m \in [Addrs -> Metadata], NEW s \in Addrs, NEW e \in Addrs,
           Tiling(m, s, e), NEW a \in Blocks(m, e), a # e,
           NEW k \in [Addrs -> Metadata],
           k[a].size = m[a].size, k[a].next = m[a].next,
           \A x \in Addrs : x # a => k[x] = m[x]
    PROVE  Tiling(k, s, e) /\ Blocks(k, e) = Blocks(m, e)
<1>1. a \in Addrs
  BY TilingFacts
<1>2. Blocks(k, e) = Blocks(m, e)
  BY <1>1 DEF Blocks
<1>3. Tiling(k, s, e)
  <2>1. \A x \in Blocks(m, e) : x \in Addrs /\ k[x].next = m[x].next /\ End(k, x) = End(m, x)
    BY <1>1, TilingFacts DEF End
  <2> QED BY <1>2, <2>1 DEF Tiling
<1> QED BY <1>2, <1>3

\* The end of a free block is split off, if it is worth it.
LEMMA SplitEndKeeps ==
    ASSUME NEW m \in [Addrs -> Metadata], NEW s \in Addrs, NEW e \in Addrs,
           Tiling(m, s, e), NEW a \in Blocks(m, e), a # e, m[a].free,
           NEW n \in Nat \ {0}, n <= m[a].size,
           NEW k, k = SplitEnd(m, a, n)
    PROVE  /\ k \in [Addrs -> Metadata] /\ Tiling(k, s, e)
           /\ a \in Blocks(k, e) /\ k[a].free /\ n <= k[a].size
           /\ Kept(m, e, k, e)
<1> DEFINE B == Blocks(m, e)
           d == a + 1 + n
           c == m[a].next
<1>1. /\ B \subseteq Addrs /\ c \in B /\ c = a + 1 + m[a].size /\ c # Null
      /\ a \in Addrs /\ a \in Nat /\ c \in Addrs /\ c <= MaxAddr /\ MaxAddr \in Nat
      /\ m[a].size \in Nat
  <2>1. B \subseteq Addrs /\ c \in B /\ c = a + 1 + m[a].size
    BY TilingFacts
  <2>2. m[a] \in Metadata
    BY <2>1
  <2> QED BY <2>1, <2>2, Fields, Units DEF Null
<1>2. \A x \in B : m[x].size \in Nat
  <2>1. \A x \in B : m[x] \in Metadata
    BY <1>1
  <2> QED BY <2>1, Fields
<1>3. ASSUME ~(m[a].size >= n + 2) PROVE k = m
  BY <1>3 DEF SplitEnd, data_size, heap_align
<1>4. CASE ~(m[a].size >= n + 2)
  BY <1>2, <1>3, <1>4 DEF Kept
<1>5. CASE m[a].size >= n + 2
  <2> DEFINE u == [m[a] EXCEPT !.size = n, !.next = d]
             v == [size |-> m[a].size - n - 1, next |-> c, free |-> TRUE]
  <2>1. k = [m EXCEPT ![a] = u, ![d] = v]
    BY <1>1, <1>5 DEF SplitEnd, data_size, heap_align
  <2>2. d \in Addrs /\ d \in Nat /\ d # a /\ a < d /\ d < c /\ d <= MaxAddr
    <3>1. d \in Nat /\ d # a /\ a < d /\ d < c /\ d <= MaxAddr
      BY <1>1, <1>5
    <3> QED BY <3>1, Units
  <2>3. /\ u \in Metadata /\ u.size = n /\ u.next = d /\ u.free
    <3>1. m[a] \in Metadata
      BY <1>1
    <3> QED BY <2>2, <3>1 DEF Metadata
  <2>4. v \in Metadata
    <3>1. m[a].size - n - 1 \in Nat
      BY <1>1, <1>5
    <3> QED BY <1>1, <3>1, Written
  <2>5. v.size = c - d - 1 /\ n = d - a - 1
    BY <1>1
  <2> HIDE DEF u
  <2>6. /\ k \in [Addrs -> Metadata] /\ k[a] = u /\ k[d] = v
        /\ \A x \in Addrs : x # a /\ x # d => k[x] = m[x]
    <3> HIDE DEF v, d
    <3> QED BY <1>1, <2>1, <2>2, <2>3, <2>4, TwoWritten
  <2>7. k[d].next = c /\ k[d].size = c - d - 1 /\ k[d].free
    BY <2>5, <2>6
  <2> HIDE DEF v, d
  <2>8. d \notin B /\ Blocks(k, e) = B \cup {d} /\ Tiling(k, s, e)
    BY <2>2, <2>3, <2>5, <2>6, <2>7, SplitTiling
  <2>9. Kept(m, e, k, e)
    BY <1>1, <1>2, <2>3, <2>6, <2>7, <2>8 DEF Kept
  <2> QED BY <2>3, <2>6, <2>8, <2>9
<1> QED BY <1>4, <1>5

\* A block is handed out.
LEMMA Grant ==
    ASSUME NEW m \in [Addrs -> Metadata], NEW k \in [Addrs -> Metadata],
           NEW e \in Addrs, NEW d \in Addrs, NEW l, LiveOK(m, e, l),
           NEW a \in Blocks(k, d), a \in Nat, ~k[a].free,
           a \in Blocks(m, e) => m[a].free,
           \A x \in Blocks(m, e) : ~m[x].free =>
             x \in Blocks(k, d) /\ ~k[x].free /\ m[x].size <= k[x].size,
           \A x \in Blocks(k, d) : ~k[x].free /\ x # a => x \in Blocks(m, e) /\ ~m[x].free,
           NEW b, b.at = a + 1, b.size \in Nat, b.size <= k[a].size,
           b.align \in Nat, b.align # 0 => (a + 1) % b.align = 0
    PROVE  LiveOK(k, d, l \cup {b})
<1>1. ASSUME NEW c \in l
      PROVE  /\ c.at \in Nat \ {0} /\ c.size \in Nat /\ c.at # b.at
             /\ c.align \in Nat /\ (c.align # 0 => c.at % c.align = 0)
             /\ c.at - 1 \in Blocks(k, d) /\ ~k[c.at - 1].free
             /\ c.size <= k[c.at - 1].size
  <2> DEFINE x == c.at - 1
  <2>1. /\ c.at \in Nat \ {0} /\ x \in Blocks(m, e) /\ ~m[x].free /\ c.size <= m[x].size
        /\ c.size \in Nat /\ c.align \in Nat /\ (c.align # 0 => c.at % c.align = 0)
    BY DEF LiveOK
  <2>2. x \in Blocks(k, d) /\ ~k[x].free /\ m[x].size <= k[x].size
    BY <2>1
  <2>3. m[x].size \in Nat /\ k[x].size \in Nat
    <3>1. m[x] \in Metadata /\ k[x] \in Metadata
      BY <2>1 DEF Blocks
    <3> QED BY <3>1, Fields
  <2>4. x # a
    BY <2>1
  <2> QED BY <2>1, <2>2, <2>3, <2>4
<1>2. /\ b.at - 1 = a /\ b.at \in Nat \ {0} /\ (b.align # 0 => b.at % b.align = 0)
  OBVIOUS
<1>3. \A x \in Blocks(k, d) : ~k[x].free => \E c \in l \cup {b} : c.at = x + 1
  <2>1. \A x \in Blocks(m, e) : ~m[x].free => \E c \in l : c.at = x + 1
    BY DEF LiveOK
  <2> QED BY <2>1
<1>4. \A c1, c2 \in l \cup {b} : c1.at = c2.at => c1 = c2
  <2>1. \A c1, c2 \in l : c1.at = c2.at => c1 = c2
    BY DEF LiveOK
  <2> QED BY <1>1, <2>1
<1> QED BY <1>1, <1>2, <1>3, <1>4 DEF LiveOK

\* find_free_block, for a block that fits.
LEMMA ClaimKeeps ==
    ASSUME Sorts, Tiled, NEW f, WalkOK(f), f.fits, f.at # end,
           Fits(mem, f.at, f.size, f.align),
           NEW l, LiveOK(mem, end, l), NEW by,
           NEW k, k = Claim(mem, f), NEW a, a = Placed(f),
           NEW s, s = IF StartMoves(f) THEN a ELSE start
    PROVE  /\ k \in [Addrs -> Metadata] /\ s \in Addrs /\ Tiling(k, s, end)
           /\ LiveOK(k, end, l \cup {Handed(a + data_size, f, by)})
<1> DEFINE m == AlignBlock(mem, f)
           n == SplitEnd(m, a, f.size)
<1>1. /\ m \in [Addrs -> Metadata] /\ s \in Addrs /\ a \in Addrs /\ end \in Addrs
      /\ mem \in [Addrs -> Metadata]
      /\ Tiling(m, s, end)
      /\ a \in Blocks(m, end) /\ a # end
      /\ m[a].free /\ f.size <= m[a].size
      /\ f.align # 0 => (a + 1) % f.align = 0
      /\ Kept(mem, end, m, end)
  <2>1. /\ m \in [Addrs -> Metadata] /\ s \in Addrs /\ a \in Addrs
        /\ Tiling(m, s, end) /\ a \in Blocks(m, end)
        /\ m[a].free /\ f.size <= m[a].size
        /\ f.align # 0 => (a + 1) % f.align = 0
        /\ Kept(mem, end, m, end)
    BY ONLY AlignKeeps, Sorts, Tiled, WalkOK(f), f.fits, f.at # end,
            Fits(mem, f.at, f.size, f.align), a = Placed(f),
            s = IF StartMoves(f) THEN a ELSE start DEF Sorts
  <2> QED BY <2>1, AlignKeeps DEF Sorts
<1>2. f.size \in Nat \ {0} /\ f.align \in Nat
  <2>1. RequestOK(f)
    BY DEF WalkOK
  <2> QED BY <2>1, Units DEF RequestOK
<1>3. k = IF n[a].next # Null THEN [n EXCEPT ![a].free = FALSE] ELSE n
  BY DEF Claim
<1> HIDE DEF m
<1>4. /\ n \in [Addrs -> Metadata] /\ Tiling(n, s, end)
      /\ a \in Blocks(n, end) /\ n[a].free /\ f.size <= n[a].size
      /\ Kept(m, end, n, end)
  BY <1>1, <1>2, SplitEndKeeps
<1> HIDE DEF n
<1>5. LiveOK(n, end, l)
  <2>1. LiveOK(m, end, l)
    BY <1>1, KeptLive
  <2> QED BY <1>1, <1>4, <2>1, KeptLive
<1>6. n[a].next # Null
  BY <1>1, <1>4, TilingFacts
<1>7. k = [n EXCEPT ![a].free = FALSE]
  BY <1>3, <1>6
<1>8. /\ k \in [Addrs -> Metadata] /\ Tiling(k, s, end)
      /\ Blocks(k, end) = Blocks(n, end)
      /\ ~k[a].free /\ k[a].size = n[a].size
      /\ \A x \in Addrs : x # a => k[x] = n[x]
  <2>1. /\ k \in [Addrs -> Metadata]
        /\ ~k[a].free /\ k[a].size = n[a].size /\ k[a].next = n[a].next
        /\ \A x \in Addrs : x # a => k[x] = n[x]
    <3> DEFINE r == [n[a] EXCEPT !.free = FALSE]
    <3>1. n[a] \in Metadata
      BY <1>1, <1>4
    <3>2. r \in Metadata /\ ~r.free /\ r.size = n[a].size /\ r.next = n[a].next
      BY ONLY <3>1 DEF Metadata
    <3>3. k = [n EXCEPT ![a] = r]
      BY <1>7
    <3> HIDE DEF r
    <3>4. k \in [Addrs -> Metadata] /\ k[a] = r /\ \A x \in Addrs : x # a => k[x] = n[x]
      BY ONLY <1>1, <1>4, <3>2, <3>3
    <3> QED BY <3>2, <3>4
  <2>2. /\ n \in [Addrs -> Metadata] /\ s \in Addrs /\ end \in Addrs
        /\ Tiling(n, s, end) /\ a \in Blocks(n, end) /\ a # end
    BY <1>1, <1>4
  <2>3. Tiling(k, s, end) /\ Blocks(k, end) = Blocks(n, end)
    BY ONLY <2>1, <2>2, Flagged
  <2> QED BY <2>1, <2>3
<1> DEFINE b == Handed(a + data_size, f, by)
<1>9. b.at = a + 1 /\ b.size = f.size /\ b.align = f.align
  BY DEF Handed, data_size
<1> HIDE DEF b
<1>10. LiveOK(k, end, l \cup {b})
  <2>1. \A x \in Blocks(n, end) : ~n[x].free =>
          x \in Blocks(k, end) /\ ~k[x].free /\ n[x].size <= k[x].size
    <3>1. \A x \in Blocks(n, end) : x \in Addrs /\ n[x].size \in Nat
      BY <1>1, <1>4, Fields DEF Blocks
    <3> QED BY <1>4, <1>8, <3>1
  <2>2. \A x \in Blocks(k, end) : ~k[x].free /\ x # a => x \in Blocks(n, end) /\ ~n[x].free
    BY <1>1, <1>8 DEF Blocks
  <2>3. a \in Nat
    BY <1>1, Units
  <2>4. a \in Blocks(k, end) /\ b.size \in Nat /\ b.size <= k[a].size /\ b.align \in Nat
        /\ (b.align # 0 => (a + 1) % b.align = 0)
    BY <1>1, <1>2, <1>4, <1>8, <1>9
  <2>5. a \in Blocks(n, end) => n[a].free
    BY <1>4
  <2>6. b.at = a + 1
    BY <1>9
  <2>7. /\ n \in [Addrs -> Metadata] /\ k \in [Addrs -> Metadata] /\ end \in Addrs
        /\ LiveOK(n, end, l) /\ ~k[a].free
    BY <1>1, <1>4, <1>5, <1>8
  <2> QED BY ONLY <2>1, <2>2, <2>3, <2>4, <2>5, <2>6, <2>7, Grant
<1> QED BY <1>1, <1>8, <1>10 DEF b

\* The last block is moved to where its data is aligned.
LEMMA AlignLastKeeps ==
    ASSUME Sorts, Tiled, NEW n, n = 0 \/ n = PageUnits,
           NEW d \in Addrs, d = NewLast(n),
           NEW m, m = AlignLast(n),
           NEW s, s = IF LastTakesStart(n) THEN d ELSE start
    PROVE  /\ m \in [Addrs -> Metadata] /\ s \in Addrs /\ Tiling(m, s, d)
           /\ Kept(mem, end, m, d)
           /\ n # 0 => (d + 1) % n = 0
<1> DEFINE B == Blocks(mem, end)
           Goal == /\ m \in [Addrs -> Metadata] /\ s \in Addrs /\ Tiling(m, s, d)
                   /\ Kept(mem, end, m, d)
<1>1. /\ mem \in [Addrs -> Metadata] /\ start \in Addrs /\ end \in Addrs
      /\ Tiling(mem, start, end) /\ B \subseteq Addrs
      /\ mem[end].next = Null /\ mem[end].free
  BY TilingFacts DEF Sorts, Tiled
<1>2. end \in Nat /\ d \in Nat /\ end <= d /\ (n # 0 => (d + 1) % n = 0)
  <2>1. end \in Nat
    BY <1>1, Units
  <2>2. /\ Begin(end, n) \in Nat /\ end < Begin(end, n)
        /\ n # 0 => Begin(end, n) % n = 0
    BY <2>1, Begins
  <2>3. d = Begin(end, n) - 1
    BY DEF NewLast, data_size
  <2>4. d + 1 = Begin(end, n)
    BY <2>2, <2>3
  <2> QED BY <2>1, <2>2, <2>3, <2>4
<1>3. \A x \in B : mem[x].size \in Nat
  <2>1. \A x \in B : mem[x] \in Metadata
    BY <1>1
  <2> QED BY <2>1, Fields
<1>4. Blank \in Metadata /\ EmptyLast \in Metadata
  BY DEF Blank, EmptyLast, Metadata
<1>5. ASSUME d = end PROVE Goal
  <2>1. m = mem /\ s = start
    BY <1>5 DEF AlignLast, LastTakesStart
  <2>2. Kept(mem, end, mem, end)
    BY <1>1, <1>3 DEF Kept
  <2> QED BY <1>1, <1>5, <2>1, <2>2
<1>6. ASSUME d # end, d - (end + 1) >= 2 PROVE Goal
  <2> DEFINE u == [size |-> d - (end + 1), next |-> d, free |-> TRUE]
  <2>1. m = [mem EXCEPT ![end] = u, ![d] = EmptyLast] /\ s = start
    BY <1>2, <1>6 DEF AlignLast, LastTakesStart, data_size, heap_align
  <2>2. u \in Metadata /\ u.next = d /\ u.size = d - end - 1 /\ u.free /\ end < d
    <3>1. d - (end + 1) \in Nat /\ d - (end + 1) = d - end - 1 /\ end < d
      BY <1>2, <1>6
    <3> QED BY <3>1, Written
  <2> HIDE DEF u
  <2>3. /\ m \in [Addrs -> Metadata] /\ m[end] = u /\ m[d] = EmptyLast
        /\ \A z \in Addrs : z # end /\ z # d => m[z] = mem[z]
    BY <1>1, <1>4, <1>6, <2>1, <2>2, TwoWritten
  <2>4. Blocks(m, d) = B \cup {d} /\ Tiling(m, start, d)
    BY <1>1, <2>2, <2>3, AppendTiling
  <2>5. d \notin B
    BY <1>1, <1>2, <2>2, TilingFacts
  <2>6. Kept(mem, end, m, d)
    <3>1. m[d].free
      BY <2>3 DEF EmptyLast
    <3> QED BY <1>1, <1>3, <2>2, <2>3, <2>4, <2>5, <3>1 DEF Kept
  <2> QED BY <1>1, <2>1, <2>3, <2>4, <2>6
<1>7. ASSUME d # end, ~(d - (end + 1) >= 2), start = end PROVE Goal
  <2>1. m = [mem EXCEPT ![end] = Blank, ![d] = EmptyLast] /\ s = d
    BY <1>2, <1>7 DEF AlignLast, LastTakesStart, data_size, heap_align
  <2>2. /\ m \in [Addrs -> Metadata] /\ m[end] = Blank /\ m[d] = EmptyLast
        /\ \A z \in Addrs : z # end /\ z # d => m[z] = mem[z]
    BY <1>1, <1>4, <1>7, <2>1, TwoWritten
  <2>3. end < d /\ m[end].next = Null
    BY <1>2, <1>7, <2>2 DEF Blank
  <2>4. B = {end} /\ Blocks(m, d) = {d} /\ Tiling(m, d, d)
    BY <1>1, <1>7, <2>2, <2>3, MoveOnly
  <2>5. Kept(mem, end, m, d)
    <3>1. m[d].free
      BY <2>2 DEF EmptyLast
    <3> QED BY <1>1, <2>4, <3>1 DEF Kept
  <2> QED BY <2>1, <2>2, <2>4, <2>5
<1>8. ASSUME d # end, ~(d - (end + 1) >= 2), start # end PROVE Goal
  <2> DEFINE p == CHOOSE a \in Addrs : mem[a].next = end
             k == [mem EXCEPT ![end] = Blank, ![d] = EmptyLast]
  <2>1. p \in Addrs /\ mem[p].next = end
    <3>1. \E q \in B : q # end /\ mem[q].next = end
      BY <1>1, <1>8, HasPrevious
    <3> QED BY <1>1, <3>1
  <2>2. m = [k EXCEPT ![p].next = d, ![p].size = d - p - 1] /\ s = start
    BY <1>2, <1>8 DEF AlignLast, LastTakesStart, data_size, heap_align
  <2> HIDE DEF p
  <2>3. p \in B /\ p # end /\ p \in Nat /\ end < d /\ end = p + 1 + mem[p].size
    <3>1. end # Null
      BY <1>2 DEF Null
    <3>2. p \in B /\ p # end
      BY <1>1, <2>1, <3>1, TilingFacts
    <3>3. end = p + 1 + mem[p].size
      BY <1>1, <2>1, <3>2, TilingFacts
    <3> QED BY <1>2, <1>8, <2>1, <3>2, <3>3, Units
  <2>4. mem[p].size \in Nat /\ d - p - 1 \in Nat /\ mem[p].size <= d - p - 1 /\ p # d
    BY <1>2, <1>3, <2>3
  <2>5. /\ k \in [Addrs -> Metadata] /\ k[end] = Blank /\ k[d] = EmptyLast
        /\ \A z \in Addrs : z # end /\ z # d => k[z] = mem[z]
    <3> HIDE DEF k
    <3> QED BY <1>1, <1>4, <1>8, TwoWritten DEF k
  <2> HIDE DEF k
  <2>6. /\ m \in [Addrs -> Metadata] /\ m[p].size = d - p - 1 /\ m[p].next = d
        /\ m[p].free = k[p].free
        /\ \A x \in Addrs : x # p => m[x] = k[x]
    <3> DEFINE z == d - p - 1
    <3>1. m = [k EXCEPT ![p].next = d, ![p].size = z] /\ z \in Nat
      BY <2>2, <2>4
    <3> HIDE DEF z
    <3>2. /\ m \in [Addrs -> Metadata] /\ m[p].size = z /\ m[p].next = d
          /\ m[p].free = k[p].free
          /\ \A x \in Addrs : x # p => m[x] = k[x]
      <4>1. d \in Addrs
        OBVIOUS
      <4> QED BY ONLY <2>1, <2>5, <3>1, <4>1 DEF Metadata
    <3> QED BY <3>2 DEF z
  <2>7. /\ k[p] = mem[p] /\ m[end] = Blank /\ m[d] = EmptyLast
        /\ \A x \in Addrs : x # end /\ x # d /\ x # p => m[x] = mem[x]
    BY <1>1, <2>1, <2>3, <2>4, <2>5, <2>6
  <2>8. /\ d \notin B /\ Blocks(m, d) = (B \ {end}) \cup {d} /\ Tiling(m, start, d)
    <3>1. m[end].next = Null
      BY <2>7 DEF Blank
    <3>2. /\ mem \in [Addrs -> Metadata] /\ m \in [Addrs -> Metadata]
          /\ start \in Addrs /\ end \in Addrs /\ d \in Addrs /\ end < d
          /\ Tiling(mem, start, end)
          /\ p \in Blocks(mem, end) /\ p # end /\ mem[p].next = end
          /\ m[p].next = d /\ m[p].size = d - p - 1 /\ m[d] = EmptyLast
          /\ \A x \in Addrs : x # end /\ x # d /\ x # p => m[x] = mem[x]
      BY <1>1, <2>1, <2>3, <2>6, <2>7
    <3> QED BY ONLY <3>1, <3>2, MoveLastTiling
  <2>9. Kept(mem, end, m, d)
    <3>1. m[d].free
      BY <2>7 DEF EmptyLast
    <3> QED BY <1>1, <1>3, <2>1, <2>3, <2>4, <2>6, <2>7, <2>8, <3>1 DEF Kept
  <2> QED BY <1>1, <2>2, <2>6, <2>8, <2>9
<1>9. Goal
  BY <1>5, <1>6, <1>7, <1>8
<1> QED BY <1>2, <1>9

\* The last block is handed out, and a new one follows.
LEMMA AppendKeeps ==
    ASSUME NEW m \in [Addrs -> Metadata], NEW s \in Addrs, NEW e \in Addrs,
           Tiling(m, s, e), NEW l, LiveOK(m, e, l),
           NEW f, f.size \in Nat \ {0}, f.align \in Nat,
           f.align # 0 => (e + 1) % f.align = 0,
           NEW d \in Addrs, d = e + data_size + f.size,
           NEW k, k = AppendBlock(m, e, f.size), NEW by
    PROVE  /\ k \in [Addrs -> Metadata] /\ Tiling(k, s, d)
           /\ LiveOK(k, d, l \cup {Handed(e + data_size, f, by)})
<1> DEFINE u == [size |-> f.size, next |-> d, free |-> FALSE]
           b == Handed(e + data_size, f, by)
<1>1. e \in Nat /\ d \in Nat /\ e < d /\ f.size = d - e - 1
  BY Units DEF data_size
<1>2. k = [m EXCEPT ![e] = u, ![d] = EmptyLast]
  BY DEF AppendBlock
<1>3. /\ u \in Metadata /\ EmptyLast \in Metadata
      /\ u.size = f.size /\ u.next = d /\ ~u.free
  BY Written
<1>4. b.at = e + 1 /\ b.size = f.size /\ b.align = f.align
  BY DEF Handed, data_size
<1> HIDE DEF u, b
<1>5. /\ k \in [Addrs -> Metadata] /\ k[e] = u /\ k[d] = EmptyLast
      /\ \A z \in Addrs : z # e /\ z # d => k[z] = m[z]
  <2>1. e # d
    BY <1>1
  <2> QED BY <1>2, <1>3, <2>1, TwoWritten
<1>6. Blocks(k, d) = Blocks(m, e) \cup {d} /\ Tiling(k, s, d)
  BY <1>1, <1>3, <1>5, AppendTiling
<1>7. /\ m[e].free /\ e \in Blocks(m, e) /\ Blocks(m, e) \subseteq Addrs
      /\ d \notin Blocks(m, e) /\ k[d].free
  <2>1. /\ m[e].free /\ e \in Blocks(m, e) /\ Blocks(m, e) \subseteq Addrs
        /\ \A x \in Blocks(m, e) : x <= e
    BY TilingFacts
  <2> QED BY <1>1, <1>5, <2>1 DEF EmptyLast
<1>8. \A x \in Blocks(m, e) : ~m[x].free =>
        x \in Blocks(k, d) /\ ~k[x].free /\ m[x].size <= k[x].size
  <2>1. \A x \in Blocks(m, e) : m[x].size \in Nat
    BY <1>7, Fields
  <2>2. ASSUME NEW x \in Blocks(m, e), ~m[x].free PROVE k[x] = m[x] /\ x \in Blocks(k, d)
    BY <1>5, <1>6, <1>7, <2>2
  <2> QED BY <2>1, <2>2
<1>9. \A x \in Blocks(k, d) : ~k[x].free /\ x # e => x \in Blocks(m, e) /\ ~m[x].free
  BY <1>5, <1>6, <1>7
<1>10. /\ e \in Blocks(k, d) /\ ~k[e].free /\ (e \in Blocks(m, e) => m[e].free)
       /\ b.size \in Nat /\ b.size <= k[e].size /\ b.align \in Nat
       /\ (b.align # 0 => (e + 1) % b.align = 0)
  BY <1>1, <1>3, <1>4, <1>5, <1>6, <1>7
<1>11. LiveOK(k, d, l \cup {b})
  BY <1>1, <1>4, <1>5, <1>8, <1>9, <1>10, Grant
<1> QED BY <1>5, <1>6, <1>11 DEF b

-----------------------------------------------------------------------------
(* Pages and page tables.                                                  *)

LEMMA Quotient ==
    ASSUME NEW n \in Nat \ {0}, NEW q \in Nat, NEW r \in 0 .. n - 1
    PROVE  (n * q + r) \div n = q /\ (n * q + r) % n = r
<1> DEFINE x == n * q + r
           k == x \div n
           t == x % n
<1>1. x \in Nat
  OBVIOUS
<1>2. k \in Nat /\ t \in 0 .. n - 1 /\ x = n * k + t
  BY <1>1
<1>3. n * q + r = n * k + t
  BY <1>2
<1> HIDE DEF x, k, t
<1>4. k = q
  <2>1. n * (k - q) = r - t
    BY <1>2, <1>3
  <2>2. CASE k > q
    <3>1. n * (k - q) >= n
      BY <1>2, <2>2
    <3> QED BY <1>2, <2>1, <3>1
  <2>3. CASE k < q
    <3>1. n * (k - q) <= -n
      BY <1>2, <2>3
    <3> QED BY <1>2, <2>1, <3>1
  <2> QED BY <1>2, <2>2, <2>3
<1>5. t = r
  BY <1>2, <1>3, <1>4
<1> QED BY <1>4, <1>5 DEF x, k, t

\* One page more.
LEMMA NextTop ==
    ASSUME NEW t \in Nat, t = PageUnits * (t \div PageUnits)
    PROVE  /\ (t + PageUnits) \div PageUnits = (t \div PageUnits) + 1
           /\ t + PageUnits = PageUnits * ((t + PageUnits) \div PageUnits)
<1> DEFINE q == t \div PageUnits
<1>1. PageUnits \in Nat \ {0} /\ q \in Nat
  BY Units
<1>2. t + PageUnits = PageUnits * (q + 1) + 0 /\ q + 1 \in Nat /\ 0 \in 0 .. PageUnits - 1
  BY <1>1
<1> HIDE DEF q
<1>3. (PageUnits * (q + 1) + 0) \div PageUnits = q + 1
  BY <1>1, <1>2, Quotient
<1>4. (t + PageUnits) \div PageUnits = q + 1
  BY <1>2, <1>3
<1> QED BY <1>1, <1>2, <1>4 DEF q

\* The pages of one page table.
LEMMA TableBegins ==
    ASSUME NEW g \in Nat \ {0}, TableAt(g) # TableAt(g - 1)
    PROVE  g % TablePages = 0
<1> DEFINE n == TablePages
           q == (g - 1) \div n
           r == (g - 1) % n
<1>1. n \in Nat \ {0}
  BY PageAssumption
<1>2. q \in Nat /\ r \in 0 .. n - 1 /\ g - 1 = n * q + r
  BY <1>1
<1>3. TableAt(g - 1) = q /\ TableAt(g) = g \div n
  BY DEF TableAt
<1> HIDE DEF q, r, n
<1>4. r = n - 1
  <2>1. CASE r # n - 1
    <3>1. r + 1 \in 0 .. n - 1 /\ g = n * q + (r + 1)
      BY <1>1, <1>2, <2>1
    <3>2. g \div n = q
      BY <1>1, <1>2, <3>1, Quotient
    <3> QED BY <1>3, <3>2
  <2> QED BY <2>1
<1>5. g = n * (q + 1) + 0 /\ q + 1 \in Nat /\ 0 \in 0 .. n - 1
  BY <1>1, <1>2, <1>4
<1>6. (n * (q + 1) + 0) % n = 0
  BY <1>1, <1>5, Quotient
<1> QED BY <1>5, <1>6 DEF n

LEMMA TableHolds ==
    ASSUME NEW g \in Nat, g % TablePages = 0
    PROVE  TableAt(g + 1) = TableAt(g) /\ TableAt(g + 2) = TableAt(g)
<1> DEFINE n == TablePages
           q == g \div n
<1>1. n \in Nat \ {0} /\ 1 \in 0 .. n - 1 /\ 2 \in 0 .. n - 1
  BY PageAssumption
<1>2. q \in Nat /\ g = n * q
  BY <1>1
<1>3. TableAt(g) = q /\ TableAt(g + 1) = (g + 1) \div n /\ TableAt(g + 2) = (g + 2) \div n
  BY DEF TableAt
<1> HIDE DEF q, n
<1>4. (n * q + 1) \div n = q /\ (n * q + 2) \div n = q
  BY <1>1, <1>2, Quotient
<1> QED BY <1>2, <1>3, <1>4

-----------------------------------------------------------------------------
(* The steps.                                                              *)

\* The frames as the actions write them.
LEMMA FrameShapes ==
    /\ Idle.op = "none"
    /\ \A n, g, p, a : LET f == Searching(n, g, p, a)
                       IN f.op = "find" /\ f.size = n /\ f.align = g /\ f.prev = p /\ f.at = a
    /\ \A h, b : LET f == Stopped(h, b)
                 IN /\ f.op = "stop" /\ f.size = h.size /\ f.align = h.align
                    /\ f.prev = h.prev /\ f.at = h.at /\ f.fits = b
    /\ \A h : LET f == Extending(h)
              IN f.op = "grow" /\ f.size = h.size /\ f.align = h.align
    /\ \A h, g : LET f == Mapping(h, g)
                 IN f.op = "map" /\ f.size = h.size /\ f.align = h.align /\ f.page = g
    /\ \A a : Merging(a).op = "merge" /\ Merging(a).at = a
BY DEF Idle, Searching, Stopped, Extending, Mapping, Merging

\* One process is in a call at a time.
LEMMA OneCaller ==
    ASSUME HInv, HPreempt = FALSE, NEW p \in HProcs, Runs(p)
    PROVE  /\ \A q \in HProcs : q # p => doing[q] = Idle /\ parked[q] = <<>>
           /\ doing[p] = Idle => parked[p] = <<>>
           /\ DOMAIN doing = HProcs /\ DOMAIN parked = HProcs
<1>1. \A q \in HProcs : q # p => doing[q] = Idle
  BY DEF Runs
<1>2. \A q \in HProcs : doing[q] = Idle => parked[q] = <<>>
  <2>1. ASSUME NEW q \in HProcs, doing[q] = Idle, parked[q] # <<>> PROVE FALSE
    <3>1. NestedOK(doing[q], parked[q][1])
      BY <2>1 DEF HInv, CallsOK
    <3>2. doing[q].op = "none"
      BY <2>1, FrameShapes
    <3> QED BY <3>1, <3>2 DEF NestedOK
  <2> QED BY <2>1
<1> QED BY <1>1, <1>2 DEF HInv, CallsOK

LEMMA CallsKept ==
    ASSUME HInv, HPreempt = FALSE, NEW p \in HProcs, Runs(p),
           NEW f, DoingOK(f)', doing'[p] = f, DOMAIN doing' = HProcs,
           \A q \in HProcs : q # p => doing'[q] = doing[q],
           DOMAIN parked' = HProcs, \A q \in HProcs : q # p => parked'[q] = parked[q],
           NEW g, parked'[p] = g,
           g = <<>> \/ (g = <<g[1]>> /\ NestedOK(f, g[1])')
    PROVE  CallsOK'
<1>1. /\ \A q \in HProcs : q # p => doing[q] = Idle /\ parked[q] = <<>>
      /\ DOMAIN doing = HProcs /\ DOMAIN parked = HProcs
  BY OneCaller
<1>2. /\ DOMAIN doing' = HProcs /\ doing'[p] = f /\ \A q \in HProcs : q # p => doing'[q] = Idle
      /\ DOMAIN parked' = HProcs /\ parked'[p] = g /\ \A q \in HProcs : q # p => parked'[q] = <<>>
  BY <1>1
<1>3. \A q, r \in HProcs : q # r => doing'[q] = Idle \/ doing'[r] = Idle
  BY <1>2
<1>4. ASSUME NEW q \in HProcs
      PROVE  /\ DoingOK(doing[q])'
             /\ \/ parked'[q] = <<>>
                \/ parked'[q] = <<parked'[q][1]>> /\ NestedOK(doing[q], parked[q][1])'
  <2>1. CASE q = p
    BY <1>2, <2>1
  <2>2. CASE q # p
    BY <1>2, <2>2 DEF DoingOK
  <2> QED BY <2>1, <2>2
<1> QED BY <1>2, <1>3, <1>4 DEF CallsOK

LEMMA Returned ==
    ASSUME HInv, HPreempt = FALSE, NEW p \in HProcs, Runs(p),
           doing[p].op \in {"stop", "grow"}, NEW a, Return(p, a),
           kind' = kind, kind = "kernel" => top' = top /\ tables' = tables
    PROVE  /\ CallsOK'
           /\ \E by : live' = live \cup {Handed(a + data_size, doing[p], by)}
<1>1. DOMAIN parked = HProcs /\ DOMAIN doing = HProcs
  BY OneCaller
<1>2. CASE parked[p] = <<>>
  <2>1. /\ live' = live \cup {Handed(a + data_size, doing[p], p)}
        /\ doing' = [doing EXCEPT ![p] = Idle] /\ parked' = parked
    BY <1>2 DEF Return
  <2>2. DoingOK(Idle)'
    BY DEF DoingOK
  <2>3. CallsOK'
    <3>1. Idle' = Idle
      BY DEF Idle
    <3>2. /\ DOMAIN doing' = HProcs /\ doing'[p] = Idle
          /\ \A q \in HProcs : q # p => doing'[q] = doing[q]
      BY <1>1, <2>1
    <3> QED BY <1>1, <1>2, <2>1, <2>2, <3>1, <3>2, CallsKept
  <2> QED BY <2>1, <2>3
<1>3. CASE parked[p] # <<>>
  <2>0. PICK g : g = parked[p][1]
    OBVIOUS
  <2>1. parked[p] = <<g>> /\ MappingOK(g)
    BY <1>3, <2>0 DEF HInv, CallsOK, NestedOK
  <2>2. /\ live' = live \cup {Handed(a + data_size, doing[p], "table")}
        /\ doing' = [doing EXCEPT ![p] = Head(parked[p])]
        /\ parked' = [parked EXCEPT ![p] = Tail(@)]
    BY <1>3 DEF Return
  <2>3. Head(parked[p]) = g /\ Tail(parked[p]) = <<>>
    BY <2>1
  <2>4. doing' = [doing EXCEPT ![p] = g] /\ parked' = [parked EXCEPT ![p] = <<>>]
    BY <2>2, <2>3
  <2>5. g.op = "map" /\ kind = "kernel" /\ top' = top /\ tables' = tables
    BY <2>1 DEF MappingOK
  <2>6. DoingOK(g)'
    BY <2>1, <2>5 DEF DoingOK, MappingOK, RequestOK, TopPage
  <2>7. CallsOK'
    <3>1. /\ DOMAIN parked' = HProcs /\ parked'[p] = <<>>
          /\ \A q \in HProcs : q # p => parked'[q] = parked[q]
      BY <1>1, <2>4
    <3>2. /\ DOMAIN doing' = HProcs /\ doing'[p] = g
          /\ \A q \in HProcs : q # p => doing'[q] = doing[q]
      BY <1>1, <2>4
    <3> QED BY <2>6, <3>1, <3>2, CallsKept
  <2> QED BY <2>2, <2>7
<1> QED BY <1>2, <1>3

\* What a process is doing, and that it is alone.
LEMMA DoingIs ==
    ASSUME HInv, NEW p \in HProcs
    PROVE  /\ DoingOK(doing[p])
           /\ doing[p].op = "find" => WalkOK(doing[p])
           /\ doing[p].op = "stop" =>
                LET f == doing[p]
                IN  /\ WalkOK(f) /\ f.fits \in BOOLEAN
                    /\ f.fits => f.at # end /\ Fits(mem, f.at, f.size, f.align)
                    /\ ~f.fits => f.at = end
           /\ doing[p].op = "grow" => RequestOK(doing[p]) /\ kind = "kernel"
           /\ doing[p].op = "map" => MappingOK(doing[p])
           /\ doing[p].op = "merge" =>
                doing[p].at \in Blocks(mem, end) \ {end} /\ mem[doing[p].at].free
<1>1. DoingOK(doing[p])
  BY DEF HInv, CallsOK
<1>2. Idle.op = "none"
  BY FrameShapes
<1> QED BY <1>1, <1>2 DEF DoingOK

LEMMA Nested ==
    ASSUME HInv, NEW p \in HProcs
    PROVE  \/ parked[p] = <<>>
           \/ parked[p] = <<parked[p][1]>> /\ NestedOK(doing[p], parked[p][1])
BY DEF HInv, CallsOK

\* Steps that change nothing but where a call is.
LEMMA Moves ==
    ASSUME HInv, HPreempt = FALSE, NEW p \in HProcs, Runs(p),
           UNCHANGED <<kind, list, space, live, parked>>,
           NEW f, doing' = [doing EXCEPT ![p] = f], DoingOK(f)',
           \/ parked[p] = <<>>
           \/ /\ f.op \in {"find", "stop", "grow"}
              /\ f.size = doing[p].size /\ f.align = doing[p].align
    PROVE  HInv'
<1>1. /\ kind' = kind /\ mem' = mem /\ start' = start /\ end' = end /\ top' = top
      /\ mapped' = mapped /\ tables' = tables /\ live' = live /\ parked' = parked
  BY DEF list, space
<1>2. Sorts' /\ Tiled' /\ LiveOK(mem, end, live)' /\ SpaceOK'
  <2>1. Sorts' /\ SpaceOK'
    BY <1>1 DEF HInv, Sorts, SpaceOK, TopPage
  <2>2. Tiled' /\ LiveOK(mem, end, live)'
    BY <1>1 DEF HInv, Tiled
  <2> QED BY <2>1, <2>2
<1>3. CallsOK'
  <2>0. PICK g : g = parked[p]
    OBVIOUS
  <2>1. g = <<>> \/ (g = <<g[1]>> /\ NestedOK(f, g[1])')
    <3>1. CASE g = <<>>
      BY <3>1
    <3>2. CASE g # <<>>
      <4>1. g = <<g[1]>> /\ NestedOK(doing[p], g[1])
        BY <2>0, <3>2, Nested
      <4>2. MappingOK(g[1])'
        BY <1>1, <4>1 DEF NestedOK, MappingOK, RequestOK, TopPage
      <4>3. NestedOK(f, g[1])'
        BY <1>1, <2>0, <3>2, <4>1, <4>2 DEF NestedOK
      <4> QED BY <4>1, <4>3
    <3> QED BY <3>1, <3>2
  <2>2. DOMAIN parked' = HProcs /\ parked'[p] = g
    BY <1>1, <2>0, OneCaller
  <2>3. /\ DOMAIN doing' = HProcs /\ doing'[p] = f
        /\ \A q \in HProcs : q # p => doing'[q] = doing[q]
    BY OneCaller
  <2> QED BY <1>1, <2>1, <2>2, <2>3, CallsKept
<1> QED BY <1>2, <1>3 DEF HInv

LEMMA MallocStep ==
    ASSUME HInv, HPreempt = FALSE, NEW p \in HProcs, Malloc(p) PROVE HInv'
<1>1. /\ Runs(p) /\ doing[p] = Idle /\ UNCHANGED <<kind, list, space, live, parked>>
      /\ \E r \in Requests : doing' = [doing EXCEPT ![p] = Searching(r[1], r[2], Null, start)]
  BY DEF Malloc
<1>2. PICK r \in Requests : doing' = [doing EXCEPT ![p] = Searching(r[1], r[2], Null, start)]
  BY <1>1
<1>0. PICK f : f = Searching(r[1], r[2], Null, start)
  OBVIOUS
<1>3. /\ f.op = "find" /\ f.size = r[1] /\ f.align = r[2] /\ f.prev = Null /\ f.at = start
  BY <1>0, FrameShapes
<1>4. RequestOK(f)
  BY <1>3, SizesAssumption, Units DEF Requests, RequestOK
<1>5. start \in Blocks(mem, end)
  BY TilingFacts DEF HInv, Sorts, Tiled
<1>6. DoingOK(f)'
  <2>1. mem' = mem /\ end' = end /\ start' = start /\ kind' = kind
    BY <1>1 DEF list
  <2> QED BY <1>3, <1>4, <1>5, <2>1 DEF DoingOK, WalkOK, RequestOK
<1>7. parked[p] = <<>>
  BY <1>1, OneCaller
<1> QED BY <1>0, <1>1, <1>2, <1>6, <1>7, Moves

LEMMA PassStep ==
    ASSUME HInv, HPreempt = FALSE, NEW p \in HProcs, Pass(p) PROVE HInv'
<1>0. PICK h, f : h = doing[p] /\ f = Searching(h.size, h.align, h.at, mem[h.at].next)
  OBVIOUS
<1>1. /\ Runs(p) /\ h.op = "find" /\ UNCHANGED <<kind, list, space, live, parked>>
      /\ mem[h.at].next # Null /\ doing' = [doing EXCEPT ![p] = f]
  BY <1>0 DEF Pass
<1>2. /\ f.op = "find" /\ f.size = h.size /\ f.align = h.align /\ f.prev = h.at
      /\ f.at = mem[h.at].next
  BY <1>0, FrameShapes
<1>3. WalkOK(h)
  BY <1>0, <1>1, DoingIs
<1>4. DoingOK(f)'
  <2>1. mem' = mem /\ end' = end /\ start' = start /\ kind' = kind
    BY <1>1 DEF list
  <2>2. /\ mem \in [Addrs -> Metadata] /\ start \in Addrs /\ end \in Addrs
        /\ Tiling(mem, start, end)
    BY DEF HInv, Sorts, Tiled
  <2>3. h.at \in Blocks(mem, end) /\ h.at # end /\ mem[h.at].next \in Blocks(mem, end)
    BY <1>1, <1>3, <2>2, TilingFacts DEF WalkOK
  <2> QED BY <1>2, <1>3, <2>1, <2>3 DEF DoingOK, WalkOK, RequestOK
<1> QED BY <1>0, <1>1, <1>2, <1>4, Moves

LEMMA StopStep ==
    ASSUME HInv, HPreempt = FALSE, NEW p \in HProcs, Stop(p) PROVE HInv'
<1>0. PICK h, f : h = doing[p] /\ f = Stopped(h, mem[h.at].next # Null)
  OBVIOUS
<1>1. /\ Runs(p) /\ h.op = "find" /\ UNCHANGED <<kind, list, space, live, parked>>
      /\ mem[h.at].next = Null \/ Fits(mem, h.at, h.size, h.align)
      /\ doing' = [doing EXCEPT ![p] = f]
  BY <1>0 DEF Stop
<1>2. /\ f.op = "stop" /\ f.size = h.size /\ f.align = h.align /\ f.prev = h.prev
      /\ f.at = h.at /\ f.fits = (mem[h.at].next # Null)
  BY <1>0, FrameShapes
<1>3. WalkOK(h)
  BY <1>0, <1>1, DoingIs
<1>4. DoingOK(f)'
  <2>1. mem' = mem /\ end' = end /\ start' = start /\ kind' = kind
    BY <1>1 DEF list
  <2>2. /\ mem \in [Addrs -> Metadata] /\ start \in Addrs /\ end \in Addrs
        /\ Tiling(mem, start, end)
    BY DEF HInv, Sorts, Tiled
  <2>3. h.at = end <=> mem[h.at].next = Null
    BY <1>3, <2>2, TilingFacts DEF WalkOK
  <2>4. WalkOK(f)'
    BY <1>2, <1>3, <2>1 DEF WalkOK, RequestOK
  <2>5. f.fits => Fits(mem, f.at, f.size, f.align)'
    BY <1>1, <1>2, <2>1 DEF Fits, End
  <2> QED BY <1>1, <1>2, <2>1, <2>3, <2>4, <2>5 DEF DoingOK
<1> QED BY <1>0, <1>1, <1>2, <1>4, Moves

LEMMA TakeStep ==
    ASSUME HInv, HPreempt = FALSE, NEW p \in HProcs, Take(p) PROVE HInv'
<1>0. PICK f, a : f = doing[p] /\ a = Placed(f)
  OBVIOUS
<1>1. /\ Runs(p) /\ f.op = "stop" /\ a # end /\ mem' = Claim(mem, f)
      /\ start' = IF StartMoves(f) THEN a ELSE start
      /\ Return(p, a)
      /\ kind' = kind /\ end' = end /\ top' = top /\ mapped' = mapped /\ tables' = tables
  BY <1>0 DEF Take, space
<1>2. WalkOK(f) /\ f.fits /\ f.at # end /\ Fits(mem, f.at, f.size, f.align)
  <2>1. /\ WalkOK(f) /\ f.fits \in BOOLEAN
        /\ f.fits => f.at # end /\ Fits(mem, f.at, f.size, f.align)
        /\ ~f.fits => f.at = end
    BY <1>0, <1>1, DoingIs
  <2>2. f.fits
    BY <1>0, <1>1, <2>1 DEF Placed
  <2> QED BY <2>1, <2>2
<1>3. CallsOK' /\ \E by : live' = live \cup {Handed(a + data_size, f, by)}
  BY <1>0, <1>1, Returned
<1>4. PICK by : live' = live \cup {Handed(a + data_size, f, by)}
  BY <1>3
<1>5. /\ mem' \in [Addrs -> Metadata] /\ start' \in Addrs /\ Tiling(mem', start', end)
      /\ LiveOK(mem', end, live')
  <2>1. Sorts /\ Tiled /\ LiveOK(mem, end, live)
    BY DEF HInv
  <2> QED BY <1>0, <1>1, <1>2, <1>4, <2>1, ClaimKeeps
<1>6. Sorts' /\ Tiled' /\ LiveOK(mem, end, live)'
  BY <1>1, <1>5 DEF HInv, Sorts, Tiled
<1>7. SpaceOK'
  BY <1>1 DEF HInv, SpaceOK, TopPage
<1> QED BY <1>3, <1>6, <1>7 DEF HInv

LEMMA ExtendStep ==
    ASSUME HInv, HPreempt = FALSE, NEW p \in HProcs, Extend(p) PROVE HInv'
<1>0. PICK h, f : h = doing[p] /\ f = Extending(h)
  OBVIOUS
<1>1. /\ Runs(p) /\ h.op = "stop" /\ UNCHANGED <<kind, list, space, live, parked>>
      /\ kind = "kernel" /\ doing' = [doing EXCEPT ![p] = f]
  BY <1>0 DEF Extend
<1>2. f.op = "grow" /\ f.size = h.size /\ f.align = h.align
  BY <1>0, FrameShapes
<1>3. DoingOK(f)'
  <2>1. RequestOK(h)
    BY <1>0, <1>1, DoingIs DEF WalkOK
  <2> QED BY <1>1, <1>2, <2>1 DEF DoingOK, RequestOK
<1> QED BY <1>0, <1>1, <1>2, <1>3, Moves

LEMMA BrkFailsStep ==
    ASSUME HInv, HPreempt = FALSE, NEW p \in HProcs, BrkFails(p) PROVE HInv'
<1>1. /\ Runs(p) /\ doing[p].op = "stop" /\ UNCHANGED <<kind, list, space, live, parked>>
      /\ kind = "user" /\ doing' = [doing EXCEPT ![p] = Idle]
  BY DEF BrkFails
<1>2. parked[p] = <<>>
  BY <1>1, Nested DEF NestedOK, MappingOK
<1>3. DoingOK(Idle)' /\ Idle' = Idle
  BY DEF DoingOK, Idle
<1> QED BY <1>1, <1>2, <1>3, Moves

LEMMA MergeEndsStep ==
    ASSUME HInv, HPreempt = FALSE, NEW p \in HProcs, MergeEnds(p) PROVE HInv'
<1>1. /\ Runs(p) /\ doing[p].op = "merge" /\ UNCHANGED <<kind, list, space, live, parked>>
      /\ doing' = [doing EXCEPT ![p] = Idle]
  BY DEF MergeEnds
<1>2. parked[p] = <<>>
  BY <1>1, Nested DEF NestedOK
<1>3. DoingOK(Idle)' /\ Idle' = Idle
  BY DEF DoingOK, Idle
<1> QED BY <1>1, <1>2, <1>3, Moves

\* A page is mapped at top, under a page table that is there.
LEMMA MapSpace ==
    ASSUME HInv, kind = "kernel", kind' = kind, end' = end, tables' = tables,
           top' = top + PageUnits, mapped' = mapped \cup {TopPage},
           top + PageUnits <= MaxAddr, TableAt(TopPage) \in tables
    PROVE  SpaceOK' /\ TopPage' = TopPage + 1 /\ TopPage \in Nat /\ top' \in Addrs
<1>1. /\ top \in Nat /\ end \in Nat /\ PageUnits \in Nat \ {0}
  BY Units DEF HInv, Sorts
<1>2. /\ end < top /\ top = PageUnits * TopPage /\ TopPage > 0
      /\ mapped = 0 .. TopPage - 1 /\ \A g \in mapped : TableAt(g) \in tables
  BY DEF HInv, SpaceOK
<1>3. TopPage \in Nat
  BY <1>1 DEF TopPage
<1>4. TopPage' = TopPage + 1 /\ top' = PageUnits * TopPage'
  BY <1>1, <1>2, NextTop DEF TopPage
<1>5. end' < top'
  BY <1>1, <1>2
<1>6. mapped' = 0 .. TopPage' - 1
  BY <1>2, <1>3, <1>4
<1>7. top' \in Addrs
  BY <1>1, Units
<1>8. \A g \in mapped' : TableAt(g)' \in tables'
  BY <1>2 DEF TableAt
<1> QED BY <1>2, <1>3, <1>4, <1>5, <1>6, <1>7, <1>8 DEF SpaceOK, TableAt

LEMMA NextPageStep ==
    ASSUME HInv, HPreempt = FALSE, NEW p \in HProcs, NextPage(p) PROVE HInv'
<1>0. PICK f : f = doing[p]
  OBVIOUS
<1>1. /\ Runs(p) /\ f.op = "grow" /\ TableAt(TopPage) \in tables
      /\ top + PageUnits <= MaxAddr /\ mapped' = mapped \cup {TopPage}
      /\ top' = top + PageUnits /\ kind' = kind /\ mem' = mem /\ start' = start
      /\ end' = end /\ tables' = tables /\ live' = live /\ doing' = doing /\ parked' = parked
  BY <1>0 DEF NextPage, Map, list
<1>2. RequestOK(f) /\ kind = "kernel"
  BY <1>0, <1>1, DoingIs
<1>3. SpaceOK' /\ TopPage' = TopPage + 1 /\ TopPage \in Nat /\ top' \in Addrs
  BY <1>1, <1>2, MapSpace
<1>4. Sorts' /\ Tiled' /\ LiveOK(mem, end, live)'
  BY <1>1, <1>3 DEF HInv, Sorts, Tiled
<1>5. CallsOK'
  <2>1. DoingOK(f)'
    BY <1>1, <1>2 DEF DoingOK, RequestOK
  <2>2. PICK g : g = parked[p]
    OBVIOUS
  <2>3. g = <<>> \/ (g = <<g[1]>> /\ NestedOK(f, g[1])')
    <3>1. CASE g = <<>>
      BY <3>1
    <3>2. CASE g # <<>>
      <4>1. g = <<g[1]>> /\ NestedOK(f, g[1])
        BY <1>0, <2>2, <3>2, Nested
      <4>2. MappingOK(g[1])'
        BY <1>1, <1>3, <4>1 DEF NestedOK, MappingOK, RequestOK
      <4>3. NestedOK(f, g[1])'
        BY <1>1, <4>1, <4>2 DEF NestedOK
      <4> QED BY <4>1, <4>3
    <3> QED BY <3>1, <3>2
  <2>4. DOMAIN parked' = HProcs /\ parked'[p] = g /\ \A q \in HProcs : q # p => parked'[q] = parked[q]
    BY <1>1, <2>2, OneCaller
  <2>5. DOMAIN doing' = HProcs /\ doing'[p] = f /\ \A q \in HProcs : q # p => doing'[q] = doing[q]
    BY <1>0, <1>1, OneCaller
  <2> QED BY <1>1, <2>1, <2>3, <2>4, <2>5, CallsKept
<1> QED BY <1>3, <1>4, <1>5 DEF HInv

LEMMA NewTableStep ==
    ASSUME HInv, HPreempt = FALSE, NEW p \in HProcs, NewTable(p) PROVE HInv'
<1>0. PICK h, f, g : /\ h = doing[p] /\ f = Searching(PageUnits, PageUnits, Null, start)
                     /\ g = Mapping(h, TopPage)
  OBVIOUS
<1>1. /\ Runs(p) /\ h.op = "grow" /\ TableAt(TopPage) \notin tables
      /\ NeedsPage(h.size, h.align)
      /\ tables' = tables \cup {TableAt(TopPage)}
      /\ parked' = [parked EXCEPT ![p] = <<g>> \o @]
      /\ doing' = [doing EXCEPT ![p] = f]
      /\ kind' = kind /\ mem' = mem /\ start' = start /\ end' = end
      /\ top' = top /\ mapped' = mapped /\ live' = live
  BY <1>0 DEF NewTable, list
<1>2. RequestOK(h) /\ kind = "kernel"
  BY <1>0, <1>1, DoingIs
<1>3. /\ f.op = "find" /\ f.size = PageUnits /\ f.align = PageUnits /\ f.prev = Null
      /\ f.at = start
      /\ g.op = "map" /\ g.size = h.size /\ g.align = h.align /\ g.page = TopPage
  BY <1>0, FrameShapes
<1>4. /\ top \in Nat /\ end \in Nat /\ PageUnits \in Nat \ {0}
      /\ end < top /\ top = PageUnits * TopPage /\ TopPage > 0
      /\ mapped = 0 .. TopPage - 1 /\ (\A x \in mapped : TableAt(x) \in tables)
  <2>1. /\ top \in Nat /\ end \in Nat /\ PageUnits \in Nat \ {0}
    BY Units DEF HInv, Sorts
  <2> QED BY <1>2, <2>1 DEF HInv, SpaceOK
<1>5. TopPage \in Nat \ {0} /\ TopPage' = TopPage
  BY <1>1, <1>4 DEF TopPage
<1>6. TopPage % TablePages = 0
  <2>1. TopPage - 1 \in mapped
    BY <1>4, <1>5
  <2>2. TableAt(TopPage) # TableAt(TopPage - 1)
    BY <1>1, <1>4, <2>1
  <2> QED BY <1>5, <2>2, TableBegins
\* A call within a call finds its page table present.
<1>7. parked[p] = <<>>
  <2>1. SUFFICES ASSUME parked[p] # <<>> PROVE FALSE
    OBVIOUS
  <2>2. PICK k : k = parked[p][1].page
    OBVIOUS
  <2>3. /\ NestedOK(h, parked[p][1])
    BY <1>0, <2>1, Nested
  <2>4. /\ k \in Nat /\ k <= TopPage /\ TableAt(k) \in tables /\ k % TablePages = 0
        /\ h.size = PageUnits /\ h.align = PageUnits /\ end < k * PageUnits
    BY <2>2, <2>3 DEF NestedOK, MappingOK
  <2>5. end + 1 + PageUnits + PageUnits >= top
    BY <1>1, <2>4 DEF NeedsPage, data_size
  <2>6. TopPage <= k + 2
    <3>1. CASE TopPage >= k + 3
      <4>1. PageUnits * TopPage >= PageUnits * (k + 3)
        <5>1. TopPage - (k + 3) \in Nat
          BY <1>5, <2>4, <3>1
        <5>2. PageUnits * (TopPage - (k + 3)) >= 0
          BY <1>4, <5>1
        <5> QED BY <1>4, <1>5, <2>4, <5>2
      <4>2. PageUnits * (k + 3) = k * PageUnits + 3 * PageUnits
        BY <1>4, <2>4
      <4>3. k * PageUnits \in Nat
        BY <1>4, <2>4
      <4> QED BY <1>4, <2>4, <2>5, <4>1, <4>2, <4>3
    <3> QED BY <1>5, <2>4, <3>1
  <2>7. TableAt(k + 1) = TableAt(k) /\ TableAt(k + 2) = TableAt(k)
    BY <2>4, TableHolds
  <2>8. TopPage \in {k, k + 1, k + 2}
    BY <1>5, <2>4, <2>6
  <2> QED BY <1>1, <2>4, <2>7, <2>8
<1>8. Sorts' /\ Tiled' /\ LiveOK(mem, end, live)'
  BY <1>1 DEF HInv, Sorts, Tiled
<1>9. SpaceOK'
  BY <1>1, <1>4, <1>5 DEF SpaceOK, TableAt
<1>10. CallsOK'
  <2>1. start \in Blocks(mem, end)
    BY TilingFacts DEF HInv, Sorts, Tiled
  <2>2. DoingOK(f)'
    BY <1>1, <1>2, <1>3, <1>4, <2>1 DEF DoingOK, WalkOK, RequestOK
  <2>3. MappingOK(g)'
    BY <1>1, <1>2, <1>3, <1>5 DEF MappingOK, RequestOK, TableAt
  <2>4. end < TopPage * PageUnits
    BY <1>4, <1>5
  <2>5. NestedOK(f, g)'
    BY <1>1, <1>3, <1>6, <2>3, <2>4 DEF NestedOK
  <2>6. PICK k : k = <<g>>
    OBVIOUS
  <2>7. k = <<k[1]>> /\ k[1] = g
    BY <2>6
  <2>8. /\ DOMAIN parked' = HProcs /\ parked'[p] = k
        /\ \A q \in HProcs : q # p => parked'[q] = parked[q]
    <3>1. <<g>> \o <<>> = k
      BY <2>6
    <3>2. parked' = [parked EXCEPT ![p] = k]
      BY <1>1, <1>7, <3>1
    <3>3. DOMAIN parked = HProcs
      BY <1>1, OneCaller
    <3> QED BY <3>2, <3>3
  <2>9. /\ DOMAIN doing' = HProcs /\ doing'[p] = f
        /\ \A q \in HProcs : q # p => doing'[q] = doing[q]
    BY <1>1, OneCaller
  <2> QED BY <1>1, <2>2, <2>5, <2>7, <2>8, <2>9, CallsKept
<1> QED BY <1>8, <1>9, <1>10 DEF HInv

LEMMA MapPageStep ==
    ASSUME HInv, HPreempt = FALSE, NEW p \in HProcs, MapPage(p) PROVE HInv'
<1>0. PICK h, f : h = doing[p] /\ f = Extending(h)
  OBVIOUS
<1>1. /\ Runs(p) /\ h.op = "map"
      /\ IF h.page \in mapped THEN UNCHANGED <<top, mapped>>
         ELSE /\ top + PageUnits <= MaxAddr /\ mapped' = mapped \cup {h.page}
              /\ top' = top + PageUnits
      /\ doing' = [doing EXCEPT ![p] = f]
      /\ kind' = kind /\ mem' = mem /\ start' = start /\ end' = end
      /\ tables' = tables /\ live' = live /\ parked' = parked
  BY <1>0 DEF MapPage, Map, list
<1>2. MappingOK(h)
  BY <1>0, <1>1, DoingIs
<1>3. parked[p] = <<>>
  BY <1>0, <1>1, Nested DEF NestedOK
<1>4. SpaceOK' /\ top' \in Addrs
  <2>1. CASE h.page \in mapped
    BY <1>1, <2>1 DEF HInv, Sorts, SpaceOK, TopPage, TableAt
  <2>2. CASE h.page \notin mapped
    <3>1. h.page = TopPage
      <4>1. h.page \in Nat /\ h.page <= TopPage /\ mapped = 0 .. TopPage - 1
        BY <1>2 DEF MappingOK, HInv, SpaceOK
      <4>2. TopPage \in Nat
        BY Units DEF TopPage, HInv, Sorts
      <4> QED BY <2>2, <4>1, <4>2
    <3>2. TableAt(TopPage) \in tables /\ kind = "kernel"
      BY <1>2, <3>1 DEF MappingOK
    <3> QED BY <1>1, <2>2, <3>1, <3>2, MapSpace
  <2> QED BY <2>1, <2>2
<1>5. Sorts' /\ Tiled' /\ LiveOK(mem, end, live)'
  BY <1>1, <1>4 DEF HInv, Sorts, Tiled
<1>6. CallsOK'
  <2>1. f.op = "grow" /\ f.size = h.size /\ f.align = h.align
    BY <1>0, FrameShapes
  <2>2. DoingOK(f)'
    BY <1>1, <1>2, <2>1 DEF DoingOK, MappingOK, RequestOK
  <2>3. /\ DOMAIN parked' = HProcs /\ parked'[p] = <<>>
        /\ \A q \in HProcs : q # p => parked'[q] = parked[q]
    BY <1>1, <1>3, OneCaller
  <2>4. /\ DOMAIN doing' = HProcs /\ doing'[p] = f
        /\ \A q \in HProcs : q # p => doing'[q] = doing[q]
    BY <1>1, OneCaller
  <2> QED BY <1>1, <2>2, <2>3, <2>4, CallsKept
<1> QED BY <1>4, <1>5, <1>6 DEF HInv

LEMMA NewBlockStep ==
    ASSUME HInv, HPreempt = FALSE, NEW p \in HProcs, NewBlock(p) PROVE HInv'
<1>0. PICK f, a : f = doing[p] /\ a = NewLast(f.align)
  OBVIOUS
<1>1. /\ Runs(p) /\ f.op = "grow" /\ ~NeedsPage(f.size, f.align)
      /\ mem' = AppendBlock(AlignLast(f.align), a, f.size)
      /\ end' = a + data_size + f.size
      /\ start' = IF LastTakesStart(f.align) THEN a ELSE start
      /\ Return(p, a)
      /\ kind' = kind /\ top' = top /\ mapped' = mapped /\ tables' = tables
  BY <1>0 DEF NewBlock, space
<1>2. RequestOK(f) /\ kind = "kernel"
  BY <1>0, <1>1, DoingIs
<1>3. /\ f.size \in Nat \ {0} /\ f.align \in Nat /\ (f.align = 0 \/ f.align = PageUnits)
  BY <1>2, Units DEF RequestOK
<1>4. /\ end \in Nat /\ top \in Nat /\ top <= MaxAddr /\ MaxAddr \in Nat
      /\ mem \in [Addrs -> Metadata]
  BY Units DEF HInv, Sorts
<1>5. end + 1 + f.size + f.align < top
  BY <1>1, <1>3, <1>4 DEF NeedsPage, data_size
<1>6. a \in Nat /\ a <= end + f.align
  <2>1. /\ Begin(end, f.align) \in Nat /\ end < Begin(end, f.align)
        /\ Begin(end, f.align) <= end + 1 + f.align
    BY <1>3, <1>4, Begins
  <2>2. a = Begin(end, f.align) - 1
    BY <1>0 DEF NewLast, data_size
  <2> QED BY <1>3, <1>4, <2>1, <2>2
<1>7. a \in Addrs /\ end' \in Addrs /\ end' < top
  <2>1. end' = a + 1 + f.size
    BY <1>1 DEF data_size
  <2>2. end' \in Nat /\ end' < top /\ end' <= MaxAddr /\ a <= MaxAddr
    BY <1>3, <1>4, <1>5, <1>6, <2>1
  <2> QED BY <1>6, <2>2, Units
<1>8. CallsOK' /\ \E by : live' = live \cup {Handed(a + data_size, f, by)}
  BY <1>0, <1>1, Returned
<1>9. PICK by : live' = live \cup {Handed(a + data_size, f, by)}
  BY <1>8
<1>10. PICK m, s : m = AlignLast(f.align) /\ s = IF LastTakesStart(f.align) THEN a ELSE start
  OBVIOUS
<1>11. /\ m \in [Addrs -> Metadata] /\ s \in Addrs /\ Tiling(m, s, a)
       /\ Kept(mem, end, m, a)
       /\ f.align # 0 => (a + 1) % f.align = 0
  <2>1. Sorts /\ Tiled
    BY DEF HInv
  <2> QED BY <1>0, <1>3, <1>7, <1>10, <2>1, AlignLastKeeps
<1>12. LiveOK(m, a, live)
  BY <1>4, <1>7, <1>11, KeptLive DEF HInv, Sorts
<1>13. /\ mem' \in [Addrs -> Metadata] /\ Tiling(mem', s, end') /\ LiveOK(mem', end', live')
  <2>1. /\ end' = a + data_size + f.size /\ mem' = AppendBlock(m, a, f.size)
        /\ m \in [Addrs -> Metadata] /\ s \in Addrs /\ a \in Addrs /\ Tiling(m, s, a)
        /\ LiveOK(m, a, live) /\ f.size \in Nat \ {0} /\ f.align \in Nat
        /\ f.align # 0 => (a + 1) % f.align = 0
        /\ end' \in Addrs
        /\ live' = live \cup {Handed(a + data_size, f, by)}
    BY <1>1, <1>3, <1>7, <1>9, <1>10, <1>11, <1>12
  <2>2. PICK k, d, l : k = mem' /\ d = end' /\ l = live'
    OBVIOUS
  <2>3. k \in [Addrs -> Metadata] /\ Tiling(k, s, d) /\ LiveOK(k, d, l)
    BY ONLY <2>1, <2>2, AppendKeeps
  <2> QED BY <2>2, <2>3
<1>14. Sorts' /\ Tiled' /\ LiveOK(mem, end, live)'
  BY <1>1, <1>7, <1>10, <1>11, <1>13 DEF HInv, Sorts, Tiled
<1>15. SpaceOK'
  BY <1>1, <1>7 DEF HInv, SpaceOK, TopPage, TableAt
<1> QED BY <1>8, <1>14, <1>15 DEF HInv

LEMMA BrkBlockStep ==
    ASSUME HInv, HPreempt = FALSE, NEW p \in HProcs, BrkBlock(p) PROVE HInv'
<1>0. PICK f : f = doing[p]
  OBVIOUS
<1>1. /\ Runs(p) /\ f.op = "stop" /\ kind = "user"
      /\ end + 2 * data_size + f.size <= MaxAddr
      /\ top' = end + 2 * data_size + f.size
      /\ mem' = AppendBlock(mem, end, f.size)
      /\ end' = end + data_size + f.size
      /\ Return(p, end)
      /\ kind' = kind /\ start' = start /\ mapped' = mapped /\ tables' = tables
  BY <1>0 DEF BrkBlock
<1>2. RequestOK(f)
  BY <1>0, <1>1, DoingIs DEF WalkOK
<1>3. f.size \in Nat \ {0} /\ f.align = 0
  BY <1>1, <1>2 DEF RequestOK
<1>4. end \in Nat /\ MaxAddr \in Nat /\ end' = end + 1 + f.size /\ top' = end + 2 + f.size
  BY <1>1, Units DEF HInv, Sorts, data_size
<1>5. end' \in Addrs /\ top' \in Addrs /\ end' < top'
  <2>1. end' \in Nat /\ top' \in Nat /\ end' <= MaxAddr /\ top' <= MaxAddr /\ end' < top'
    BY <1>1, <1>3, <1>4 DEF data_size
  <2> QED BY <2>1, Units
<1>6. CallsOK' /\ \E by : live' = live \cup {Handed(end + data_size, f, by)}
  BY <1>0, <1>1, Returned
<1>7. PICK by : live' = live \cup {Handed(end + data_size, f, by)}
  BY <1>6
<1>8. /\ mem' \in [Addrs -> Metadata] /\ Tiling(mem', start, end') /\ LiveOK(mem', end', live')
  <2>1. /\ mem \in [Addrs -> Metadata] /\ start \in Addrs /\ end \in Addrs
        /\ Tiling(mem, start, end) /\ LiveOK(mem, end, live)
    BY DEF HInv, Sorts, Tiled
  <2>2. f.align \in Nat /\ ~(f.align # 0)
    BY <1>3
  <2> QED BY <1>1, <1>3, <1>5, <1>7, <2>1, <2>2, AppendKeeps
<1>9. Sorts' /\ Tiled' /\ LiveOK(mem, end, live)'
  BY <1>1, <1>5, <1>8 DEF HInv, Sorts, Tiled
<1>10. SpaceOK'
  BY <1>1, <1>5 DEF SpaceOK
<1> QED BY <1>6, <1>9, <1>10 DEF HInv

LEMMA FreeStep ==
    ASSUME HInv, HPreempt = FALSE, NEW p \in HProcs, Free(p) PROVE HInv'
<1>1. PICK b \in live :
        /\ Runs(p) /\ doing[p] = Idle
        /\ live' = live \ {b}
        /\ mem' = [mem EXCEPT ![b.at - data_size].free = TRUE]
        /\ doing' = [doing EXCEPT ![p] = Merging(b.at - data_size)]
        /\ kind' = kind /\ start' = start /\ end' = end /\ top' = top
        /\ mapped' = mapped /\ tables' = tables /\ parked' = parked
  BY DEF Free, space
<1>2. PICK a, f : a = b.at - 1 /\ f = Merging(a)
  OBVIOUS
<1>3. /\ mem \in [Addrs -> Metadata] /\ start \in Addrs /\ end \in Addrs
      /\ Tiling(mem, start, end) /\ LiveOK(mem, end, live)
  BY DEF HInv, Sorts, Tiled
<1>4. /\ a \in Blocks(mem, end) /\ ~mem[a].free /\ b.at = a + 1 /\ b.at \in Nat
  BY <1>2, <1>3 DEF LiveOK
<1>5. a # end /\ a \in Addrs
  BY <1>3, <1>4, TilingFacts
<1>6. /\ mem' \in [Addrs -> Metadata] /\ mem'[a].free
      /\ mem'[a].size = mem[a].size /\ mem'[a].next = mem[a].next
      /\ \A x \in Addrs : x # a => mem'[x] = mem[x]
  <2> DEFINE r == [mem[a] EXCEPT !.free = TRUE]
  <2>1. mem[a] \in Metadata
    BY <1>3, <1>5
  <2>2. r \in Metadata /\ r.free /\ r.size = mem[a].size /\ r.next = mem[a].next
    BY ONLY <2>1 DEF Metadata
  <2>3. mem' = [mem EXCEPT ![a] = r]
    BY <1>1, <1>2 DEF data_size
  <2> HIDE DEF r
  <2>4. mem' \in [Addrs -> Metadata] /\ mem'[a] = r /\ \A x \in Addrs : x # a => mem'[x] = mem[x]
    BY ONLY <1>3, <1>5, <2>2, <2>3
  <2> QED BY <2>2, <2>4
<1>7. Tiling(mem', start, end) /\ Blocks(mem', end) = Blocks(mem, end)
  <2>1. PICK k : k = mem'
    OBVIOUS
  <2>2. Tiling(k, start, end) /\ Blocks(k, end) = Blocks(mem, end)
    BY <1>3, <1>4, <1>5, <1>6, <2>1, Flagged
  <2> QED BY <2>1, <2>2
<1>8. LiveOK(mem', end, live')
  <2>1. ASSUME NEW c \in live'
        PROVE  /\ c.at \in Nat \ {0} /\ c.size \in Nat
               /\ c.align \in Nat /\ (c.align # 0 => c.at % c.align = 0)
               /\ c.at - 1 \in Blocks(mem', end)
               /\ ~mem'[c.at - 1].free /\ c.size <= mem'[c.at - 1].size
    <3> DEFINE x == c.at - 1
    <3>1. c \in live /\ c # b
      BY <1>1
    <3>2. /\ c.at \in Nat \ {0} /\ c.size \in Nat
          /\ c.align \in Nat /\ (c.align # 0 => c.at % c.align = 0)
          /\ x \in Blocks(mem, end) /\ ~mem[x].free /\ c.size <= mem[x].size
          /\ c.at # b.at
      BY <1>3, <3>1 DEF LiveOK
    <3>3. x # a /\ x \in Addrs
      BY <1>3, <1>4, <3>2, TilingFacts
    <3>4. mem'[x] = mem[x]
      BY <1>6, <3>3
    <3> QED BY <1>7, <3>2, <3>4
  <2>2. \A c1, c2 \in live' : c1.at = c2.at => c1 = c2
    BY <1>1, <1>3 DEF LiveOK
  <2>3. \A x \in Blocks(mem', end) : ~mem'[x].free => \E c \in live' : c.at = x + 1
    <3>1. ASSUME NEW x \in Blocks(mem', end), ~mem'[x].free
          PROVE  \E c \in live' : c.at = x + 1
      <4>1. x \in Blocks(mem, end) /\ x # a /\ x \in Addrs
        BY <1>3, <1>6, <1>7, <3>1, TilingFacts
      <4>2. ~mem[x].free
        BY <1>6, <3>1, <4>1
      <4>3. PICK c \in live : c.at = x + 1
        BY <1>3, <4>1, <4>2 DEF LiveOK
      <4>4. x \in Nat /\ a \in Nat
        BY <1>5, <4>1, Units
      <4>5. c # b
        BY <1>4, <4>1, <4>3, <4>4
      <4> QED BY <1>1, <4>3, <4>5
    <3> QED BY <3>1
  <2> QED BY <2>1, <2>2, <2>3 DEF LiveOK
<1>9. Sorts' /\ Tiled' /\ LiveOK(mem, end, live)' /\ SpaceOK'
  <2>1. Sorts' /\ Tiled'
    BY <1>1, <1>6, <1>7 DEF HInv, Sorts, Tiled
  <2>2. LiveOK(mem, end, live)'
    BY <1>1, <1>8
  <2>3. SpaceOK'
    BY <1>1 DEF HInv, SpaceOK, TopPage
  <2> QED BY <2>1, <2>2, <2>3
<1>10. CallsOK'
  <2>1. f.op = "merge" /\ f.at = a
    BY <1>2, FrameShapes
  <2>2. DoingOK(f)'
    <3>1. Blocks(mem, end)' = Blocks(mem, end)
      BY <1>1, <1>7
    <3> QED BY <1>1, <1>4, <1>5, <1>6, <2>1, <3>1 DEF DoingOK
  <2>3. /\ DOMAIN parked' = HProcs /\ parked'[p] = <<>>
        /\ \A q \in HProcs : q # p => parked'[q] = parked[q]
    BY <1>1, OneCaller
  <2>4. doing' = [doing EXCEPT ![p] = f]
    BY <1>1, <1>2 DEF data_size
  <2>5. /\ DOMAIN doing' = HProcs /\ doing'[p] = f
        /\ \A q \in HProcs : q # p => doing'[q] = doing[q]
    BY <1>1, <2>4, OneCaller
  <2> QED BY <1>1, <2>2, <2>3, <2>5, CallsKept
<1> QED BY <1>9, <1>10 DEF HInv

LEMMA MergeStep ==
    ASSUME HInv, HPreempt = FALSE, NEW p \in HProcs, Merge(p) PROVE HInv'
<1>0. PICK f, a, b : f = doing[p] /\ a = f.at /\ b = mem[a].next
  OBVIOUS
<1>1. /\ Runs(p) /\ f.op = "merge" /\ mem[b].free /\ mem[b].next # Null
      /\ mem' = Merged(a)
      /\ kind' = kind /\ start' = start /\ end' = end /\ top' = top
      /\ mapped' = mapped /\ tables' = tables /\ live' = live
      /\ doing' = doing /\ parked' = parked
  BY <1>0 DEF Merge, Merges, space
<1>2. /\ mem \in [Addrs -> Metadata] /\ start \in Addrs /\ end \in Addrs
      /\ Tiling(mem, start, end) /\ LiveOK(mem, end, live)
  BY DEF HInv, Sorts, Tiled
<1>3. a \in Blocks(mem, end) /\ a # end /\ mem[a].free
  BY <1>0, <1>1, DoingIs
<1>4. /\ b \in Blocks(mem, end) /\ b # end /\ b # a /\ a \in Addrs /\ b \in Addrs
  <2>1. /\ Blocks(mem, end) \subseteq Addrs /\ b \in Blocks(mem, end) /\ a < b
        /\ mem[end].next = Null
    BY <1>0, <1>2, <1>3, TilingFacts
  <2>2. a \in Addrs /\ b \in Addrs /\ a \in Nat /\ b \in Nat
    BY <1>3, <2>1, Units
  <2>3. b # end
    BY <1>1, <2>1
  <2>4. b # a
    BY <2>1, <2>2
  <2> QED BY <2>1, <2>2, <2>3, <2>4
<1>5. PICK k : k = mem'
  OBVIOUS
<1>6. PICK u : u = [mem[a] EXCEPT !.size = @ + 1 + mem[b].size, !.next = mem[b].next]
  OBVIOUS
<1>7. /\ u \in Metadata /\ u.size = mem[a].size + 1 + mem[b].size
      /\ u.next = mem[b].next /\ u.free
  <2>1. mem[a] \in Metadata /\ mem[b] \in Metadata
    BY <1>2, <1>4
  <2>2. mem[a].size + 1 + mem[b].size \in Nat /\ mem[b].next \in Addrs \cup {Null}
    BY <2>1, Fields
  <2>3. PICK d, n : d = mem[a].size + 1 + mem[b].size /\ n = mem[b].next
    OBVIOUS
  <2>4. PICK r : r = mem[a]
    OBVIOUS
  <2>5. u = [r EXCEPT !.size = d, !.next = n]
    BY <1>6, <2>3, <2>4
  <2>6. u \in Metadata /\ u.size = d /\ u.next = n /\ u.free = r.free
    BY ONLY <2>1, <2>2, <2>3, <2>4, <2>5 DEF Metadata
  <2> QED BY <1>3, <2>3, <2>4, <2>6
<1>8. /\ k \in [Addrs -> Metadata] /\ k[a] = u /\ k[b] = Blank
      /\ \A x \in Addrs : x # a /\ x # b => k[x] = mem[x]
  <2>1. k = [mem EXCEPT ![a] = u, ![b] = Blank]
    <3>1. u = [mem[a] EXCEPT !.size = @ + data_size + mem[b].size, !.next = mem[b].next]
      BY <1>6 DEF data_size
    <3>2. Merged(a) = [mem EXCEPT ![a] = u, ![b] = Blank]
      BY <1>0, <3>1 DEF Merged
    <3> QED BY <1>1, <1>5, <3>2
  <2>2. Blank \in Metadata
    BY DEF Blank, Metadata
  <2> QED BY <1>2, <1>4, <1>7, <2>1, <2>2, TwoWritten
<1>9. Blocks(k, end) = Blocks(mem, end) \ {b} /\ Tiling(k, start, end)
  <2>1. k[b].next = Null
    BY <1>8 DEF Blank
  <2>2. /\ mem \in [Addrs -> Metadata] /\ k \in [Addrs -> Metadata]
        /\ start \in Addrs /\ end \in Addrs /\ Tiling(mem, start, end)
        /\ a \in Blocks(mem, end) /\ a # end /\ b = mem[a].next /\ b # end
        /\ k[a].next = mem[b].next /\ k[a].size = mem[a].size + 1 + mem[b].size
        /\ \A x \in Addrs : x # a /\ x # b => k[x] = mem[x]
    BY <1>0, <1>2, <1>3, <1>4, <1>7, <1>8
  <2> QED BY ONLY <2>1, <2>2, MergeTiling
<1>10. Kept(mem, end, k, end)
  <2>1. \A x \in Blocks(mem, end) : x \in Addrs /\ mem[x].size \in Nat
    BY <1>2, TilingFacts, Fields
  <2> QED BY <1>1, <1>3, <1>7, <1>8, <1>9, <2>1 DEF Kept
<1>11. LiveOK(k, end, live)
  BY <1>2, <1>8, <1>10, KeptLive
<1>12. Sorts' /\ Tiled' /\ LiveOK(mem, end, live)' /\ SpaceOK'
  <2>1. Sorts' /\ Tiled' /\ LiveOK(mem, end, live)'
    BY <1>1, <1>5, <1>8, <1>9, <1>11 DEF HInv, Sorts, Tiled
  <2>2. SpaceOK'
    BY <1>1 DEF HInv, SpaceOK, TopPage
  <2> QED BY <2>1, <2>2
<1>13. CallsOK'
  <2>1. DoingOK(f)'
    <3>1. f.at \in Blocks(k, end) \ {end} /\ k[f.at].free
      BY <1>0, <1>3, <1>4, <1>7, <1>8, <1>9
    <3> QED BY <1>1, <1>5, <3>1 DEF DoingOK
  <2>2. parked[p] = <<>>
    BY <1>0, <1>1, Nested DEF NestedOK
  <2>3. /\ DOMAIN parked' = HProcs /\ parked'[p] = <<>>
        /\ \A q \in HProcs : q # p => parked'[q] = parked[q]
    BY <1>1, <2>2, OneCaller
  <2>4. /\ DOMAIN doing' = HProcs /\ doing'[p] = f
        /\ \A q \in HProcs : q # p => doing'[q] = doing[q]
    BY <1>0, <1>1, OneCaller
  <2> QED BY <1>1, <2>1, <2>3, <2>4, CallsKept
<1> QED BY <1>12, <1>13 DEF HInv

LEMMA HStart ==
    ASSUME HInit PROVE HInv
<1>1. /\ kind \in Kinds
      /\ mem = [a \in Addrs |-> IF a = 0 THEN EmptyLast ELSE Blank]
      /\ start = 0 /\ end = 0
      /\ top = IF kind = "kernel" THEN PageUnits ELSE data_size
      /\ mapped = {0} /\ tables = {0} /\ live = {}
      /\ doing = [p \in HProcs |-> Idle]
      /\ parked = [p \in HProcs |-> <<>>]
  BY DEF HInit
<1>2. 0 \in Addrs /\ top \in Addrs /\ 0 < top
  <2>1. PageUnits <= MaxAddr /\ MaxAddr \in Nat
    BY BoundAssumption, PageAssumption DEF MaxAddr
  <2>2. top \in Nat /\ top <= MaxAddr /\ 0 < top
    BY <1>1, <2>1, Units DEF data_size
  <2> QED BY <2>1, <2>2, Units
<1>3. EmptyLast \in Metadata /\ Blank \in Metadata
  BY DEF EmptyLast, Blank, Metadata
<1>4. Sorts
  BY <1>1, <1>2, <1>3, KindsAssumption DEF Sorts
<1>5. Blocks(mem, end) = {0} /\ mem[0] = EmptyLast
  BY <1>1, <1>2 DEF Blocks, Blank, EmptyLast
<1>6. Tiled
  BY <1>1, <1>5 DEF Tiled, Tiling
<1>7. LiveOK(mem, end, live)
  BY <1>1, <1>5 DEF LiveOK, EmptyLast
<1>8. SpaceOK
  <2>1. ASSUME kind = "kernel"
        PROVE  top = PageUnits * TopPage /\ TopPage = 1
    <3>1. PageUnits \div PageUnits = 1
      <4>1. PageUnits \in Nat \ {0} /\ PageUnits = PageUnits * 1 + 0
        BY Units
      <4> QED BY <4>1, Quotient
    <3> QED BY <1>1, <2>1, <3>1, Units DEF TopPage
  <2>2. TableAt(0) = 0
    BY PageAssumption DEF TableAt
  <2>3. mapped = 0 .. 1 - 1
    BY <1>1
  <2> QED BY <1>1, <1>2, <2>1, <2>2, <2>3 DEF SpaceOK
<1>9. CallsOK
  BY <1>1 DEF CallsOK, DoingOK
<1> QED BY <1>4, <1>6, <1>7, <1>8, <1>9 DEF HInv

LEMMA HStep ==
    ASSUME HInv, HPreempt = FALSE, [HNext]_heap_vars PROVE HInv'
<1>1. ASSUME NEW p \in HProcs,
             \/ Malloc(p) \/ Pass(p) \/ Stop(p) \/ Take(p)
             \/ Extend(p) \/ NextPage(p) \/ NewTable(p) \/ MapPage(p) \/ NewBlock(p)
             \/ BrkBlock(p) \/ BrkFails(p)
             \/ Free(p) \/ Merge(p) \/ MergeEnds(p)
      PROVE  HInv'
  BY <1>1, MallocStep, PassStep, StopStep, TakeStep, ExtendStep, NextPageStep, NewTableStep,
     MapPageStep, NewBlockStep, BrkBlockStep, BrkFailsStep, FreeStep, MergeStep, MergeEndsStep
<1>2. ASSUME UNCHANGED heap_vars PROVE HInv'
  <2>1. /\ kind' = kind /\ mem' = mem /\ start' = start /\ end' = end /\ top' = top
        /\ mapped' = mapped /\ tables' = tables /\ live' = live
        /\ doing' = doing /\ parked' = parked
    BY <1>2 DEF heap_vars, list, space
  <2>2. Sorts' /\ Tiled' /\ LiveOK(mem, end, live)' /\ SpaceOK'
    BY <2>1 DEF HInv, Sorts, Tiled, SpaceOK, TopPage, TableAt
  <2>3. CallsOK'
    BY <2>1 DEF HInv, CallsOK, DoingOK, WalkOK, RequestOK, MappingOK, NestedOK, TopPage,
                Fits, End
  <2> QED BY <2>2, <2>3 DEF HInv
<1> QED BY <1>1, <1>2 DEF HNext

\* What is asked for lies in the block, and the block ends before the next begins.
LEMMA InvBlocks ==
    ASSUME HInv PROVE BlocksSound
<1> DEFINE B == Blocks(mem, end)
<1>1. /\ mem \in [Addrs -> Metadata] /\ start \in Addrs /\ end \in Addrs
      /\ Tiling(mem, start, end) /\ LiveOK(mem, end, live)
  BY DEF HInv, Sorts, Tiled
<1>2. B \subseteq Nat
  BY <1>1, TilingFacts, Units
<1>3. ASSUME NEW b \in live
      PROVE  /\ b.at - 1 \in B /\ b.at \in Nat /\ b.size \in Nat
             /\ ~mem[b.at - 1].free
             /\ \A x \in B : x <= b.at - 1 \/ b.at + b.size <= x
  <2> DEFINE a == b.at - 1
  <2>1. /\ a \in B /\ ~mem[a].free /\ b.size <= mem[a].size
        /\ b.at \in Nat \ {0} /\ b.size \in Nat
    BY <1>1 DEF LiveOK
  <2>2. a # end /\ a \in Addrs
    BY <1>1, <2>1, TilingFacts
  <2>3. mem[a].next = a + 1 + mem[a].size /\ \A x \in B : x <= a \/ mem[a].next <= x
    BY <1>1, <2>1, <2>2, TilingFacts
  <2>4. mem[a].size \in Nat
    BY <1>1, <2>2, Fields
  <2>5. b.at + b.size <= mem[a].next /\ mem[a].next \in Nat
    BY <2>1, <2>3, <2>4
  <2>6. \A x \in B : x <= a \/ b.at + b.size <= x
    <3>1. SUFFICES ASSUME NEW x \in B PROVE x <= a \/ b.at + b.size <= x
      OBVIOUS
    <3>2. x \in Nat
      BY <1>2
    <3>3. x <= a \/ mem[a].next <= x
      BY <2>3
    <3> QED BY <2>1, <2>5, <3>2, <3>3
  <2> QED BY <2>1, <2>6
<1>4. ASSUME NEW b \in live PROVE Data(b) \cap B = {}
  BY <1>2, <1>3 DEF Data
<1>5. ASSUME NEW b \in live, NEW c \in live \ {b} PROVE Data(b) \cap Data(c) = {}
  <2>1. b.at # c.at
    BY <1>1 DEF LiveOK
  <2>2. /\ b.at \in Nat /\ b.size \in Nat /\ c.at \in Nat /\ c.size \in Nat
        /\ c.at - 1 <= b.at - 1 \/ b.at + b.size <= c.at - 1
        /\ b.at - 1 <= c.at - 1 \/ c.at + c.size <= b.at - 1
    BY <1>3
  <2> QED BY <2>1, <2>2 DEF Data
<1>6. \A b \in live : b.align # 0 => b.at % b.align = 0
  BY <1>1 DEF LiveOK
<1>7. {a + data_size : a \in {x \in B : ~mem[x].free}} = {b.at : b \in live}
  <2>1. ASSUME NEW a \in B, ~mem[a].free PROVE \E b \in live : b.at = a + data_size
    BY <1>1, <2>1 DEF LiveOK, data_size
  <2>2. ASSUME NEW b \in live PROVE \E a \in B : ~mem[a].free /\ a + data_size = b.at
    BY <1>3 DEF data_size
  <2> QED BY <2>1, <2>2
<1> QED BY <1>4, <1>5, <1>6, <1>7 DEF BlocksSound

-----------------------------------------------------------------------------
\* Every step of malloc and free, for every number of processes, size of pages
\* and page tables, and sizes asked for, keeps the invariant.
THEOREM HeapInvariant ==
    ASSUME HPreempt = FALSE PROVE HSpec => []HInv
<1>1. HInit => HInv
  BY HStart
<1>2. HInv /\ [HNext]_heap_vars => HInv'
  BY HStep
<1> QED BY <1>1, <1>2, PTL DEF HSpec

\* find_free_block, new_block and free leave no gap and no overlap: whatever was
\* aligned, split, merged or appended, each block ends where the next begins.
THEOREM HeapTiled == ASSUME HPreempt = FALSE PROVE HSpec => []Tiled
<1>1. HInv => Tiled
  BY DEF HInv
<1> QED BY <1>1, HeapInvariant, PTL

\* malloc gives out memory that is nobody else's, as large and as aligned as was
\* asked for, and free gets every block back, page tables put onto the heap in
\* the middle of a malloc included, as long as calls do not interrupt each other.
THEOREM HeapBlocks == ASSUME HPreempt = FALSE PROVE HSpec => []BlocksSound
<1>1. HInv => BlocksSound
  BY InvBlocks
<1> QED BY <1>1, HeapInvariant, PTL

\* new_block never writes beyond the pages that next_page has mapped, whichever
\* of two mallocs, one within the other, has mapped the page.
THEOREM HeapMapped == ASSUME HPreempt = FALSE PROVE HSpec => []InMappedMemory
<1>1. HInv => InMappedMemory
  <2>1. ASSUME HInv PROVE end \in Nat /\ top \in Nat
    BY <2>1, Units DEF HInv, Sorts
  <2> QED BY <2>1 DEF HInv, SpaceOK, InMappedMemory, data_size
<1> QED BY <1>1, HeapInvariant, PTL

\* new_page_table never begins while another one is on its way: the two pages
\* that a page table needs on the heap are under that page table, if one table
\* maps three pages or more.
THEOREM HeapOneTable == ASSUME HPreempt = FALSE PROVE HSpec => []OneTableAtATime
<1>1. HInv => OneTableAtATime
  <2>1. ASSUME HInv, NEW p \in HProcs PROVE Len(parked[p]) <= 1
    <3>1. PICK g : g = parked[p][1]
      OBVIOUS
    <3>2. parked[p] = <<>> \/ parked[p] = <<g>>
      BY <2>1, <3>1, Nested
    <3>3. Len(<<>>) = 0
      OBVIOUS
    <3>4. Len(<<g>>) = 1
      BY ONLY g = g
    <3>5. Len(parked[p]) \in {0, 1}
      BY <3>2, <3>3, <3>4
    <3>6. \A n \in {0, 1} : n <= 1
      OBVIOUS
    <3> QED BY <3>5, <3>6, Zenon
  <2> QED BY <2>1 DEF OneTableAtATime
<1> QED BY <1>1, HeapInvariant, PTL
=============================================================================
