------------------------------ MODULE FileTable ------------------------------
(***************************************************************************)
(* Open files: the global table of file descriptions with its reference    *)
(* counts, and the file descriptors of the processes, which are keys of    *)
(* that table.  open, close, fork, execve and the destructor of Process    *)
(* change both.                                                            *)
(*                                                                         *)
(* open_file chooses a key, builds the description, which reads the disk,  *)
(* and only then inserts it.  With Preempt another process may run in      *)
(* between, as it may in the kernel; without it open_file is not           *)
(* interrupted.  fork and the closing of files touch only descriptions     *)
(* that the running process itself keeps alive until its own last step,    *)
(* so they are single steps; execve runs with switching blocked, and its   *)
(* two steps are kept apart because their order matters.                   *)
(***************************************************************************)
EXTENDS Integers, FiniteSets

CONSTANTS
    Procs,     \* processes
    InitProc,  \* the one that exists from the start
    Fds,       \* file descriptors
    Keys,      \* keys of the file table
    Names,     \* file names
    NoName,    \* stands for no name
    NoProc,    \* stands for no process
    Preempt    \* whether ticks are delivered inside open_file

ASSUME ProcsAssumption == IsFiniteSet(Procs) /\ InitProc \in Procs
ASSUME FdsAssumption == IsFiniteSet(Fds) /\ Fds \subseteq Nat
ASSUME KeysAssumption == Keys \subseteq Nat \ {0}
ASSUME NamesAssumption == NoName \notin Names /\ NoProc \notin Procs
ASSUME PreemptAssumption == Preempt \in BOOLEAN

NoKey == 0
NoFds == [fd \in Fds |-> NoKey]

VARIABLES
    procs,      \* the processes there are
    file_desc,  \* Process::file_desc; NoKey where there is no descriptor
    old_desc,   \* file_desc of the process object that execve replaces
    file_list,  \* FileTable::file_list; count 0 where there is no entry
    opening,    \* the locals of an open_file in progress: key and name
    execing,    \* the process that is between the two steps of execve
    opened      \* history: the name each descriptor was opened with

vars == <<procs, file_desc, old_desc, file_list, opening, execing, opened>>

NotOpening == [key |-> NoKey, name |-> NoName]
NoEntry == [name |-> NoName, count |-> 0]

Init ==
    /\ procs = {InitProc}
    /\ file_desc = [p \in Procs |-> NoFds]
    /\ old_desc = [p \in Procs |-> NoFds]
    /\ file_list = [k \in Keys |-> NoEntry]
    /\ opening = [p \in Procs |-> NotOpening]
    /\ execing = NoProc
    /\ opened = [p \in Procs |-> [fd \in Fds |-> NoName]]

\* p may run: nobody holds the CPU in a stretch that is not interrupted.
Runs(p) ==
    /\ p \in procs
    /\ execing \in {NoProc, p}
    /\ Preempt \/ \A q \in Procs \ {p} : opening[q] = NotOpening

\* p is in user mode and makes a system call.
Calls(p) == Runs(p) /\ opening[p] = NotOpening /\ execing = NoProc

Open(k) == file_list[k].count > 0

\* The descriptors of a table that hold the key k.
Holding(desc, k) == {fd \in Fds : desc[fd] = k}

\* Mutant: the first key is taken without looking.
FreeKeyFirst(k) == \A j \in Keys : k <= j

\* The least key that is not in the map.
FreeKey(k) == ~Open(k) /\ \A j \in Keys : j < k => Open(j)
FreeFd(p, fd) == /\ file_desc[p][fd] = NoKey
                 /\ \A e \in Fds : e < fd => file_desc[p][e] # NoKey

\* FileTable::open_file looks for an unused key.
OpenFind(p, n) ==
    /\ Calls(p)
    /\ \E fd \in Fds : FreeFd(p, fd)
    /\ \E k \in Keys :
         /\ FreeKey(k)
         /\ opening' = [opening EXCEPT ![p] = [key |-> k, name |-> n]]
    /\ UNCHANGED <<procs, file_desc, old_desc, file_list, execing, opened>>

\* The description could not be opened: it is inserted with count 0 and
\* erased again, if the key was still free.
OpenFails(p) ==
    /\ Runs(p)
    /\ opening[p] # NotOpening
    /\ ~Open(opening[p].key)
    /\ opening' = [opening EXCEPT ![p] = NotOpening]
    /\ UNCHANGED <<procs, file_desc, old_desc, file_list, execing, opened>>

\* The description is inserted; insert does nothing if the key has been
\* taken meanwhile, and the key is returned all the same.  Process::open_file
\* then gives it the lowest free descriptor.
OpenInsert(p) ==
    LET k == opening[p].key IN
    /\ Runs(p)
    /\ opening[p] # NotOpening
    /\ file_list' = IF Open(k) THEN file_list
                    ELSE [file_list EXCEPT ![k] = [name |-> opening[p].name,
                                                   count |-> 1]]
    /\ \E fd \in Fds :
         /\ FreeFd(p, fd)
         /\ file_desc' = [file_desc EXCEPT ![p][fd] = k]
         /\ opened' = [opened EXCEPT ![p][fd] = opening[p].name]
    /\ opening' = [opening EXCEPT ![p] = NotOpening]
    /\ UNCHANGED <<procs, old_desc, execing>>

\* Mutant: an entry whose count has dropped to one is erased already.
DropTooEarly(e, n) == IF e.count - n <= 1 THEN NoEntry
                      ELSE [e EXCEPT !.count = @ - n]

\* FileTable::close_file, n times on one entry.
Drop(e, n) == IF e.count - n <= 0 THEN NoEntry ELSE [e EXCEPT !.count = @ - n]

\* Process::close_file of one descriptor.
Close(p, fd) ==
    /\ Calls(p)
    /\ file_desc[p][fd] # NoKey
    /\ file_list' = [file_list EXCEPT ![file_desc[p][fd]] = Drop(@, 1)]
    /\ file_desc' = [file_desc EXCEPT ![p][fd] = NoKey]
    /\ opened' = [opened EXCEPT ![p][fd] = NoName]
    /\ UNCHANGED <<procs, old_desc, opening, execing>>

\* close_file(-1) on the table desc: every entry loses as many references as
\* the table has descriptors for it.
Closed(desc) == [k \in Keys |-> LET n == Cardinality(Holding(desc, k)) IN
                    IF n = 0 THEN file_list[k] ELSE Drop(file_list[k], n)]

\* copy_file for every descriptor of the table; an absent entry stays so.
Copied(desc) == [k \in Keys |-> IF Open(k)
                    THEN [file_list[k] EXCEPT
                            !.count = @ + Cardinality(Holding(desc, k))]
                    ELSE file_list[k]]

\* The close system call with fd -1.
CloseAll(p) ==
    /\ Calls(p)
    /\ file_list' = Closed(file_desc[p])
    /\ file_desc' = [file_desc EXCEPT ![p] = NoFds]
    /\ opened' = [opened EXCEPT ![p] = [fd \in Fds |-> NoName]]
    /\ UNCHANGED <<procs, old_desc, opening, execing>>

\* Mutant: the child shares the descriptions without being counted.
ForkUncounted(p, q) ==
    /\ Calls(p)
    /\ q \notin procs
    /\ procs' = procs \cup {q}
    /\ file_desc' = [file_desc EXCEPT ![q] = file_desc[p]]
    /\ opened' = [opened EXCEPT ![q] = opened[p]]
    /\ UNCHANGED <<file_list, old_desc, opening, execing>>

\* fork: fork_duplicate copies the descriptors and counts them.
Fork(p, q) ==
    /\ Calls(p)
    /\ q \notin procs
    /\ procs' = procs \cup {q}
    /\ file_list' = Copied(file_desc[p])
    /\ file_desc' = [file_desc EXCEPT ![q] = file_desc[p]]
    /\ opened' = [opened EXCEPT ![q] = opened[p]]
    /\ UNCHANGED <<old_desc, opening, execing>>

\* execve: exec_duplicate gives the new process object the descriptors of
\* the old one.
ExecDuplicate(p) ==
    /\ Calls(p)
    /\ file_list' = Copied(file_desc[p])
    /\ old_desc' = [old_desc EXCEPT ![p] = file_desc[p]]
    /\ execing' = p
    /\ UNCHANGED <<procs, file_desc, opening, opened>>

\* The old process object is deleted and closes its descriptors.
ExecDelete(p) ==
    /\ execing = p
    /\ file_list' = Closed(old_desc[p])
    /\ old_desc' = [old_desc EXCEPT ![p] = NoFds]
    /\ execing' = NoProc
    /\ UNCHANGED <<procs, file_desc, opening, opened>>

\* ProcTable::erase of a process that has ended, by the wait of its parent.
Erase(p, q) ==
    /\ Calls(p)
    /\ q \in procs \ {p, InitProc}
    /\ opening[q] = NotOpening
    /\ procs' = procs \ {q}
    /\ file_list' = Closed(file_desc[q])
    /\ file_desc' = [file_desc EXCEPT ![q] = NoFds]
    /\ opened' = [opened EXCEPT ![q] = [fd \in Fds |-> NoName]]
    /\ UNCHANGED <<old_desc, opening, execing>>

Next ==
    \E p \in Procs :
        \/ \E n \in Names : OpenFind(p, n)
        \/ OpenFails(p) \/ OpenInsert(p)
        \/ \E fd \in Fds : Close(p, fd)
        \/ CloseAll(p)
        \/ ExecDuplicate(p) \/ ExecDelete(p)
        \/ \E q \in Procs : Fork(p, q) \/ Erase(p, q)

Spec == Init /\ [][Next]_vars

-----------------------------------------------------------------------------
Entry == [name : Names \cup {NoName}, count : Nat]
DescTable == [Fds -> Keys \cup {NoKey}]

\* Every variable has its type.
TypeOK ==
    /\ procs \subseteq Procs
    /\ file_desc \in [Procs -> DescTable]
    /\ old_desc \in [Procs -> DescTable]
    /\ file_list \in [Keys -> Entry]
    /\ opening \in [Procs -> [key : Keys \cup {NoKey}, name : Names \cup {NoName}]]
    /\ execing \in Procs \cup {NoProc}
    /\ opened \in [Procs -> [Fds -> Names \cup {NoName}]]

\* The descriptors in the tables of all processes that hold k.
Refs(desc, k) == {x \in Procs \X Fds : desc[x[1]][x[2]] = k}

\* The count of a description is the number of descriptors that hold its
\* key: whatever the order of open, close, fork, execve and exit, no
\* description is dropped while in use and none outlives its last user.
RefCounts == \A k \in Keys :
    file_list[k].count =
        Cardinality(Refs(file_desc, k)) + Cardinality(Refs(old_desc, k))

\* A descriptor stands for the file it was opened on, for as long as it is
\* open.
SameFile == \A p \in Procs : \A fd \in Fds :
    file_desc[p][fd] # NoKey => /\ Open(file_desc[p][fd])
                                /\ file_list[file_desc[p][fd]].name = opened[p][fd]

\* Processes share a description only by inheritance: two calls of open
\* never end up with one description between them.
OpenIsPrivate == [][\A p \in Procs : OpenInsert(p) =>
    \A q \in Procs : \A fd \in Fds : file_desc[q][fd] # opening[p].key]_vars
=============================================================================
