--------------------------- MODULE FileTableProofs ---------------------------
(***************************************************************************)
(* The reference counts of FileTable are exact and descriptors keep their  *)
(* file, for any number of processes, descriptors, keys and names, as long *)
(* as open_file is not preempted.                                          *)
(*                                                                         *)
(* Every action changes the descriptor table of one process; RowChange     *)
(* says what that does to the number of references to a key.               *)
(***************************************************************************)
EXTENDS FileTable, FiniteSetTheorems, TLAPS

Descs == [Procs -> DescTable]

\* The references to k are finitely many.
LEMMA RefsFinite ==
    ASSUME NEW desc \in Descs, NEW k \in Keys
    PROVE  /\ IsFiniteSet(Refs(desc, k))
           /\ Cardinality(Refs(desc, k)) \in Nat
<1>1. IsFiniteSet(Procs \X Fds)
  BY FS_Product, ProcsAssumption, FdsAssumption
<1>2. Refs(desc, k) \in SUBSET (Procs \X Fds)
  BY DEF Refs
<1>3. IsFiniteSet(Refs(desc, k))
  BY <1>1, <1>2, FS_Subset
<1> QED BY <1>3, FS_CardinalityType

\* So are the descriptors of one table that hold it.
LEMMA HoldingFinite ==
    ASSUME NEW desc, NEW k
    PROVE  /\ IsFiniteSet(Holding(desc, k))
           /\ Cardinality(Holding(desc, k)) \in Nat
<1>1. Holding(desc, k) \in SUBSET Fds
  BY DEF Holding
<1>2. IsFiniteSet(Holding(desc, k))
  BY <1>1, FS_Subset, FdsAssumption
<1> QED BY <1>2, FS_CardinalityType

\* The references of all processes but p, and those of p.
Others(desc, p, k) == {x \in Procs \X Fds : x[1] # p /\ desc[x[1]][x[2]] = k}

\* The references to k are p's and the others'.
LEMMA RowSplit ==
    ASSUME NEW desc \in Descs, NEW p \in Procs, NEW k \in Keys
    PROVE  /\ IsFiniteSet(Others(desc, p, k))
           /\ Cardinality(Others(desc, p, k)) \in Nat
           /\ Cardinality(Refs(desc, k)) = Cardinality(Others(desc, p, k))
                                         + Cardinality(Holding(desc[p], k))
<1> DEFINE row == {p} \X Holding(desc[p], k)
<1>1. IsFiniteSet(Others(desc, p, k))
  <2>1. Others(desc, p, k) \in SUBSET Refs(desc, k)
    BY DEF Others, Refs
  <2> QED BY <2>1, RefsFinite, FS_Subset
<1>2. Cardinality(Others(desc, p, k)) \in Nat
  BY <1>1, FS_CardinalityType
<1>3. IsFiniteSet(row) /\ Cardinality(row) = Cardinality(Holding(desc[p], k))
  <2>1. IsFiniteSet({p}) /\ Cardinality({p}) = 1
    BY FS_Singleton
  <2>2. /\ IsFiniteSet(row)
        /\ Cardinality(row) = Cardinality({p}) * Cardinality(Holding(desc[p], k))
    BY <2>1, HoldingFinite, FS_Product
  <2> QED BY <2>1, <2>2, HoldingFinite
<1>4. Refs(desc, k) = Others(desc, p, k) \cup row
  <2>1. ASSUME NEW x \in Procs \X Fds
        PROVE  x \in Refs(desc, k) <=> x \in Others(desc, p, k) \/ x \in row
    BY DEF Refs, Others, Holding
  <2>2. Others(desc, p, k) \cup row \subseteq Procs \X Fds
    BY DEF Others, Holding
  <2>3. Refs(desc, k) \subseteq Procs \X Fds
    BY DEF Refs
  <2> HIDE DEF row
  <2> QED BY <2>1, <2>2, <2>3
<1>5. Others(desc, p, k) \cap row = {}
  BY DEF Others
<1> HIDE DEF row
<1>6. Cardinality(Refs(desc, k)) = Cardinality(Others(desc, p, k))
            + Cardinality(row) - Cardinality(Others(desc, p, k) \cap row)
  BY <1>1, <1>3, <1>4, FS_Union
<1>7. Cardinality(Others(desc, p, k) \cap row) = 0
  BY <1>5, FS_EmptySet
<1> QED BY <1>1, <1>2, <1>3, <1>6, <1>7, HoldingFinite

Replace(desc, p, row) == [desc EXCEPT ![p] = row]

\* When the table of p is replaced, the references to k change by the
\* difference of what the two tables hold.
LEMMA RowChange ==
    ASSUME NEW desc \in Descs, NEW p \in Procs, NEW k \in Keys,
           NEW row \in DescTable
    PROVE  Cardinality(Refs(Replace(desc, p, row), k)) =
             Cardinality(Refs(desc, k)) - Cardinality(Holding(desc[p], k))
                                        + Cardinality(Holding(row, k))
<1> DEFINE new == Replace(desc, p, row)
<1>1. new \in Descs /\ new[p] = row
  BY DEF Descs, Replace
<1>2. Others(new, p, k) = Others(desc, p, k)
  BY DEF Others, Descs, Replace
<1> HIDE DEF new
<1>3. Cardinality(Refs(new, k)) = Cardinality(Others(new, p, k))
                                + Cardinality(Holding(row, k))
  BY <1>1, RowSplit
<1>4. Cardinality(Refs(desc, k)) = Cardinality(Others(desc, p, k))
                                 + Cardinality(Holding(desc[p], k))
  BY RowSplit
<1>5. Cardinality(Others(desc, p, k)) \in Nat
  BY RowSplit
<1>6. Cardinality(Refs(new, k)) = Cardinality(Refs(desc, k))
        - Cardinality(Holding(desc[p], k)) + Cardinality(Holding(row, k))
  BY <1>2, <1>3, <1>4, <1>5, HoldingFinite
<1> QED BY <1>6 DEF new

\* A table with no descriptor holds no key.
LEMMA EmptyHolds ==
    ASSUME NEW k \in Keys
    PROVE  Cardinality(Holding(NoFds, k)) = 0
<1>1. Holding(NoFds, k) = {}
  BY KeysAssumption DEF Holding, NoFds, NoKey
<1> QED BY <1>1, FS_EmptySet

\* What one process holds is part of all references.
LEMMA HoldingBound ==
    ASSUME NEW desc \in Descs, NEW p \in Procs, NEW k \in Keys
    PROVE  Cardinality(Holding(desc[p], k)) <= Cardinality(Refs(desc, k))
BY RowSplit, HoldingFinite, RefsFinite

-----------------------------------------------------------------------------
\* Taking a descriptor into use adds one reference.
LEMMA AddFd ==
    ASSUME NEW row \in DescTable, NEW fd \in Fds, NEW k \in Keys, NEW j \in Keys,
           row[fd] = NoKey
    PROVE  Cardinality(Holding([row EXCEPT ![fd] = k], j)) =
             Cardinality(Holding(row, j)) + (IF j = k THEN 1 ELSE 0)
<1>1. Holding([row EXCEPT ![fd] = k], j) =
        IF j = k THEN Holding(row, j) \cup {fd} ELSE Holding(row, j)
  BY KeysAssumption DEF Holding, DescTable, NoKey
<1>2. fd \notin Holding(row, j)
  BY KeysAssumption DEF Holding, NoKey
<1>3. Cardinality(Holding(row, j) \cup {fd}) = Cardinality(Holding(row, j)) + 1
  BY <1>2, HoldingFinite, FS_AddElement
<1> QED BY <1>1, <1>3, HoldingFinite

\* Releasing one takes one away.
LEMMA RemoveFd ==
    ASSUME NEW row \in DescTable, NEW fd \in Fds, NEW j \in Keys,
           row[fd] \in Keys
    PROVE  Cardinality(Holding([row EXCEPT ![fd] = NoKey], j)) =
             Cardinality(Holding(row, j)) - (IF j = row[fd] THEN 1 ELSE 0)
<1>1. Holding([row EXCEPT ![fd] = NoKey], j) =
        IF j = row[fd] THEN Holding(row, j) \ {fd} ELSE Holding(row, j)
  BY KeysAssumption DEF Holding, DescTable, NoKey
<1>2. CASE j = row[fd]
  <2>1. fd \in Holding(row, j)
    BY <1>2 DEF Holding
  <2>2. Cardinality(Holding(row, j) \ {fd}) = Cardinality(Holding(row, j)) - 1
    BY <2>1, HoldingFinite, FS_RemoveElement
  <2> QED BY <1>1, <1>2, <2>2
<1>3. CASE j # row[fd]
  BY <1>1, <1>3, HoldingFinite
<1> QED BY <1>2, <1>3

\* A table that has a descriptor for k holds it at least once.
LEMMA HoldsOne ==
    ASSUME NEW row \in DescTable, NEW fd \in Fds, row[fd] \in Keys
    PROVE  Cardinality(Holding(row, row[fd])) >= 1
<1>1. Holding(row, row[fd]) # {}
  BY DEF Holding
<1> QED BY <1>1, HoldingFinite, FS_EmptySet

\* Dropping references that are counted is a subtraction.
LEMMA DropCount ==
    ASSUME NEW e \in Entry, NEW n \in Nat, n <= e.count
    PROVE  /\ Drop(e, n) \in Entry
           /\ Drop(e, n).count = e.count - n
           /\ Drop(e, n).count > 0 => Drop(e, n).name = e.name
BY DEF Drop, Entry, NoEntry

-----------------------------------------------------------------------------
\* Who may be inside open_file or execve, and what process objects own.
Quiet ==
    /\ \A p \in Procs : opening[p] # NotOpening =>
         /\ opening[p].key \in Keys
         /\ ~Open(opening[p].key)
         /\ execing = NoProc
         /\ \A q \in Procs : opening[q] # NotOpening => q = p
    /\ \A p \in Procs : p # execing => old_desc[p] = NoFds
    /\ \A p \in Procs : p \notin procs => file_desc[p] = NoFds

Inv == TypeOK /\ RefCounts /\ Quiet

\* The invariant holds initially.
LEMMA InitInv == Init => Inv
<1> SUFFICES ASSUME Init PROVE Inv
  OBVIOUS
<1>1. NoFds \in DescTable
  BY DEF NoFds, DescTable
<1>2. TypeOK
  BY <1>1, ProcsAssumption DEF Init, TypeOK, NoEntry, Entry, NotOpening
<1>3. ASSUME NEW k \in Keys
      PROVE  Cardinality(Refs(file_desc, k)) = 0 /\ Cardinality(Refs(old_desc, k)) = 0
  <2>1. Refs(file_desc, k) = {} /\ Refs(old_desc, k) = {}
    BY <1>3, KeysAssumption DEF Init, Refs, NoFds, NoKey
  <2> QED BY <2>1, FS_EmptySet
<1>4. RefCounts
  BY <1>3 DEF RefCounts, Init, NoEntry
<1>5. Quiet
  BY DEF Quiet, Init
<1> QED BY <1>2, <1>4, <1>5 DEF Inv

\* What the type invariant says of the two descriptor tables.
LEMMA TablesTyped ==
    ASSUME TypeOK
    PROVE  file_desc \in Descs /\ old_desc \in Descs
BY DEF TypeOK, Descs

\* copy_file on every descriptor of a table adds what the table holds.
LEMMA CopiedCount ==
    ASSUME Inv, NEW p \in Procs, NEW k \in Keys
    PROVE  /\ Copied(file_desc[p]) \in [Keys -> Entry]
           /\ Copied(file_desc[p])[k].count =
                file_list[k].count + Cardinality(Holding(file_desc[p], k))
           /\ Copied(file_desc[p])[k].count > 0 =>
                Copied(file_desc[p])[k].name = file_list[k].name
<1> USE DEF Inv
<1>1. file_list \in [Keys -> Entry]
  BY DEF TypeOK
<1>2. Copied(file_desc[p]) \in [Keys -> Entry]
  BY <1>1, HoldingFinite DEF Copied, Entry
<1>3. CASE Open(k)
  BY <1>1, <1>2, <1>3, HoldingFinite DEF Copied, Entry
<1>4. CASE ~Open(k)
  <2>1. file_list[k].count = 0
    BY <1>1, <1>4 DEF Open, Entry
  <2>2. Cardinality(Refs(file_desc, k)) = 0
    BY <2>1, RefsFinite, TablesTyped DEF RefCounts
  <2>3. Cardinality(Holding(file_desc[p], k)) = 0
    BY <2>2, HoldingBound, TablesTyped, HoldingFinite
  <2>4. Copied(file_desc[p])[k] = file_list[k]
    BY <1>4 DEF Copied
  <2> QED BY <1>2, <2>1, <2>3, <2>4
<1> QED BY <1>3, <1>4

\* Closing every descriptor of a table that is counted subtracts them.
LEMMA ClosedCount ==
    ASSUME Inv, NEW desc \in {file_desc, old_desc}, NEW p \in Procs, NEW k \in Keys
    PROVE  /\ Closed(desc[p]) \in [Keys -> Entry]
           /\ Closed(desc[p])[k].count =
                file_list[k].count - Cardinality(Holding(desc[p], k))
           /\ Closed(desc[p])[k].count > 0 =>
                Closed(desc[p])[k].name = file_list[k].name
<1> USE DEF Inv
<1>1. file_list \in [Keys -> Entry]
  BY DEF TypeOK
<1>2. ASSUME NEW j \in Keys
      PROVE  Cardinality(Holding(desc[p], j)) <= file_list[j].count
  BY <1>1, <1>2, HoldingBound, TablesTyped, RefsFinite, HoldingFinite DEF RefCounts
<1>3. ASSUME NEW j \in Keys
      PROVE  LET n == Cardinality(Holding(desc[p], j)) IN
             /\ Drop(file_list[j], n) \in Entry
             /\ Drop(file_list[j], n).count = file_list[j].count - n
             /\ Drop(file_list[j], n).count > 0 =>
                  Drop(file_list[j], n).name = file_list[j].name
  BY <1>1, <1>2, <1>3, HoldingFinite, DropCount
<1>4. file_list[k].count \in Nat
  BY <1>1 DEF Entry
<1>5. Closed(desc[p]) \in [Keys -> Entry]
  BY <1>1, <1>3 DEF Closed
<1>6. CASE Cardinality(Holding(desc[p], k)) = 0
  BY <1>4, <1>5, <1>6 DEF Closed
<1>7. CASE Cardinality(Holding(desc[p], k)) # 0
  <2>1. Closed(desc[p])[k] = Drop(file_list[k], Cardinality(Holding(desc[p], k)))
    BY <1>7 DEF Closed
  <2> QED BY <1>3, <1>5, <2>1
<1> QED BY <1>6, <1>7

\* Both keep the types, whatever they are applied to.
LEMMA ClosedTyped ==
    ASSUME TypeOK, NEW desc
    PROVE  Closed(desc) \in [Keys -> Entry]
BY HoldingFinite DEF Closed, Drop, TypeOK, Entry, NoEntry

LEMMA CopiedTyped ==
    ASSUME TypeOK, NEW desc
    PROVE  Copied(desc) \in [Keys -> Entry]
BY HoldingFinite DEF Copied, TypeOK, Entry

-----------------------------------------------------------------------------
\* Every step keeps the types.
LEMMA StepType ==
    ASSUME Inv, Next
    PROVE  TypeOK'
<1> USE DEF Inv
<1>1. /\ file_list \in [Keys -> Entry] /\ file_desc \in [Procs -> DescTable]
      /\ old_desc \in [Procs -> DescTable] /\ NoFds \in DescTable
      /\ [fd \in Fds |-> NoName] \in [Fds -> Names \cup {NoName}]
  BY DEF TypeOK, NoFds, DescTable
<1>2. ASSUME NEW p \in Procs, NEW n \in Names, OpenFind(p, n)
      PROVE  TypeOK'
  BY <1>2 DEF OpenFind, TypeOK
<1>3. ASSUME NEW p \in Procs, OpenFails(p)
      PROVE  TypeOK'
  BY <1>3 DEF OpenFails, TypeOK, NotOpening
<1>4. ASSUME NEW p \in Procs, OpenInsert(p)
      PROVE  TypeOK'
  <2> DEFINE k == opening[p].key
  <2>1. k \in Keys /\ opening[p].name \in Names \cup {NoName}
    BY <1>4 DEF OpenInsert, Quiet, TypeOK
  <2>2. file_list' \in [Keys -> Entry]
    BY <1>1, <1>4, <2>1 DEF OpenInsert, Entry
  <2>3. PICK fd \in Fds : /\ file_desc' = [file_desc EXCEPT ![p][fd] = k]
                          /\ opened' = [opened EXCEPT ![p][fd] = opening[p].name]
    BY <1>4 DEF OpenInsert
  <2>4. file_desc' \in [Procs -> DescTable]
    BY <1>1, <2>1, <2>3 DEF DescTable
  <2>5. opened' \in [Procs -> [Fds -> Names \cup {NoName}]]
    BY <2>1, <2>3 DEF TypeOK
  <2> QED BY <1>4, <2>2, <2>4, <2>5 DEF OpenInsert, TypeOK, NotOpening
<1>5. ASSUME NEW p \in Procs, NEW fd \in Fds, Close(p, fd)
      PROVE  TypeOK'
  <2>1. file_desc[p][fd] \in Keys
    BY <1>1, <1>5 DEF Close, DescTable
  <2>2. Drop(file_list[file_desc[p][fd]], 1) \in Entry
    BY <1>1, <2>1 DEF Drop, Entry, NoEntry
  <2>3. file_list' \in [Keys -> Entry]
    BY <1>1, <1>5, <2>2 DEF Close
  <2>4. file_desc' \in [Procs -> DescTable]
    BY <1>1, <1>5 DEF Close, DescTable
  <2> QED BY <1>5, <2>3, <2>4 DEF Close, TypeOK
<1>6. ASSUME NEW p \in Procs, CloseAll(p)
      PROVE  TypeOK'
  <2>1. file_list' \in [Keys -> Entry]
    BY <1>1, <1>6, ClosedTyped DEF CloseAll
  <2> QED BY <1>1, <1>6, <2>1 DEF CloseAll, TypeOK
<1>7. ASSUME NEW p \in Procs, ExecDuplicate(p)
      PROVE  TypeOK'
  <2>1. file_list' \in [Keys -> Entry]
    BY <1>1, <1>7, CopiedTyped DEF ExecDuplicate
  <2> QED BY <1>1, <1>7, <2>1 DEF ExecDuplicate, TypeOK
<1>8. ASSUME NEW p \in Procs, ExecDelete(p)
      PROVE  TypeOK'
  <2>1. file_list' \in [Keys -> Entry]
    BY <1>1, <1>8, ClosedTyped DEF ExecDelete
  <2> QED BY <1>1, <1>8, <2>1 DEF ExecDelete, TypeOK
<1>9. ASSUME NEW p \in Procs, NEW q \in Procs, Fork(p, q)
      PROVE  TypeOK'
  <2>1. file_list' \in [Keys -> Entry]
    BY <1>1, <1>9, CopiedTyped DEF Fork
  <2> QED BY <1>1, <1>9, <2>1 DEF Fork, TypeOK
<1>10. ASSUME NEW p \in Procs, NEW q \in Procs, Erase(p, q)
       PROVE  TypeOK'
  <2>1. file_list' \in [Keys -> Entry]
    BY <1>1, <1>10, ClosedTyped DEF Erase
  <2> QED BY <1>1, <1>10, <2>1 DEF Erase, TypeOK
<1> QED BY <1>2, <1>3, <1>4, <1>5, <1>6, <1>7, <1>8, <1>9, <1>10 DEF Next

-----------------------------------------------------------------------------
\* Every step keeps the counts exact.
LEMMA StepCounts ==
    ASSUME Inv, Next
    PROVE  RefCounts'
<1> USE DEF Inv
<1>1. /\ file_list \in [Keys -> Entry] /\ file_desc \in Descs
      /\ old_desc \in Descs /\ NoFds \in DescTable
      /\ \A p \in Procs : file_desc[p] \in DescTable /\ old_desc[p] \in DescTable
  BY DEF TypeOK, NoFds, DescTable, Descs
<1> SUFFICES ASSUME NEW k \in Keys
             PROVE  file_list'[k].count = Cardinality(Refs(file_desc', k))
                                        + Cardinality(Refs(old_desc', k))
  BY DEF RefCounts, Refs
<1> DEFINE new == Cardinality(Refs(file_desc, k))
           old == Cardinality(Refs(old_desc, k))
<1>2. file_list[k].count = new + old /\ new \in Nat /\ old \in Nat
  BY <1>1, RefsFinite DEF RefCounts
<1> HIDE DEF new, old
<1>3. ASSUME UNCHANGED <<file_list, file_desc, old_desc>>
      PROVE  file_list'[k].count = Cardinality(Refs(file_desc', k))
                                 + Cardinality(Refs(old_desc', k))
  BY <1>2, <1>3 DEF new, old
<1>4. ASSUME NEW p \in Procs, OpenInsert(p)
      PROVE  file_list'[k].count = Cardinality(Refs(file_desc', k))
                                 + Cardinality(Refs(old_desc', k))
  <2>1. opening[p].key \in Keys /\ ~Open(opening[p].key)
    BY <1>4 DEF OpenInsert, Quiet
  <2>2. PICK fd \in Fds : /\ FreeFd(p, fd)
                          /\ file_desc' = [file_desc EXCEPT ![p][fd] = opening[p].key]
    BY <1>4 DEF OpenInsert
  <2> DEFINE row == [file_desc[p] EXCEPT ![fd] = opening[p].key]
  <2>3. file_desc' = [file_desc EXCEPT ![p] = row] /\ row \in DescTable
    BY <1>1, <2>1, <2>2 DEF DescTable
  <2>4. Cardinality(Holding(row, k)) = Cardinality(Holding(file_desc[p], k))
                            + (IF k = opening[p].key THEN 1 ELSE 0)
    BY <1>1, <2>1, <2>2, AddFd DEF FreeFd
  <2> HIDE DEF row
  <2>5. Cardinality(Refs(file_desc', k)) =
            new + (IF k = opening[p].key THEN 1 ELSE 0)
    <3>1. file_desc' = Replace(file_desc, p, row)
      BY <2>3 DEF Replace
    <3>2. row \in DescTable
      BY <2>3
    <3>3. Cardinality(Refs(file_desc', k)) = Cardinality(Refs(file_desc, k))
            - Cardinality(Holding(file_desc[p], k)) + Cardinality(Holding(row, k))
      BY <1>1, <3>1, <3>2, RowChange
    <3> QED BY <1>2, <2>4, <3>3, HoldingFinite DEF new
  <2>6. file_list'[k].count = file_list[k].count
                            + (IF k = opening[p].key THEN 1 ELSE 0)
    <3>1. file_list' = [file_list EXCEPT ![opening[p].key] =
                            [name |-> opening[p].name, count |-> 1]]
      BY <1>4, <2>1 DEF OpenInsert
    <3>2. file_list[opening[p].key].count = 0
      BY <1>1, <2>1 DEF Open, Entry
    <3>3. file_list[k].count \in Nat
      BY <1>1 DEF Entry
    <3> QED BY <1>1, <2>1, <3>1, <3>2, <3>3
  <2>7. Cardinality(Refs(old_desc', k)) = old
    BY <1>4 DEF OpenInsert, old
  <2> QED BY <1>2, <2>5, <2>6, <2>7
<1>5. ASSUME NEW p \in Procs, NEW fd \in Fds, Close(p, fd)
      PROVE  file_list'[k].count = Cardinality(Refs(file_desc', k))
                                 + Cardinality(Refs(old_desc', k))
  <2> DEFINE row == [file_desc[p] EXCEPT ![fd] = NoKey]
  <2>1. file_desc[p][fd] \in Keys
    BY <1>1, <1>5 DEF Close, DescTable
  <2>2. file_desc' = [file_desc EXCEPT ![p] = row] /\ row \in DescTable
    BY <1>1, <1>5 DEF Close, DescTable
  <2>3. Cardinality(Holding(row, k)) = Cardinality(Holding(file_desc[p], k))
                            - (IF k = file_desc[p][fd] THEN 1 ELSE 0)
    BY <1>1, <2>1, RemoveFd
  <2> HIDE DEF row
  <2>4. Cardinality(Refs(file_desc', k)) =
            new - (IF k = file_desc[p][fd] THEN 1 ELSE 0)
    <3>1. file_desc' = Replace(file_desc, p, row)
      BY <2>2 DEF Replace
    <3>2. row \in DescTable
      BY <2>2
    <3>3. Cardinality(Refs(file_desc', k)) = Cardinality(Refs(file_desc, k))
            - Cardinality(Holding(file_desc[p], k)) + Cardinality(Holding(row, k))
      BY <1>1, <3>1, <3>2, RowChange
    <3> QED BY <1>2, <2>3, <3>3, HoldingFinite DEF new
  <2>5. CASE k = file_desc[p][fd]
    <3>1. 1 <= new
      <4>1. 1 <= Cardinality(Holding(file_desc[p], k))
        BY <1>1, <2>1, <2>5, HoldsOne, HoldingFinite
      <4> QED BY <1>1, <1>2, <4>1, HoldingBound, HoldingFinite DEF new
    <3>2. file_list'[k] = Drop(file_list[k], 1)
      BY <1>1, <1>5, <2>5 DEF Close
    <3>3. Drop(file_list[k], 1).count = file_list[k].count - 1
      BY <1>1, <1>2, <3>1, DropCount
    <3> QED BY <1>2, <1>5, <2>4, <2>5, <3>2, <3>3 DEF Close, old
  <2>6. CASE k # file_desc[p][fd]
    <3>1. file_list'[k] = file_list[k]
      BY <1>1, <1>5, <2>6 DEF Close
    <3> QED BY <1>2, <1>5, <2>4, <2>6, <3>1 DEF Close, old
  <2> QED BY <2>5, <2>6
<1>6. ASSUME NEW p \in Procs, NEW q \in Procs, Fork(p, q)
      PROVE  file_list'[k].count = Cardinality(Refs(file_desc', k))
                                 + Cardinality(Refs(old_desc', k))
  <2>1. Cardinality(Holding(file_desc[q], k)) = 0
    BY <1>6, EmptyHolds DEF Fork, Quiet
  <2>2. Cardinality(Refs(file_desc', k)) =
            new + Cardinality(Holding(file_desc[p], k))
    <3>1. file_desc' = Replace(file_desc, q, file_desc[p])
      BY <1>6 DEF Fork, Replace
    <3>2. Cardinality(Refs(file_desc', k)) = Cardinality(Refs(file_desc, k))
            - Cardinality(Holding(file_desc[q], k)) + Cardinality(Holding(file_desc[p], k))
      BY <1>1, <3>1, RowChange
    <3> QED BY <1>2, <2>1, <3>2, HoldingFinite DEF new
  <2>3. file_list'[k].count = file_list[k].count
                            + Cardinality(Holding(file_desc[p], k))
    BY <1>6, CopiedCount DEF Fork
  <2> QED BY <1>2, <1>6, <2>2, <2>3, HoldingFinite DEF Fork, old
<1>7. ASSUME NEW p \in Procs, ExecDuplicate(p)
      PROVE  file_list'[k].count = Cardinality(Refs(file_desc', k))
                                 + Cardinality(Refs(old_desc', k))
  <2>1. Cardinality(Holding(old_desc[p], k)) = 0
    <3>1. p # execing
      BY <1>7, NamesAssumption DEF ExecDuplicate, Calls
    <3> QED BY <3>1, EmptyHolds DEF Quiet
  <2>2. Cardinality(Refs(old_desc', k)) =
            old + Cardinality(Holding(file_desc[p], k))
    <3>1. old_desc' = Replace(old_desc, p, file_desc[p])
      BY <1>7 DEF ExecDuplicate, Replace
    <3>2. Cardinality(Refs(old_desc', k)) = Cardinality(Refs(old_desc, k))
            - Cardinality(Holding(old_desc[p], k)) + Cardinality(Holding(file_desc[p], k))
      BY <1>1, <3>1, RowChange
    <3> QED BY <1>2, <2>1, <3>2, HoldingFinite DEF old
  <2>3. file_list'[k].count = file_list[k].count
                            + Cardinality(Holding(file_desc[p], k))
    BY <1>7, CopiedCount DEF ExecDuplicate
  <2> QED BY <1>2, <1>7, <2>2, <2>3, HoldingFinite DEF ExecDuplicate, new
<1>8. ASSUME NEW p \in Procs, ExecDelete(p)
      PROVE  file_list'[k].count = Cardinality(Refs(file_desc', k))
                                 + Cardinality(Refs(old_desc', k))
  <2>1. Cardinality(Refs(old_desc', k)) =
            old - Cardinality(Holding(old_desc[p], k))
    <3>1. old_desc' = Replace(old_desc, p, NoFds)
      BY <1>8 DEF ExecDelete, Replace
    <3>2. Cardinality(Refs(old_desc', k)) = Cardinality(Refs(old_desc, k))
            - Cardinality(Holding(old_desc[p], k)) + Cardinality(Holding(NoFds, k))
      BY <1>1, <3>1, RowChange
    <3> QED BY <1>2, EmptyHolds, <3>2, HoldingFinite DEF old
  <2>2. file_list'[k].count = file_list[k].count
                            - Cardinality(Holding(old_desc[p], k))
    BY <1>8, ClosedCount DEF ExecDelete
  <2> QED BY <1>2, <1>8, <2>1, <2>2, HoldingFinite DEF ExecDelete, new
<1>9. ASSUME NEW p \in Procs,
             /\ file_list' = Closed(file_desc[p])
             /\ file_desc' = [file_desc EXCEPT ![p] = NoFds]
             /\ UNCHANGED old_desc
      PROVE  file_list'[k].count = Cardinality(Refs(file_desc', k))
                                 + Cardinality(Refs(old_desc', k))
  <2>1. Cardinality(Refs(file_desc', k)) =
            new - Cardinality(Holding(file_desc[p], k))
    <3>1. file_desc' = Replace(file_desc, p, NoFds)
      BY <1>9 DEF Replace
    <3>2. Cardinality(Refs(file_desc', k)) = Cardinality(Refs(file_desc, k))
            - Cardinality(Holding(file_desc[p], k)) + Cardinality(Holding(NoFds, k))
      BY <1>1, <3>1, RowChange
    <3> QED BY <1>2, EmptyHolds, <3>2, HoldingFinite DEF new
  <2>2. file_list'[k].count = file_list[k].count
                            - Cardinality(Holding(file_desc[p], k))
    BY <1>9, ClosedCount
  <2> QED BY <1>2, <1>9, <2>1, <2>2, HoldingFinite DEF old
<1>10. ASSUME NEW p \in Procs, CloseAll(p)
       PROVE  file_list'[k].count = Cardinality(Refs(file_desc', k))
                                  + Cardinality(Refs(old_desc', k))
  BY <1>9, <1>10 DEF CloseAll
<1>11. ASSUME NEW p \in Procs, NEW q \in Procs, Erase(p, q)
       PROVE  file_list'[k].count = Cardinality(Refs(file_desc', k))
                                  + Cardinality(Refs(old_desc', k))
  BY <1>9, <1>11 DEF Erase
<1>12. ASSUME NEW p \in Procs, OpenFails(p) \/ \E n \in Names : OpenFind(p, n)
       PROVE  file_list'[k].count = Cardinality(Refs(file_desc', k))
                                  + Cardinality(Refs(old_desc', k))
  BY <1>3, <1>12 DEF OpenFails, OpenFind
<1> QED BY <1>4, <1>5, <1>6, <1>7, <1>8, <1>10, <1>11, <1>12 DEF Next

-----------------------------------------------------------------------------
\* Every step keeps open_file and execve exclusive, and a process that is
\* gone without descriptors.
LEMMA StepQuiet ==
    ASSUME Inv, Next, Preempt = FALSE
    PROVE  Quiet'
<1> USE DEF Inv
<1>1. /\ opening \in [Procs -> [key : Keys \cup {NoKey}, name : Names \cup {NoName}]]
      /\ file_desc \in [Procs -> DescTable] /\ old_desc \in [Procs -> DescTable]
      /\ file_list \in [Keys -> Entry]
      /\ procs \subseteq Procs
  BY DEF TypeOK
<1>2. ASSUME NEW p \in Procs, NEW n \in Names, OpenFind(p, n)
      PROVE  Quiet'
  <2>1. PICK k \in Keys : /\ FreeKey(k)
                          /\ opening' = [opening EXCEPT ![p] = [key |-> k, name |-> n]]
    BY <1>2 DEF OpenFind
  <2>2. \A q \in Procs : opening[q] = NotOpening
    BY <1>2, Zenon DEF OpenFind, Calls, Runs
  <2>3. ASSUME NEW q \in Procs, opening'[q] # NotOpening
        PROVE  q = p
    BY <1>1, <2>1, <2>2, <2>3
  <2>4. opening'[p].key = k /\ ~Open(k) /\ execing = NoProc
    BY <1>1, <1>2, <2>1 DEF FreeKey, OpenFind, Calls
  <2>5. UNCHANGED <<procs, file_desc, old_desc, file_list, execing>>
    BY <1>2 DEF OpenFind
  <2> QED BY <2>3, <2>4, <2>5 DEF Quiet, Open
<1>3. ASSUME NEW p \in Procs, OpenFails(p)
      PROVE  Quiet'
  BY <1>1, <1>3 DEF OpenFails, Quiet, Open
<1>4. ASSUME NEW p \in Procs, OpenInsert(p)
      PROVE  Quiet'
  <2>1. \A q \in Procs : opening'[q] = NotOpening
    BY <1>1, <1>4 DEF OpenInsert, Quiet
  <2>2. UNCHANGED <<procs, old_desc, execing>> /\ p \in procs
    BY <1>4 DEF OpenInsert, Runs
  <2>3. \A q \in Procs : q # p => file_desc'[q] = file_desc[q]
    BY <1>1, <1>4 DEF OpenInsert
  <2> QED BY <2>1, <2>2, <2>3 DEF Quiet
<1>5. ASSUME \A q \in Procs : opening[q] = NotOpening
             , UNCHANGED <<procs, opening, old_desc, execing>>
             , NEW p \in procs, \A q \in Procs : q # p => file_desc'[q] = file_desc[q]
      PROVE  Quiet'
  BY <1>1, <1>5 DEF Quiet
<1>6. ASSUME NEW p \in Procs, Calls(p)
      PROVE  /\ \A q \in Procs : opening[q] = NotOpening
             /\ p \in procs /\ execing = NoProc
  BY <1>6, Zenon DEF Calls, Runs
<1>7. ASSUME NEW p \in Procs, NEW fd \in Fds, Close(p, fd)
      PROVE  Quiet'
  BY <1>1, <1>5, <1>6, <1>7 DEF Close
<1>8. ASSUME NEW p \in Procs, CloseAll(p)
      PROVE  Quiet'
  BY <1>1, <1>5, <1>6, <1>8 DEF CloseAll
<1>9. ASSUME NEW p \in Procs, ExecDuplicate(p)
      PROVE  Quiet'
  <2>1. \A q \in Procs : opening'[q] = NotOpening
    BY <1>6, <1>9 DEF ExecDuplicate
  <2>2. \A q \in Procs : q # p => old_desc'[q] = NoFds
    BY <1>1, <1>6, <1>9, NamesAssumption DEF ExecDuplicate, Quiet
  <2> QED BY <1>9, <2>1, <2>2 DEF ExecDuplicate, Quiet
<1>10. ASSUME NEW p \in Procs, ExecDelete(p)
       PROVE  Quiet'
  <2>1. \A q \in Procs : opening'[q] = NotOpening
    BY <1>10, NamesAssumption DEF ExecDelete, Quiet
  <2>2. \A q \in Procs : old_desc'[q] = NoFds
    BY <1>1, <1>10 DEF ExecDelete, Quiet
  <2> QED BY <1>10, <2>1, <2>2 DEF ExecDelete, Quiet
<1>11. ASSUME NEW p \in Procs, NEW q \in Procs, Fork(p, q)
       PROVE  Quiet'
  <2>1. \A r \in Procs : opening'[r] = NotOpening
    BY <1>6, <1>11 DEF Fork
  <2> QED BY <1>1, <1>11, <2>1 DEF Fork, Quiet
<1>12. ASSUME NEW p \in Procs, NEW q \in Procs, Erase(p, q)
       PROVE  Quiet'
  <2>1. \A r \in Procs : opening'[r] = NotOpening
    BY <1>6, <1>12 DEF Erase
  <2> QED BY <1>1, <1>12, <2>1 DEF Erase, Quiet
<1> QED BY <1>2, <1>3, <1>4, <1>7, <1>8, <1>9, <1>10, <1>11, <1>12 DEF Next

\* The invariant is inductive.
LEMMA StepInv ==
    ASSUME Inv, [Next]_vars, Preempt = FALSE
    PROVE  Inv'
<1>1. CASE Next
  BY <1>1, StepType, StepCounts, StepQuiet DEF Inv
<1>2. CASE UNCHANGED vars
  BY <1>2 DEF vars, Inv, TypeOK, RefCounts, Refs, Quiet, Open
<1> QED BY <1>1, <1>2

\* The reference counts of the file table are exact in every reachable
\* state, if FileTable::open_file is not preempted.
THEOREM CountsExact ==
    ASSUME Preempt = FALSE
    PROVE  Spec => []RefCounts
<1>1. Init => Inv
  BY InitInv
<1>2. Inv /\ [Next]_vars => Inv'
  BY StepInv
<1>3. Inv => RefCounts
  BY DEF Inv
<1> QED BY <1>1, <1>2, <1>3, PTL DEF Spec

-----------------------------------------------------------------------------
\* With exact counts, a key in use is the key of an entry.
LEMMA InUse ==
    ASSUME NEW list \in [Keys -> Entry], NEW desc \in Descs, NEW old \in Descs,
           \A k \in Keys : list[k].count = Cardinality(Refs(desc, k))
                                         + Cardinality(Refs(old, k)),
           NEW p \in Procs, NEW fd \in Fds, desc[p][fd] # NoKey
    PROVE  desc[p][fd] \in Keys /\ list[desc[p][fd]].count > 0
<1> DEFINE k == desc[p][fd]
<1>1. k \in Keys /\ desc[p] \in DescTable
  BY DEF Descs, DescTable
<1>2. Cardinality(Holding(desc[p], k)) >= 1
  BY <1>1, HoldsOne
<1>3. Cardinality(Holding(desc[p], k)) <= Cardinality(Refs(desc, k))
  BY <1>1, HoldingBound
<1>4. list[k].count = Cardinality(Refs(desc, k)) + Cardinality(Refs(old, k))
  BY <1>1
<1> QED BY <1>1, <1>2, <1>3, <1>4, HoldingFinite, RefsFinite

\* An entry that is there before and after a step keeps its name.
LEMMA NamesStay ==
    ASSUME Inv, Next, NEW k \in Keys, Open(k), file_list'[k].count > 0
    PROVE  file_list'[k].name = file_list[k].name
<1> USE DEF Inv
<1>1. file_list \in [Keys -> Entry]
  BY DEF TypeOK
<1>2. ASSUME NEW p \in Procs, OpenInsert(p)
      PROVE  file_list'[k].name = file_list[k].name
  BY <1>1, <1>2 DEF OpenInsert
<1>3. ASSUME NEW p \in Procs, NEW fd \in Fds, Close(p, fd)
      PROVE  file_list'[k].name = file_list[k].name
  <2>1. file_list'[k] = IF k = file_desc[p][fd] THEN Drop(file_list[k], 1)
                        ELSE file_list[k]
    BY <1>1, <1>3 DEF Close
  <2>2. 1 <= file_list[k].count
    BY <1>1 DEF Open, Entry
  <2> QED BY <1>1, <2>1, <2>2, DropCount
<1>4. ASSUME NEW p \in Procs, CloseAll(p)
      PROVE  file_list'[k].name = file_list[k].name
  BY <1>4, ClosedCount DEF CloseAll
<1>5. ASSUME NEW p \in Procs, ExecDuplicate(p)
      PROVE  file_list'[k].name = file_list[k].name
  BY <1>5, CopiedCount DEF ExecDuplicate
<1>6. ASSUME NEW p \in Procs, ExecDelete(p)
      PROVE  file_list'[k].name = file_list[k].name
  BY <1>6, ClosedCount DEF ExecDelete
<1>7. ASSUME NEW p \in Procs, NEW q \in Procs, Fork(p, q)
      PROVE  file_list'[k].name = file_list[k].name
  BY <1>7, CopiedCount DEF Fork
<1>8. ASSUME NEW p \in Procs, NEW q \in Procs, Erase(p, q)
      PROVE  file_list'[k].name = file_list[k].name
  BY <1>8, ClosedCount DEF Erase
<1>9. ASSUME UNCHANGED file_list
      PROVE  file_list'[k].name = file_list[k].name
  BY <1>9
<1> QED BY <1>2, <1>3, <1>4, <1>5, <1>6, <1>7, <1>8, <1>9
        DEF Next, OpenFind, OpenFails

\* A descriptor that a step leaves in use is either one the process had, or
\* one it has just opened, or one a child has from its parent.
LEMMA WhereFrom ==
    ASSUME Inv, Next, NEW p \in Procs, NEW fd \in Fds, file_desc'[p][fd] # NoKey
    PROVE  \/ \E q \in Procs : /\ file_desc'[p][fd] = file_desc[q][fd]
                               /\ opened'[p][fd] = opened[q][fd]
           \/ /\ file_desc'[p][fd] \in Keys
              /\ file_list'[file_desc'[p][fd]].name = opened'[p][fd]
<1> USE DEF Inv
<1>1. /\ file_desc \in [Procs -> DescTable] /\ file_list \in [Keys -> Entry]
      /\ opened \in [Procs -> [Fds -> Names \cup {NoName}]]
      /\ \A q \in Procs : file_desc[q] \in [Fds -> Keys \cup {NoKey}]
  BY DEF TypeOK, DescTable
<1> DEFINE Goal == \/ \E q \in Procs : /\ file_desc'[p][fd] = file_desc[q][fd]
                                       /\ opened'[p][fd] = opened[q][fd]
                   \/ /\ file_desc'[p][fd] \in Keys
                      /\ file_list'[file_desc'[p][fd]].name = opened'[p][fd]
<1>2. ASSUME NEW r \in Procs, OpenInsert(r)
      PROVE  Goal
  <2>1. opening[r].key \in Keys /\ ~Open(opening[r].key)
    BY <1>2 DEF OpenInsert, Quiet
  <2>2. PICK e \in Fds :
            /\ file_desc' = [file_desc EXCEPT ![r][e] = opening[r].key]
            /\ opened' = [opened EXCEPT ![r][e] = opening[r].name]
    BY <1>2 DEF OpenInsert
  <2>3. file_list'[opening[r].key].name = opening[r].name
    BY <1>1, <1>2, <2>1 DEF OpenInsert
  <2>4. CASE p = r /\ fd = e
    BY <1>1, <2>1, <2>2, <2>3, <2>4
  <2>5. CASE ~(p = r /\ fd = e)
    BY <1>1, <2>2, <2>5
  <2> QED BY <2>4, <2>5
<1>3. ASSUME NEW r \in Procs, NEW e \in Fds, Close(r, e)
      PROVE  Goal
  BY <1>1, <1>3 DEF Close
<1>4. ASSUME NEW r \in Procs, CloseAll(r)
      PROVE  Goal
  BY <1>1, <1>4 DEF CloseAll, NoFds
<1>5. ASSUME NEW r \in Procs, NEW q \in Procs, Fork(r, q)
      PROVE  Goal
  BY <1>1, <1>5 DEF Fork
<1>6. ASSUME NEW r \in Procs, NEW q \in Procs, Erase(r, q)
      PROVE  Goal
  BY <1>1, <1>6 DEF Erase, NoFds
<1>7. ASSUME UNCHANGED <<file_desc, opened>>
      PROVE  Goal
  BY <1>7
<1> HIDE DEF Goal
<1>8. Goal
  BY <1>2, <1>3, <1>4, <1>5, <1>6, <1>7
     DEF Next, OpenFind, OpenFails, ExecDuplicate, ExecDelete
<1> QED BY <1>8 DEF Goal

\* A descriptor stands for the file it was opened on until it is closed, if
\* FileTable::open_file is not preempted.
THEOREM DescriptorsKeepFile ==
    ASSUME Preempt = FALSE
    PROVE  Spec => []SameFile
<1>1. Init => Inv /\ SameFile
  BY InitInv DEF Init, SameFile, NoFds
<1>2. Inv /\ SameFile /\ [Next]_vars => (Inv /\ SameFile)'
  <2> SUFFICES ASSUME Inv, SameFile, [Next]_vars
               PROVE  (Inv /\ SameFile)'
    OBVIOUS
  <2>1. Inv'
    BY StepInv
  <2>2. CASE UNCHANGED vars
    BY <2>1, <2>2 DEF vars, SameFile, Open
  <2>3. CASE Next
    <3> SUFFICES ASSUME NEW p \in Procs, NEW fd \in Fds, file_desc'[p][fd] # NoKey
                 PROVE  /\ file_list'[file_desc'[p][fd]].count > 0
                        /\ file_list'[file_desc'[p][fd]].name = opened'[p][fd]
      BY <2>1 DEF SameFile, Open
    <3>1. /\ file_desc' \in Descs /\ old_desc' \in Descs
          /\ file_list' \in [Keys -> Entry]
          /\ \A k \in Keys : file_list'[k].count = Cardinality(Refs(file_desc', k))
                                         + Cardinality(Refs(old_desc', k))
      BY <2>1 DEF Inv, TypeOK, Descs, RefCounts, Refs
    <3>2. file_desc'[p][fd] \in Keys /\ file_list'[file_desc'[p][fd]].count > 0
      BY <3>1, InUse
    <3>3. ASSUME NEW q \in Procs, file_desc'[p][fd] = file_desc[q][fd],
                 opened'[p][fd] = opened[q][fd]
          PROVE  file_list'[file_desc'[p][fd]].name = opened'[p][fd]
      <4>1. /\ Open(file_desc'[p][fd])
            /\ file_list[file_desc'[p][fd]].name = opened'[p][fd]
        BY <3>3 DEF SameFile
      <4> QED BY <2>3, <3>2, <4>1, NamesStay
    <3>4. \/ \E q \in Procs : /\ file_desc'[p][fd] = file_desc[q][fd]
                              /\ opened'[p][fd] = opened[q][fd]
          \/ file_list'[file_desc'[p][fd]].name = opened'[p][fd]
      BY <2>3, WhereFrom
    <3> QED BY <3>2, <3>3, <3>4
  <2> QED BY <2>1, <2>2, <2>3
<1> QED BY <1>1, <1>2, PTL DEF Spec

\* The description that open_file inserts is held by nobody: two calls of
\* open never end up with one description between them, if
\* FileTable::open_file is not preempted between the search for a key and
\* the insertion.
THEOREM DescriptionsPrivate ==
    ASSUME Preempt = FALSE
    PROVE  Spec => OpenIsPrivate
<1> DEFINE Private == \A p \in Procs : OpenInsert(p) =>
        \A q \in Procs : \A fd \in Fds : file_desc[q][fd] # opening[p].key
<1>1. Inv => Private
  <2> SUFFICES ASSUME Inv, NEW p \in Procs, OpenInsert(p), NEW q \in Procs, NEW fd \in Fds,
                      file_desc[q][fd] = opening[p].key
               PROVE  FALSE
    OBVIOUS
  <2>1. opening[p].key \in Keys /\ ~Open(opening[p].key)
    BY DEF OpenInsert, Inv, Quiet
  <2>2. /\ file_desc \in Descs /\ old_desc \in Descs /\ file_list \in [Keys -> Entry]
        /\ file_desc[q][fd] # NoKey
    BY <2>1, KeysAssumption DEF Inv, TypeOK, Descs, NoKey
  <2>3. file_list[opening[p].key].count > 0
    BY <2>2, InUse DEF Inv, RefCounts
  <2> QED BY <2>1, <2>3 DEF Open
<1>2. Inv => [Private]_vars
  BY <1>1
<1>3. Init => Inv
  BY InitInv
<1>4. Inv /\ [Next]_vars => Inv'
  BY StepInv
<1>5. Spec => [][Private]_vars
  BY <1>2, <1>3, <1>4, PTL DEF Spec
<1> QED BY <1>5 DEF OpenIsPrivate
=============================================================================
