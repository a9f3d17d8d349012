------------------------------ MODULE MCStorage ------------------------------
(***************************************************************************)
(* One model of the storage modules: each behaviour runs one of them, the  *)
(* file objects (Files), the name space (Vfs) or the disk stack (Disk),    *)
(* while the others rest in their initial state.                           *)
(***************************************************************************)
EXTENDS Files, Vfs, Disk, TLC

VARIABLE part
storageVars == <<part, vars, vfsVars, diskVars>>

Tmp(s) == <<"/", "tmp">> \o s
MCPaths == {Tmp(<<"/", "a">>), Tmp(<<"/", "/", "b">>), Tmp(<<>>), <<"/", "dev", "/", "tty">>}
HandleSymmetry == Permutations(VHandles)

\* Disks with and without LBA, packet devices and empty slots on both channels.
Hardware(h) == [s \in 0 .. 3 |-> h[s + 1]]
MCHardware == {Hardware(<<"lba", "chs", "atapi", "lba">>),
               Hardware(<<"lba", "none", "none", "chs">>),
               Hardware(<<"chs", "lba", "lba", "atapi">>)}
Entry(i, l, n) == [id |-> i, lba |-> l, sects |-> n]
Mbr == [signature |-> TRUE, gpt |-> <<>>,
        mbr |-> <<Entry(0, 0, 0), Entry(131, 1, 3), Entry(131, 15, 4)>>]
\* The header in sector 1 names the copy in sector 3, which may be damaged.
GptHeader(l, o) == [lba |-> l, other |-> o, entries |-> <<[first |-> 0, last |-> 0],
                                                         [first |-> 2, last |-> 3]>>]
Gpt(copy) == [signature |-> TRUE, mbr |-> <<Entry(238, 1, 17)>>,
              gpt |-> [n \in {1, 3} |-> IF n = 1 THEN GptHeader(1, 3) ELSE GptHeader(copy, 1)]]
NoTable == [signature |-> FALSE, mbr |-> <<>>, gpt |-> <<>>]
MCTables == {[s \in 0 .. 3 |-> IF s \in {0, 3} THEN Mbr ELSE Gpt(3)],
             [s \in 0 .. 3 |-> IF s \in {0, 3} THEN Gpt(2) ELSE NoTable]}

\* A part that rests does so in one of its initial states.
FilesRest == kind = (CHOOSE k \in Kinds : TRUE) /\ Init
DiskRest == /\ dKind = (CHOOSE k \in DHardware : TRUE)
            /\ dTable = (CHOOSE t \in DTables : TRUE)
            /\ DiskInit

MCInit ==
    /\ VfsInit
    /\ \/ part = "files" /\ Init /\ DiskRest
       \/ part = "vfs" /\ FilesRest /\ DiskRest
       \/ part = "disk" /\ FilesRest /\ DiskInit

MCNext ==
    /\ UNCHANGED part
    /\ \/ part = "files" /\ Next /\ UNCHANGED <<vfsVars, diskVars>>
       \/ part = "vfs" /\ VfsNext /\ UNCHANGED <<vars, diskVars>>
       \/ part = "disk" /\ DiskNext /\ UNCHANGED <<vars, vfsVars>>
MCSpec == MCInit /\ [][MCNext]_storageVars
=============================================================================
