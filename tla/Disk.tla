-------------------------------- MODULE Disk ---------------------------------
(***************************************************************************)
(* The disk stack: IdeController and PataDriver (kernel/cpp/Ide.cpp), the  *)
(* partition tables and PartitionDriver (kernel/cpp/DiskPartition.cpp).    *)
(*                                                                         *)
(* A controller has two channels with two slots each; slot 2 * cha + ra.   *)
(* The boot code selects each slot and identifies what answers, gives every*)
(* ATA disk a driver and every valid entry of its partition table another. *)
(* After that processes read and write sectors by programmed I/O: check and*)
(* select, write the address registers, send the command, move the data.   *)
(* The drives are external: a drive takes the address when the command     *)
(* arrives and serves the channel until the next one.                      *)
(*                                                                         *)
(* Numbers are scaled: a register holds W values instead of 256, the head  *)
(* field HeadsLba instead of 16; Spt and Hpc are sectors_per_track and     *)
(* heads_per_cylinder.                                                     *)
(***************************************************************************)
EXTENDS Integers, FiniteSets

CONSTANTS
    DProcs,       \* processes that use disks
    DHardware,    \* what may sit in the slots: a set of functions to "none",
                  \* "lba" and "chs" (ATA with and without LBA) and "atapi"
    DTables,      \* the partition tables on them, functions of the slot likewise
    DSize,        \* sectors of a disk
    DSectors,     \* sector numbers the processes use
    W, HeadsLba, Spt, Hpc,
    Beyond,       \* what may be read as a rank behind the array channels
    DPreempt,     \* may a tick separate the steps of two processes?
    MaxWrites     \* bound on the writes

Slots == 0 .. 3
Ranks == {"master", "slave"}
MbrEntries == [id : Nat, lba : Nat, sects : Nat]
GptEntries == [first : Nat, last : Nat]

\* The registers can name every sector of a disk: 48 bits of LBA, or 16 bits of
\* cylinder with the head and the sector of the track.
ASSUME DiskAssumption ==
    /\ DSize \in Nat /\ DSectors \subseteq Nat /\ MaxWrites \in Nat /\ DPreempt \in BOOLEAN
    /\ \A n \in {W, HeadsLba, Spt, Hpc} : n \in Nat /\ n # 0
    /\ DSize <= (W * W * W) * (W * W * W)
    /\ Beyond \subseteq Ranks \cup {"unknown"}
    /\ \A k \in DHardware : /\ k \in [Slots -> {"none", "lba", "chs", "atapi"}]
                            /\ (\E s \in Slots : k[s] = "chs") => DSize <= ((W * W) * Hpc) * Spt
    /\ \A t \in DTables : \A s \in Slots :
          /\ \A i \in DOMAIN t[s].mbr : t[s].mbr[i] \in MbrEntries
          /\ \A n \in DOMAIN t[s].gpt : \A i \in DOMAIN t[s].gpt[n].entries :
                t[s].gpt[n].entries[i] \in GptEntries

Slot(cha, ra) == 2 * cha + (IF ra = "slave" THEN 1 ELSE 0)
Cha(s) == s \div 2
Ra(s) == IF s % 2 = 1 THEN "slave" ELSE "master"

VARIABLES
    dKind, dTable, \* what is in the slots and on the disks
    dHwSel,        \* the slot each channel's wires select
    dSel,          \* channels[cha].dev
    dBoot,         \* next slot to identify; 4 and 5: partitions; 6: running
    dDevs,         \* devs: slot -> "none", "ata", "atapi"
    dDrivers,      \* the drivers in /dev
    dReg,          \* address registers of each channel
    dCmd,          \* the command each channel is serving
    dMedia,        \* contents of the disks
    dIo,           \* what each process is doing
    dRef,          \* reference contents
    dResult,       \* last read: what it delivered and what it should have
    dWrites
diskVars == <<dKind, dTable, dHwSel, dSel, dBoot, dDevs, dDrivers, dReg, dCmd,
              dMedia, dIo, dRef, dResult, dWrites>>
diskStatic == <<dKind, dTable>>
diskBootVars == <<dBoot, dDevs, dDrivers>>

IsAta(s) == dKind[s] \in {"lba", "chs"}
IoIdle == [pc |-> "idle"]
Blank == [s \in Slots |-> [n \in 0 .. DSize - 1 |-> 0]]

DiskInit ==
    /\ dKind \in DHardware
    /\ dTable \in DTables
    /\ dHwSel = [c \in 0 .. 1 |-> 2 * c]
    /\ dSel = [c \in 0 .. 1 |-> "unknown"]
    /\ dBoot = 0
    /\ dDevs = [s \in Slots |-> "none"]
    /\ dDrivers = {}
    /\ dReg = [c \in 0 .. 1 |-> [mode |-> "none"]]
    /\ dCmd = [c \in 0 .. 1 |-> [op |-> "none"]]
    /\ dMedia = Blank /\ dRef = Blank
    /\ dIo = [p \in DProcs |-> IoIdle]
    /\ dResult = <<0, 0>>
    /\ dWrites = 0

-----------------------------------------------------------------------------
(* Selecting a drive                                                       *)
\* What channels[dev].dev reads: the index is the slot, not the channel, so a
\* slave of the first channel reads the record of the second channel and the
\* second channel reads behind the array.
SeenRanks(s) == IF s < 2 THEN {dSel[s]} ELSE Beyond

\* switch_device: nothing is written if the drive seems to be selected.
SwitchDevice(s, seen) ==
    IF seen = Ra(s) THEN UNCHANGED <<dHwSel, dSel>>
    ELSE /\ dHwSel' = [dHwSel EXCEPT ![Cha(s)] = s]
         /\ dSel' = [dSel EXCEPT ![Cha(s)] = IF dKind[s] = "none" THEN "unknown" ELSE Ra(s)]

-----------------------------------------------------------------------------
(* Boot                                                                    *)
\* IDENTIFY is refused by packet devices, which answer IDENTIFY PACKET.
IdentifyAnswer(kind) ==
    IF kind = "atapi" THEN "atapi" ELSE IF kind = "none" THEN "none" ELSE "ata"

ConfigureDevice ==
    /\ dBoot \in Slots
    /\ \E seen \in SeenRanks(dBoot) : SwitchDevice(dBoot, seen)
    /\ dDevs' = [dDevs EXCEPT ![dBoot] = IdentifyAnswer(dKind[dHwSel'[Cha(dBoot)]])]
    /\ dBoot' = dBoot + 1
    /\ UNCHANGED <<dKind, dTable, dDrivers, dReg, dCmd, dMedia, dIo, dRef, dResult, dWrites>>

\* add_drivers: one driver for each ATA disk, packet devices get none.
RawDriver(s) == [slot |-> s, part |-> 0, offset |-> 0, size |-> DSize]
AddDrivers ==
    /\ dBoot = 4
    /\ dDrivers' = {RawDriver(s) : s \in {t \in Slots : dDevs[t] = "ata"}}
    /\ dBoot' = 5
    /\ UNCHANGED <<dKind, dTable, dHwSel, dSel, dDevs, dReg, dCmd, dMedia, dIo, dRef, dResult, dWrites>>

\* An entry without type, start or length is skipped, and the numbers of those
\* after it move up: the entries kept, each under its number.
Numbered(e, keep) ==
    {[part |-> Cardinality({j \in keep : j <= i}), lba |-> e[i].lba, sects |-> e[i].sects] : i \in keep}
MbrEntryValid(e) == e.id # 0 /\ e.lba # 0 /\ e.sects # 0
PartitionTable(t) ==
    IF t.signature THEN {i \in DOMAIN t.mbr : MbrEntryValid(t.mbr[i])} ELSE {}
\* A single entry of type EE protects a GUID partition table.
IsGpt(t) == \E i \in PartitionTable(t) : PartitionTable(t) = {i} /\ t.mbr[i].id = 238

GptEntryOf(e) == [lba |-> e.first, sects |-> e.last - e.first + 1]
GptEntryValid(e) == e.lba # 0 /\ e.sects # 0
\* read_gpt at a sector: the header is there if the signature is.
ReadGpt(t, sect) ==
    IF sect \notin DOMAIN t.gpt THEN [val |-> FALSE]
    ELSE LET h == t.gpt[sect]
             e == [i \in DOMAIN h.entries |-> GptEntryOf(h.entries[i])]
         IN [val |-> TRUE, lba |-> h.lba, other |-> h.other,
             table |-> Numbered(e, {i \in DOMAIN e : GptEntryValid(e[i])})]
TestBackup(g, b) == g.lba = b.other /\ g.other = b.lba /\ g.table = b.table
\* Both copies must be there and agree.
GptValid(t) ==
    LET g == ReadGpt(t, 1)
    IN g.val /\ LET b == ReadGpt(t, g.other) IN b.val /\ TestBackup(g, b)

\* read_partition_table
Entries(t) ==
    IF ~IsGpt(t) THEN Numbered(t.mbr, PartitionTable(t))
    ELSE IF GptValid(t) THEN ReadGpt(t, 1).table ELSE {}
PartitionDrivers(s) ==
    {[slot |-> s, part |-> e.part, offset |-> e.lba, size |-> e.sects] : e \in Entries(dTable[s])}
ReadPartitionTables ==
    /\ dBoot = 5
    /\ dDrivers' = dDrivers \cup UNION {PartitionDrivers(d.slot) : d \in dDrivers}
    /\ dBoot' = 6
    /\ UNCHANGED <<dKind, dTable, dHwSel, dSel, dDevs, dReg, dCmd, dMedia, dIo, dRef, dResult, dWrites>>

-----------------------------------------------------------------------------
(* Addresses                                                               *)
\* The bytes of a number, the lowest first.
Shifted(n) == LET q == n \div W r == q \div W t == r \div W u == t \div W
              IN <<n, q, r, t, u, u \div W>>
Digit(n, i) == Shifted(n)[i + 1] % W
Low(b) == b[0] + W * b[1] + (W * W) * b[2]

\* prepare_io: 28 bits where they suffice, cylinder, head and sector without LBA.
Registers(s, sect) ==
    IF dKind[s] = "chs"
    THEN LET sec == (sect % Spt) + 1
             track == (sect + 1 - sec) \div Spt
             c == track \div Hpc
         IN [mode |-> "chs", head |-> track % Hpc,
             lba |-> [i \in 0 .. 5 |-> IF i = 0 THEN sec ELSE IF i < 3 THEN Digit(c, i - 1) ELSE 0]]
    ELSE IF sect >= (W * W * W) * HeadsLba
    THEN [mode |-> "lba48", head |-> 0, lba |-> [i \in 0 .. 5 |-> Digit(sect, i)]]
    ELSE [mode |-> "lba28", head |-> Shifted(sect)[4] % HeadsLba,
          lba |-> [i \in 0 .. 5 |-> IF i < 3 THEN Digit(sect, i) ELSE 0]]

\* What a drive makes of its registers (external).
Decode(r) ==
    CASE r.mode = "chs" -> ((r.lba[1] + W * r.lba[2]) * Hpc + r.head) * Spt + r.lba[0] - 1
      [] r.mode = "lba28" -> Low(r.lba) + (W * W * W) * r.head
      [] r.mode = "lba48" -> Low(r.lba) + (W * W * W) * Low([i \in 0 .. 2 |-> r.lba[i + 3]])

-----------------------------------------------------------------------------
(* Programmed I/O                                                          *)
Turn(p) == DPreempt \/ \A q \in DProcs \ {p} : dIo[q].pc = "idle"
IoDone(p) == dIo' = [dIo EXCEPT ![p] = IoIdle]

\* Mutant: a partition does not add its offset.
TargetRaw(io) == io.sect

\* PartitionDriver adds the start of the partition.
Target(io) == io.drv.offset + io.sect

\* Files stay within the size of their device; the driver checks nothing more.
StartIo(p, op, drv, sect) ==
    /\ dBoot = 6
    /\ dIo[p].pc = "idle" /\ Turn(p)
    /\ sect < drv.size
    /\ op = "write" => dWrites < MaxWrites
    /\ dWrites' = IF op = "write" THEN dWrites + 1 ELSE dWrites
    /\ dIo' = [dIo EXCEPT ![p] = [pc |-> "prepare", op |-> op, drv |-> drv, sect |-> sect, val |-> dWrites']]
    /\ UNCHANGED <<diskStatic, diskBootVars, dHwSel, dSel, dReg, dCmd, dMedia, dRef, dResult>>

\* A sector behind the end of the disk is refused.
PrepareIo(p) ==
    LET io == dIo[p]
    IN /\ io.pc = "prepare" /\ Turn(p)
       /\ IF Target(io) >= DSize
          THEN IoDone(p) /\ UNCHANGED <<dHwSel, dSel>>
          ELSE /\ \E seen \in SeenRanks(io.drv.slot) : SwitchDevice(io.drv.slot, seen)
               /\ dIo' = [dIo EXCEPT ![p].pc = "address"]
       /\ UNCHANGED <<diskStatic, diskBootVars, dReg, dCmd, dMedia, dRef, dResult, dWrites>>

\* The drive register is written again, with the head.
WriteAddress(p) ==
    LET io == dIo[p]
        s == io.drv.slot
    IN /\ io.pc = "address" /\ Turn(p)
       /\ dHwSel' = [dHwSel EXCEPT ![Cha(s)] = s]
       /\ dReg' = [dReg EXCEPT ![Cha(s)] = Registers(s, Target(io))]
       /\ dIo' = [dIo EXCEPT ![p].pc = "command"]
       /\ UNCHANGED <<diskStatic, diskBootVars, dSel, dCmd, dMedia, dRef, dResult, dWrites>>

\* The drive may report an error, which ends the call; a write that fails here
\* has moved no data.
SendCommand(p) ==
    LET io == dIo[p]
        c == Cha(io.drv.slot)
    IN /\ io.pc = "command" /\ Turn(p)
       /\ dCmd' = [dCmd EXCEPT ![c] = [op |-> io.op, slot |-> dHwSel[c], sect |-> Decode(dReg[c])]]
       /\ \/ dIo' = [dIo EXCEPT ![p].pc = "transfer"]
          \/ IoDone(p)
       /\ UNCHANGED <<diskStatic, diskBootVars, dHwSel, dSel, dReg, dMedia, dRef, dResult, dWrites>>

TransferData(p) ==
    LET io == dIo[p]
        cmd == dCmd[Cha(io.drv.slot)]
    IN /\ io.pc = "transfer" /\ Turn(p)
       /\ IF io.op = "read"
          THEN /\ dResult' = <<IF cmd.op = "read" THEN dMedia[cmd.slot][cmd.sect] ELSE 0,
                               dRef[io.drv.slot][io.drv.offset + io.sect]>>
               /\ UNCHANGED <<dMedia, dRef>>
          ELSE /\ dMedia' = IF cmd.op = "write"
                            THEN [dMedia EXCEPT ![cmd.slot][cmd.sect] = io.val] ELSE dMedia
               /\ dRef' = [dRef EXCEPT ![io.drv.slot][io.drv.offset + io.sect] = io.val]
               /\ UNCHANGED dResult
       /\ IoDone(p)
       /\ UNCHANGED <<diskStatic, diskBootVars, dHwSel, dSel, dReg, dCmd, dWrites>>

DiskNext ==
    \/ ConfigureDevice \/ AddDrivers \/ ReadPartitionTables
    \/ \E p \in DProcs :
        \/ \E op \in {"read", "write"}, drv \in dDrivers, sect \in DSectors : StartIo(p, op, drv, sect)
        \/ PrepareIo(p) \/ WriteAddress(p) \/ SendCommand(p) \/ TransferData(p)
DiskSpec == DiskInit /\ [][DiskNext]_diskVars

-----------------------------------------------------------------------------
\* Every driver in /dev leads to a disk that is there, a sector read through
\* any driver is the one last written to that place of that disk by any way,
\* and no write lands anywhere else: across the channels and slots, raw disks
\* and partitions, failed commands, and the three ways to address a sector.
DiskFaithful ==
    /\ \A d \in dDrivers : IsAta(d.slot)
    /\ dResult[1] = dResult[2]
    /\ dMedia = dRef
=============================================================================
