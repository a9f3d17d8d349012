--------------------------------- MODULE Vfs ---------------------------------
(***************************************************************************)
(* VirtualFileSystem (kernel/cpp/FileSystem.cpp) over the mount table, with *)
(* MemoryFileSystem (tmpfs) and DevFileSystem below it.  The ext2 root is  *)
(* in module Ext2; here it only answers that it opens what it is asked.    *)
(*                                                                         *)
(* A path is a sequence of tokens, "/" being one of them, so that "/tmpx"  *)
(* and "/tmp/x" differ as they do for the prefix comparison of lookup.     *)
(* Memory is a set of addresses that are never given out twice: an address *)
(* outside vLive that is still held by a handle is a dangling pointer.     *)
(***************************************************************************)
EXTENDS Naturals, Sequences, FiniteSets

CONSTANTS
    VPaths,     \* paths the processes use
    VHandles,   \* open FILEs
    Disks,      \* device names with an ext2 file system on them
    MaxAlloc,   \* bound on the number of allocations
    VCareful    \* do the callers keep to the rules at VfsRules?

ASSUME VfsAssumption ==
    /\ VPaths \subseteq Seq(STRING) \ {<<>>}
    /\ MaxAlloc \in Nat /\ VCareful \in BOOLEAN

VARIABLES
    vMounts,    \* mtab: mount point -> file system
    vDrivers,   \* device_drivers of /dev: name -> DeviceType
    vFiles,     \* files of tmpfs: name -> MemoryInode
    vInode,     \* the MemoryInodes ever made: [addr, links]
    vFreed,     \* those that have been deleted
    vLive,      \* memory in use by files
    vHandle,    \* handle -> [path, fs, name, addr], or Closed
    vCount      \* allocations so far
vfsVars == <<vMounts, vDrivers, vFiles, vInode, vFreed, vLive, vHandle, vCount>>

Null == 0
Closed == [path |-> <<>>, fs |-> "none", name |-> <<>>, addr |-> Null]
Slash == <<"/">>
VDev == <<"/", "dev">>
VTmp == <<"/", "tmp">>
IsOpenHandle(h) == vHandle[h] # Closed

\* default_dev: /dev and /tmp exist before anything else, with one serial port.
VfsInit ==
    /\ vMounts = [m \in {VDev, VTmp} |-> IF m = VDev THEN "dev" ELSE "tmp"]
    /\ vDrivers = [d \in {"ttyS0"} |-> "serial_port"]
    /\ vFiles = <<>> /\ vInode = <<>> /\ vFreed = {} /\ vLive = {}
    /\ vHandle = [h \in VHandles |-> Closed]
    /\ vCount = 0

-----------------------------------------------------------------------------
(* Names                                                                   *)
SanitiseName(p) ==
    LET kept == {i \in DOMAIN p : i = 1 \/ p[i] # "/" \/ p[i - 1] # "/"}
        nth(k) == CHOOSE i \in kept : Cardinality({j \in kept : j <= i}) = k
    IN [k \in 1 .. Cardinality(kept) |-> p[nth(k)]]

\* string::compare(0, m.size(), m) = 0
Starts(p, m) == Len(m) <= Len(p) /\ SubSeq(p, 1, Len(m)) = m

\* The longest mount point that the path begins with, as characters.
BestMatch(p) ==
    CHOOSE m \in DOMAIN vMounts :
        Starts(p, m) /\ \A o \in DOMAIN vMounts : Starts(p, o) => Len(o) <= Len(m)
HasMatch(p) == \E m \in DOMAIN vMounts : Starts(p, m)
LookupFs(p) == IF HasMatch(p) THEN vMounts[BestMatch(p)] ELSE "none"
LookupName(p) ==
    LET rest == IF HasMatch(p) THEN SubSeq(p, Len(BestMatch(p)) + 1, Len(p)) ELSE p
    IN IF rest # <<>> /\ rest[1] = "/" THEN rest ELSE Slash \o rest

\* FileTable::is_open compares with the name given to open, mount point and all.
VIsOpen(name) == \E h \in VHandles : vHandle[h].path = name

\* A path reaches the file system mounted at the nearest directory above it.
Below(m, p) == Starts(p, m) /\ (m # Slash /\ Len(p) > Len(m) => p[Len(m) + 1] = "/")

-----------------------------------------------------------------------------
(* tmpfs                                                                   *)
Without(f, d) == [x \in DOMAIN f \ d |-> f[x]]
With(f, x, y) == [z \in DOMAIN f \cup {x} |-> IF z = x THEN y ELSE f[z]]
AddrOf(name) == vInode[vFiles[name]].addr
WithAddr(a) == {n \in DOMAIN vFiles : AddrOf(n) = a}
CanAllocate == vCount < MaxAlloc
Fresh == vCount + 1

NewInode(name, a) ==
    /\ vInode' = Append(vInode, [addr |-> a, links |-> 1])
    /\ vFiles' = With(vFiles, name, Len(vInode) + 1)

\* delete_file: a file that is open keeps its name and has no links.
TmpDelete(name, check) ==
    LET i == vFiles[name]
        links == IF vInode[i].links = 0 THEN 0 ELSE vInode[i].links - 1
    IN /\ vInode' = [vInode EXCEPT ![i].links = links]
       /\ IF links = 0 /\ (~check \/ ~VIsOpen(name))
          THEN /\ vLive' = vLive \ {vInode[i].addr}
               /\ vFreed' = vFreed \cup {i}
               /\ vFiles' = Without(vFiles, {name})
          ELSE UNCHANGED <<vLive, vFreed, vFiles>>

\* Mutant: the file keeps its old memory.
TmpReallocateKeeps(a, name, size) ==
    /\ vLive' = (vLive \ {a}) \cup (IF size = "none" THEN {} ELSE {Fresh})
    /\ vCount' = IF size = "none" THEN vCount ELSE Fresh
    /\ vInode' = vInode

\* reallocate_file on the file name, which was found by its address a.
TmpReallocate(a, name, size) ==
    LET new == IF size = "none" THEN Null ELSE Fresh
    IN /\ vLive' = (vLive \ {a}) \cup ({new} \ {Null})
       /\ vCount' = IF size = "none" THEN vCount ELSE Fresh
       /\ vInode' = [vInode EXCEPT ![vFiles[name]].addr = new]

-----------------------------------------------------------------------------
(* What careful callers do not do; each is let through by the code.        *)
VfsRules(p) == VCareful =>
    /\ LookupFs(p) # "none"
    /\ \A m \in DOMAIN vMounts : Starts(p, m) => Below(m, p)
OnlyUser(name) == VCareful => \A h \in VHandles : vHandle[h].name # name
NoOtherEmpty(name) == VCareful => WithAddr(Null) \subseteq {name}
Intact(name) == VCareful => vFiles[name] \notin vFreed
\* A file whose name in tmpfs is the whole path of an open one keeps that name
\* when it is renamed, and has two from then on.
SinglyNamed(name) == VCareful => ~VIsOpen(name)

-----------------------------------------------------------------------------
(* VirtualFileSystem                                                       *)
Opened(h, p, a) ==
    vHandle' = [vHandle EXCEPT ![h] =
                  [path |-> p, fs |-> LookupFs(p), name |-> LookupName(p), addr |-> a]]

FopenTmpExisting(h, p, mode) ==
    LET name == LookupName(p)
    IN /\ LookupFs(p) = "tmp"
       /\ name \in DOMAIN vFiles
       /\ OnlyUser(name) /\ Intact(name)
       /\ IF mode = "w" /\ AddrOf(name) # Null
          THEN /\ NoOtherEmpty(name)
               /\ TmpReallocate(AddrOf(name), name, "none")
               /\ Opened(h, p, Null)
          ELSE /\ Opened(h, p, AddrOf(name))
               /\ UNCHANGED <<vInode, vLive, vCount>>
       /\ UNCHANGED <<vFiles, vFreed>>

\* A new file gets new_file_size bytes, which "w" gives back at once.
FopenTmpCreate(h, p, mode) ==
    LET name == LookupName(p)
        size == IF mode = "w" THEN Null ELSE Fresh
    IN /\ LookupFs(p) = "tmp"
       /\ name \notin DOMAIN vFiles
       /\ mode \notin {"r", "r+"}
       /\ mode = "w" => NoOtherEmpty(name)
       /\ CanAllocate
       /\ NewInode(name, size)
       /\ vLive' = vLive \cup ({size} \ {Null})
       /\ vCount' = Fresh
       /\ Opened(h, p, size)
       /\ UNCHANGED vFreed

\* Devices: /dev strips the slashes; anything but disks and characters fails.
FopenDev(h, p) ==
    LET name == LookupName(p)
    IN /\ LookupFs(p) = "dev"
       /\ name[Len(name)] \in DOMAIN vDrivers
       /\ Len(name) = 2
       /\ vDrivers[name[2]] \in {"ata_disk", "serial_port", "console"}
       /\ Opened(h, p, Null)
       /\ UNCHANGED <<vFiles, vInode, vFreed, vLive, vCount>>

FopenRoot(h, p) ==
    /\ LookupFs(p) = "root"
    /\ Opened(h, p, Null)
    /\ UNCHANGED <<vFiles, vInode, vFreed, vLive, vCount>>

VfsFopen(h, p, mode) ==
    /\ ~IsOpenHandle(h)
    /\ VfsRules(SanitiseName(p))
    /\ LET q == SanitiseName(p)
       IN \/ FopenTmpExisting(h, q, mode) \/ FopenTmpCreate(h, q, mode)
          \/ FopenDev(h, q) \/ FopenRoot(h, q)
    /\ UNCHANGED <<vMounts, vDrivers>>

\* A write beyond the size the handle saw moves the file: the first file that
\* has the address of the handle, which is null for every empty file.
VfsWrite(h) ==
    /\ IsOpenHandle(h) /\ vHandle[h].fs = "tmp"
    /\ CanAllocate
    /\ \E name \in WithAddr(vHandle[h].addr) :
        /\ TmpReallocate(vHandle[h].addr, name, "some")
        /\ vHandle' = [vHandle EXCEPT ![h].addr = Fresh]
    /\ UNCHANGED <<vMounts, vDrivers, vFiles, vFreed>>

\* close deletes the file if it has lost its last link while it was open.
VfsClose(h) ==
    LET gone == {n \in WithAddr(vHandle[h].addr) :
                   vHandle[h].fs = "tmp" /\ vInode[vFiles[n]].links = 0}
    IN /\ IsOpenHandle(h)
       /\ vHandle' = [vHandle EXCEPT ![h] = Closed]
       /\ vFiles' = Without(vFiles, gone)
       /\ vFreed' = vFreed \cup {vFiles[n] : n \in gone}
       /\ vLive' = IF gone = {} THEN vLive ELSE vLive \ {vHandle[h].addr}
       /\ UNCHANGED <<vMounts, vDrivers, vInode, vCount>>

VfsUnlink(p) ==
    LET name == LookupName(SanitiseName(p))
    IN /\ LookupFs(SanitiseName(p)) = "tmp"
       /\ name \in DOMAIN vFiles
       /\ OnlyUser(name) /\ Intact(name)
       /\ TmpDelete(name, TRUE)
       /\ UNCHANGED <<vMounts, vDrivers, vHandle, vCount>>

\* A directory is an entry whose name ends in a slash; its parent must be one
\* too, and the test for an existing directory is made without the slash.
VfsMkdir(p) ==
    LET name == LookupName(SanitiseName(p))
        tmp == IF name[Len(name)] = "/" THEN name ELSE name \o Slash
        slashes == {i \in 1 .. Len(tmp) - 1 : tmp[i] = "/"}
        parent == SubSeq(tmp, 1, CHOOSE i \in slashes : \A j \in slashes : j <= i)
    IN /\ LookupFs(SanitiseName(p)) = "tmp"
       /\ slashes # {}
       /\ name \notin DOMAIN vFiles
       /\ parent \in DOMAIN vFiles
       /\ NoOtherEmpty(tmp)
       /\ CanAllocate
       /\ IF tmp \in DOMAIN vFiles THEN UNCHANGED <<vInode, vFiles>> ELSE NewInode(tmp, Null)
       /\ vCount' = Fresh
       /\ UNCHANGED <<vMounts, vDrivers, vFreed, vLive, vHandle>>

\* rename deletes the old mapping, and with it the inode that the new one uses.
VfsRename(p, q) ==
    LET f == LookupName(SanitiseName(p))
        i == vFiles[f]
        kept == VIsOpen(f)
        left == IF kept THEN vFiles ELSE Without(vFiles, {f})
    IN /\ LookupFs(SanitiseName(p)) = "tmp"
       /\ f \in DOMAIN vFiles
       /\ OnlyUser(f) /\ Intact(f) /\ SinglyNamed(f)
       /\ vFreed' = IF kept THEN vFreed ELSE vFreed \cup {i}
       /\ vInode' = [vInode EXCEPT ![i].links = IF kept /\ q \notin DOMAIN left THEN 1 ELSE 0]
       /\ vFiles' = IF q \in DOMAIN left THEN left ELSE With(left, q, i)
       /\ UNCHANGED <<vMounts, vDrivers, vLive, vHandle, vCount>>

\* mount compares the name with that of the mounted devices, which have /dev/
\* in front of it, so it does not notice that a device is mounted.
VfsMount(point, d) ==
    /\ d \in DOMAIN vDrivers /\ vDrivers[d] = "ata_disk" /\ d \in Disks
    /\ VCareful => point \notin DOMAIN vMounts
    /\ vMounts' = With(vMounts, SanitiseName(point), "root")
    /\ UNCHANGED <<vDrivers, vFiles, vInode, vFreed, vLive, vHandle, vCount>>

\* umount deletes the file system, with the memory of its files.
VfsUmount(point) ==
    /\ point \in DOMAIN vMounts
    /\ VCareful => \A h \in VHandles : vHandle[h].fs # vMounts[point]
    /\ vMounts' = Without(vMounts, {point})
    /\ IF vMounts[point] = "tmp"
       THEN /\ vFiles' = <<>>
            /\ vFreed' = DOMAIN vInode
            /\ vLive' = {}
       ELSE UNCHANGED <<vFiles, vFreed, vLive>>
    /\ UNCHANGED <<vDrivers, vInode, vHandle, vCount>>

\* default_tty and default_ide register their drivers.
AddTty ==
    /\ "tty" \notin DOMAIN vDrivers
    /\ vDrivers' = With(vDrivers, "tty", "console")
    /\ UNCHANGED <<vMounts, vFiles, vInode, vFreed, vLive, vHandle, vCount>>
AddIde ==
    /\ DOMAIN vDrivers \cap Disks # Disks
    /\ vDrivers' = [d \in DOMAIN vDrivers \cup Disks |-> IF d \in Disks THEN "ata_disk" ELSE vDrivers[d]]
    /\ UNCHANGED <<vMounts, vFiles, vInode, vFreed, vLive, vHandle, vCount>>

VfsNext ==
    \/ \E h \in VHandles, p \in VPaths, mode \in {"r", "w", "a"} : VfsFopen(h, p, mode)
    \/ \E h \in VHandles : VfsWrite(h) \/ VfsClose(h)
    \/ \E p \in VPaths : VfsUnlink(p) \/ VfsMkdir(p)
    \/ \E p, q \in VPaths : VfsRename(p, LookupName(q))
    \/ \E d \in Disks : VfsMount(Slash, d)
    \/ \E m \in {Slash, VTmp} : VfsUmount(m)
    \/ AddTty \/ AddIde
VfsSpec == VfsInit /\ [][VfsNext]_vfsVars

-----------------------------------------------------------------------------
\* The memory behind an open tmpfs FILE is in use and is that of the file the
\* FILE was opened on, and no two files share memory, whatever was created,
\* moved by a growing write, truncated, unlinked or renamed in between; and an
\* open FILE belongs to the file system that its path lies below.
HandlesSound == \A h \in VHandles : IsOpenHandle(h) =>
    LET f == vHandle[h]
        above == {m \in DOMAIN vMounts : Below(m, f.path)}
    IN /\ f.fs = "tmp" => /\ f.name \in DOMAIN vFiles
                          /\ AddrOf(f.name) = f.addr
                          /\ f.addr # Null => f.addr \in vLive /\ WithAddr(f.addr) = {f.name}
       /\ \E m \in above : /\ vMounts[m] = f.fs
                           /\ \A o \in above : Len(o) <= Len(m)
=============================================================================
