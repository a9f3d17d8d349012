SPECIFICATION Spec
CONSTANTS
  NGroups = 1
  BPG = 7
  IPG = 5
  Off = 1
  Meta = 1
  FirstInode = 2
  CountMod = 16
  Direct = 1
  APB = 2
  Names = {"a", "b"}
  Handles = {1, 2}
  MaxFile = 4
  MaxPerName = 1
  Misuse = FALSE
  MaxOps = 8
INVARIANTS BlocksOnce ReferencedAllocated CountsExact NamedLive DiskCurrent
CHECK_DEADLOCK FALSE
