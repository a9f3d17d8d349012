SPECIFICATION MCSpec
CONSTANTS
  Kinds = {"block", "ext2", "memory"}
  S = 3
  Size = 6
  Bytes = {"x"}
  Lens = {1, 2, 4}
  EndOffsets = {0}
  Careful = TRUE
  VPaths <- MCPaths
  VHandles = {h1, h2}
  Disks = {"sda1"}
  MaxAlloc = 3
  VCareful = TRUE
  DProcs = {p1}
  DHardware <- MCHardware
  DTables <- MCTables
  DSize = 18
  DSectors = {1, 2, 16}
  W = 2
  HeadsLba = 2
  Spt = 3
  Hpc = 2
  Beyond = {"master", "unknown"}
  DPreempt = FALSE
  MaxWrites = 1
SYMMETRY HandleSymmetry
INVARIANTS  FlushedMatch  DiskFaithful
CHECK_DEADLOCK FALSE
