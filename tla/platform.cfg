SPECIFICATION MCSpec
CONSTANTS
  KeysUsed = {"a", "k1", "enter", "lshift", "lctrl", "capslock", "numlock", "uarrow", "prtscrn", "pause"}
  Width = 2
  Height = 2
  MaxEvents = 5
  ReadCounts = {0, 1}
  Printed = {"x", "nl"}
  KCareful = TRUE
  Starts = {0, 1, 4, 5, 8}
  MemSizes = {2, 4, 6}
  LPage = 4
  LWord = 2
  LFrames = 3
  MaxSegs = 2
  Objects = {o1, o2}
  MaxBufs = 7
  MaxCalls = 5
  LCareful = TRUE
  XProcs = {p1, p2}
  Lsdas <- MCLsdas
  CallIps = {5, 8}
  MaxDepth = 3
  MaxCallsX = 3
  MaxThrows = 3
  XCareful = TRUE
SYMMETRY MCSymmetry
INVARIANTS   ImageWhole TablesOwned HandlersInnermost ExceptionsOwned
CHECK_DEADLOCK FALSE
