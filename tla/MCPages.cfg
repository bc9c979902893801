CONSTANTS
  NULL = NULL
  KThread = {k1, k2}
  Process = {p1, p2}
  Together = {{k1, k2}, {p1, p2}}
  Kernel = kernel
  ByteBits = 2
  KernelBytes = 2
  UserBytes = 2
  UserVaddrBytes = 2
  RegionPages = 2
  MaxPgCnt = 3
  MaxPages = 3
SPECIFICATION Spec
INVARIANTS FrameOnce FramesAccounted LiveMapped NoPanic FirstFit
SYMMETRY Symmetry
CHECK_DEADLOCK FALSE
