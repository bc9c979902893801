CONSTANTS
  NULL = NULL
  KThread = {k1}
  Process = {p1}
  Together = {{k1, p1}}
  Kernel = kernel
  ByteBits = 2
  KernelBytes = 2
  UserBytes = 2
  UserVaddrBytes = 1
  RegionPages = 4
  MaxPgCnt = 2
  MaxPages = 1
SPECIFICATION Spec
INVARIANT FrameOnce
CHECK_DEADLOCK FALSE
