CONSTANTS
  NULL = NULL
  ByteBits = 3
  VaddrBytes = 1
  PoolPages = 3
  MaxPgCnt = 4
  PageBytes = 8
  ArenaSize = 2
  MinBlock = 2
  DESC_CNT = 2
  Size = {2, 3, 6, 7, 15, 23}
SPECIFICATION HeapSpec
INVARIANTS FreeListsRight ArenasRight
PROPERTY ImplementsAllocator
CHECK_DEADLOCK FALSE
