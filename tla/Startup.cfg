CONSTANTS
  NoPage = NoPage
  ByteBits = 8
  Capacity <- MCCapacity
  MaxKernelBits = 64
  MaxFree = 4
  MaxPages = 3
SPECIFICATION Spec
INVARIANTS PoolsInMemory SmallMemoryManaged TasksApart MissingPagesNoticed StaleIsRecent
CHECK_DEADLOCK FALSE
