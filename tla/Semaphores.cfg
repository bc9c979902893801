CONSTANTS
  NULL = NULL
  Main = main
  Thread = {main, k1, p1, p2}
  Process = {p1, p2}
  threadReadyList = ready
  semLock = sem
  semCond = cond
  Lock = {sem}
  Condition = {cond}
  WaitList = {sem, cond}
  Level = {"task"}
  Initial = 1
  MaxValue = 2
SPECIFICATION Spec
INVARIANTS NoLostWakeup ListsConsistent NoUnitForgotten
PROPERTIES ImplementsQueues ImplementsSemaphore
CHECK_DEADLOCK FALSE
