CONSTANTS
  NULL = NULL
  Main = main
  Thread = {main, k1, k2, p1}
  Process = {p1}
  threadReadyList = ready
  consoleLock = console
  Lock = {console}
  WaitList = {console}
  Level = {"task"}
  StrLen = 2
SPECIFICATION Spec
INVARIANT NeverQueuedTwice
CHECK_DEADLOCK FALSE
