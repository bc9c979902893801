CONSTANTS
  NULL = NULL
  Main = main
  Thread = {main, p1}
  Consumer = {p1}
  Process = {p1}
  threadReadyList = ready
  ioqLock = ioq
  condNotEmpty = notEmpty
  condNotFull = notFull
  Lock = {ioq}
  Condition = {notEmpty, notFull}
  WaitList = {ioq, notEmpty, notFull}
  Level = {"task", "irq"}
  Char = {a, b}
  BUFSIZE = 3
  Outstanding = 4
SPECIFICATION Spec
INVARIANT SomebodyReady
CHECK_DEADLOCK FALSE
