CONSTANTS
  NULL = NULL
  Main = main
  Thread = {main, p1, p2}
  Consumer = {p1, p2}
  Process = {p1, p2}
  threadReadyList = ready
  ioqLock = ioq
  condNotEmpty = notEmpty
  condNotFull = notFull
  Lock = {ioq}
  Condition = {notEmpty, notFull}
  WaitList = {ioq, notEmpty, notFull}
  Level = {"task", "irq"}
  Char = {a, b}
  BUFSIZE = 3
  Outstanding = 3
SPECIFICATION FairSpec
INVARIANTS LockExclusion NoMissedSignal SomebodyReady
PROPERTIES ImplementsFifo EveryKeyRead
