CONSTANTS
  NULL = NULL
  Main = main
  Thread = {main, k1, p1, p2}
  Process = {p1, p2}
  threadReadyList = ready
  priority <- MCPriority
  WindowTicks = 1
SPECIFICATION FairSpec
INVARIANTS EntersOnOwnStack FlagOfCode InitialContext WaitBounded
PROPERTIES ImplementsScheduler ReadyRuns
CHECK_DEADLOCK FALSE
