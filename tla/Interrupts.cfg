CONSTANTS
  Cpu = cpu_thread
  Async = {monitor}
  Timer = 0
  Keyboard = 1
  Audio = 2
  Ide = 14
SPECIFICATION FairSpec
INVARIANTS QueryFindsVector  HaltedCanWake AckTakesQueried
PROPERTIES DiskRequestKept HaltEnds RequestServed ImplementsMailbox
CHECK_DEADLOCK TRUE
