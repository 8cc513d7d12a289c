SPECIFICATION Spec
CONSTANTS
  WordSize = 64
  PageSize = 8
  Ram <- MCRam
  Vector <- MCVector
  CallGate <- MCCallGate
  Code <- TrapCode
  WaitTicks = 2
  MoveTicks = 2
  Counts = {0}
  Commands = {"run"}
  Signals = {}
  InitState <- TrapInit
PROPERTY NoInterruptLost
CHECK_DEADLOCK FALSE
