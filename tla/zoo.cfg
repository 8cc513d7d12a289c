SPECIFICATION Spec
CONSTANTS
  WordSize = 64
  PageSize = 8
  Ram <- MCRam
  Vector <- MCVector
  CallGate <- MCCallGate
  Code <- ZooCode
  WaitTicks = 2
  MoveTicks = 2
  Counts = {0}
  Commands = {"run", "step"}
  Signals = {"SIGIO"}
  InitState <- ZooInit
INVARIANT TypeOK
PROPERTIES UserConfined PagesProtected TimerNotLost KeyboardMasked
CHECK_DEADLOCK FALSE
