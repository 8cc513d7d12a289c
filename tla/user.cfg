SPECIFICATION Spec
CONSTANTS
  WordSize = 64
  PageSize = 8
  Ram <- MCRam
  Vector <- MCVector
  CallGate <- MCCallGate
  Code <- UserCode
  WaitTicks = 2
  MoveTicks = 2
  Counts = {0, 2}
  Commands <- AllCommands
  Signals = {"SIGIO"}
  InitState <- UserInit
PROPERTIES UserUndisturbed 
CHECK_DEADLOCK FALSE
