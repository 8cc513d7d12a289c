SPECIFICATION FairSpec
CONSTANTS
  WordSize = 64
  PageSize = 8
  Ram <- MCRam
  Vector <- MCVector
  CallGate <- MCCallGate
  Code <- ControlCode
  WaitTicks = 2
  MoveTicks = 2
  Counts = {0, 2}
  Commands <- AllCommands
  Signals = {"SIGIO", "SIGINT"}
  InitState <- UserInit
PROPERTIES UserUndisturbed TimerDelivered
CHECK_DEADLOCK FALSE
