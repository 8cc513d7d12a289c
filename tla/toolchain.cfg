SPECIFICATION FairSpec
CONSTANTS
  Name = {"main", "f", "g", "m", "l", "k"}
  NoName = "-"
  Half = 64
  File = {"m", "l", "k"}
  Sources <- MCSources
  Orders <- MCOrders
INVARIANTS Executable Threaded PassesAgree
PROPERTY Terminates
CHECK_DEADLOCK FALSE
