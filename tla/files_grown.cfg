SPECIFICATION Spec
CONSTANTS
  BlockSize = 4
  Disc = {"a"}
  NoDisc = "none"
  First = "a"
  Fd = {3}
  Discs <- MCDiscs
  Data = {x}
  Zero = zero
  Blocks = {0, 7, 8}
  MaxFiles = 1
  MaxWipes = 0
  MaxWiped = 40
INVARIANT FilesReadBack
CHECK_DEADLOCK FALSE
