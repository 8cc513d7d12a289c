SPECIFICATION Spec
CONSTANTS
  BlockSize = 4
  Disc = {"a", "b"}
  NoDisc = "none"
  First = "a"
  Fd = {3, 4}
  Discs <- MCDiscs
  Data = {x}
  Zero = zero
  Blocks = {0, 7, 8, 56}
  MaxFiles = 2
  MaxWipes = 1
  MaxWiped = 40
INVARIANTS Listed  UsableIsRight SmallFilesReadBack
 
