SPECIFICATION Spec
CONSTANTS
  Char = {a, nl}
  NEWLINE = nl
  NUL = nul
  kbb_size = 4
  MaxLines = 3
INVARIANTS InBounds ReadyFollowsBuffer
PROPERTY LossyFifo
