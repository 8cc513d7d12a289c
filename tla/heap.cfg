SPECIFICATION Spec
CONSTANTS
  Top = 96
  HeapBase = 56
  HeapMax = 92
  Proc = {p}
  RegionSizes = {28}
  Sizes = {4, 8, 12}
  Data = {0, 1}
INVARIANTS Freeable Apart 
PROPERTY Private
CHECK_DEADLOCK FALSE
