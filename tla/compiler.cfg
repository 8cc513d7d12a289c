SPECIFICATION Spec
CONSTANTS
  Number <- MCNumber
  Literal <- MCLiteral
  Mark <- MCMark
  Sources <- MCSources
  Top = 40
INVARIANTS ParsesBack  PrintsMeaning LabelsDefinedOnce
PROPERTIES  ReturnsToCaller Stops
CHECK_DEADLOCK FALSE
