SPECIFICATION Spec
CONSTANTS
  opcodes <- MCOpcodes
  Binaries <- MCBinaries
  Files <- MCFiles
  Says <- MCSays
  CompiledNames <- MCCompiledNames
  HeapWords = 24
  Faulty = {"zero", "wild"}
  Positions = {0, 60}
  Input = {7, 42}
  numChunks = 10
  sizeChunks = 64
  Junk = {9}
  MaxCommands = 4
  MaxStep = 2
  MaxOut = 6
INVARIANT RunsAsWritten
PROPERTIES OnlyOwnWords RunEnds
CHECK_DEADLOCK FALSE
