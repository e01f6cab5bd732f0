CONSTANTS
  RamBytes = 16
  LineBytes = 8
  ByteBase = 4
  WordBits = 8
  CacheLines = 2
  Regs = {0, 1}
  ResetLines <- MCResetLines
  Decode <- MCDecode
  Programs <- MCPrograms
  InitialRegs <- MCInitialRegs
SPECIFICATION PauseSpec
PROPERTIES
  PauseFreezes
