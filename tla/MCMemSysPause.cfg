CONSTANTS
  RamBytes = 16
  LineBytes = 8
  ByteBase = 4
  CacheLines = 1
  Regs = {0, 1}
  ResetLines <- MCResetLines
  Decode <- MCDecode
  FetchAddrs = {0, 4}
  Accesses <- MCAccesses
  Program <- MCProgram
SPECIFICATION PauseSpec
PROPERTIES
  PausedLoadReturnsMemory
