CONSTANTS
  RamBytes = 32
  LineBytes = 8
  ByteBase = 4
  CacheLines = 2
  Regs = {0, 1}
  ResetLines <- MCResetLines
  Decode <- MCDecode
  FetchAddrs <- MCFetchAddrs
  Accesses <- MCAccesses
  Program <- MCProgram
SPECIFICATION Spec
INVARIANTS
  TypeOK
  Handshake
  CacheCoherent
  FetchedFromRam
PROPERTIES
  LoadReturnsMemory
  StoreLands
  OnlyStoresWrite
  StallsEnd
