CONSTANTS
  RamBytes = 64
  LineBytes = 16
  ByteBase = 4
  WordBits = 8
  CacheLines = 2
  Regs = {0, 1, 2, 3}
  ResetLines <- MCResetLines
  Decode <- MCDecode
  Programs <- MCPrograms
  InitialRegs <- MCInitialRegs
SPECIFICATION Spec
INVARIANTS
  TypeOK
  LoadUseBubble
  BranchAlone
PROPERTIES
  ImplementsIsa
  KeepsExecuting
