SPECIFICATION Spec
CONSTANTS
  RamBytes = 50
  LineBytes = 4
  ByteBase = 14
  Base = 5
  RxSlots = 8
  TxSlots = 8
  InSlots = 8
  JunkBytes = 8
  RamBlock = 3
  InputBlock = 2
  Space = 9
  DebugBytes = 2
  MaxSessions = 2
  MaxDebugs = 1
  Ahead = 0
  DbgReg <- MCDbgReg
  Greeting <- MCGreeting
  Commands <- MCCommands
  Program <- MCProgram
CHECK_DEADLOCK FALSE
INVARIANTS
  TypeOK
  HeardWasSaid
PROPERTIES
  StartedRight
  SessionEnds
