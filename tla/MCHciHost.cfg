SPECIFICATION Spec
CONSTANTS
  RamBytes = 18
  LineBytes = 4
  ByteBase = 12
  Base = 3
  RxSlots = 3
  TxSlots = 4
  InSlots = 3
  Gap = 2
  DbgReg <- MCDbgReg
  HostPackets <- MCPackets
  CpuIo <- MCCpuIo
  CpuAddrs <- MCCpuAddrs
INVARIANTS
  TypeOK
  Uploaded
PROPERTIES
  HostHears
  PacketsServed
