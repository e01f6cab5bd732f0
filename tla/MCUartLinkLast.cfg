SPECIFICATION Spec
CONSTANTS
  DataBits = 2
  Oversample = 8
  StopBits = 1
  CounterSize = 8
  ParityMode = 1
  TxSlots = 3
  Sent <- MCSent
  ClksPerTick = 2
  MaxSkew = 0
PROPERTY
  EveryValueSent
