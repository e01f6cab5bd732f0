CONSTANTS
  Slots = 4
  Value = {v1, v2, v3}
SPECIFICATION Spec
INVARIANTS
  TypeOK
  FlagsConservative
PROPERTIES
  IsQueue
  IsFlaggedQueue
