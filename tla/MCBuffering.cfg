CONSTANTS
  RamSize = 2
  FlashSize = 5
  MaxChunk = 3
  Byte = {a, b}
SPECIFICATION Spec
INVARIANTS
  TypeOK
  MessageInOneTier
PROPERTY Refinement
