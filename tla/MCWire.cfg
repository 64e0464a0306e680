CONSTANTS
  Memories <- MCMemories
  Version <- MCVersion
  ChainChar <- MCChainChar
SPECIFICATION Spec
INVARIANTS
  TypeOK
  StaysInside
  BytesAreReadOnce
  OverReadIsTruncation
PROPERTY Advances
CHECK_DEADLOCK FALSE
