CONSTANTS
  p = p
  q = q
  bad = bad
  a = a
  b = b
  NoPath = NoPath
  Path <- MCPath
  ValidPath <- MCValidPath
  Byte <- MCByte
  Capacity = 3
  MaxChunk = 2
  MaxFaults = 1
  FaultAt = {"fill", "reply", "sign"}
  Verdict <- MCVerdict
SPECIFICATION Spec
INVARIANTS
  TypeOK
  ReviewIsOfTheSession
  ScreenHasItsCommand
PROPERTIES
  AnswersTheCommand
  SignaturesAreOfTheReview
