CONSTANTS
  p = p
  q = q
  bad = bad
  a = a
  b = b
  NoPath = NoPath
  Path <- MCPath
  ValidPath <- MCValidPath
  Byte <- MCByte
  Capacity = 2
  MaxChunk = 1
  MaxFaults = 1
  FaultAt = {"fill", "reply", "sign"}
  Verdict <- MCVerdict
SPECIFICATION Spec
PROPERTIES
  SignsUnderSessionPath
