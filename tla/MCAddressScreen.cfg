CONSTANTS
  p = p
  q = q
  a = a
  NoPath = NoPath
  Path <- MCPath
  ValidPath <- MCPath
  Byte <- MCByte
  Capacity = 0
  MaxChunk = 1
  MaxFaults = 1
  FaultAt = {"fill", "sign"}
  Verdict <- MCVerdict
SPECIFICATION FairScreenSpec
INVARIANTS
  NobodyWaitsInVain
  ScreenTypeOK
  AddressIsTheHosts
PROPERTIES
  EveryCommandAnswered
  ConfirmedWasRead
