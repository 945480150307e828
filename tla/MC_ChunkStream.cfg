\* Decoders and an encoder over one cache; writes and reads may fail.
CONSTANTS
  s1 = s1
  s2 = s2
  c1 = c1
  c3 = c3
  None = None
  Pieces = 3
  Sessions <- MCSessions
  Callers <- MCCallers
  SessionOf <- MCSessionOf
  WinStart <- MCWinStart
  WinEnd <- MCWinEnd
  WriteMayFail = TRUE
  MaxWrites = 1
  ReadMayFail = TRUE
  MaxResets = 1
SPECIFICATION Spec
INVARIANTS
  TypeOK
  SentWasWritten
PROPERTIES
  SenderSpec
  DeliveredUnlessStorageFails
