\* Overlapping sessions: a session whose window others complete is never told finished.
CONSTANTS
  s1 = s1
  s2 = s2
  c1 = c1
  c2 = c2
  c3 = c3
  Pieces = 3
  Sessions <- MCSessions
  Callers <- MCCallers
  SessionOf <- MCSessionOf
  WinStart <- MCWinStart
  WinEnd <- MCWinEnd
  WriteMayFail = FALSE
  MaxWrites = 2
SPECIFICATION Spec
PROPERTIES
  SessionToldFinished
