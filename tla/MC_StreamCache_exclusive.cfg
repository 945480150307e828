\* Two calls carrying the same piece both pass try_push and both write it.
CONSTANTS
  s1 = s1
  s2 = s2
  c1 = c1
  c2 = c2
  c3 = c3
  Pieces = 3
  Sessions <- MCSessions
  Callers <- MCCallers
  SessionOf <- MCSessionOf
  WinStart <- MCWinStart
  WinEnd <- MCWinEnd
  WriteMayFail = FALSE
  MaxWrites = 2
SPECIFICATION Spec
INVARIANT
  ExclusiveWrite
