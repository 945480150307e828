\* start, pause, stop and detail calls interleaving, two bdt sessions.
CONSTANTS
  st = st
  pa = pa
  sp = sp
  de = de
  Calls <- MCCalls
  Kind <- MCKind
  MaxSessions = 2
  MayRestart = TRUE
SPECIFICATION Spec
INVARIANTS
  StartOwnsNewSession
