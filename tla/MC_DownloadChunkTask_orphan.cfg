\* start after pause: the paused bdt download is left without an owner.
CONSTANTS
  st = st
  pa = pa
  sp = sp
  de = de
  Calls <- MCCalls
  Kind <- MCKind
  MaxSessions = 2
  MayRestart = FALSE
SPECIFICATION Spec
INVARIANT NoOrphanSession
