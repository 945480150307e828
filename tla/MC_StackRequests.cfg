\* NDN HTTP and front requests through the NDN ACL; app names rewritten and removed.
CONSTANTS
  d1 = d1
  d2 = d2
  n1 = n1
  dA = dA
  dB = dB
  None = None
  Decs = {d1, d2}
  AppNames = {n1}
  Dirs = {dA, dB}
  v1 = v1
  Versions = {v1}
  NameMayChange = TRUE
  NonInnerChunk = FALSE
SPECIFICATION Spec
INVARIANTS
  ForwardedAsAsked
  OutsideZoneVouched
  
PROPERTIES
  AppServesInstalledDir
