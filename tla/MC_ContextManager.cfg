\* Racing get/put with noc failures and evictions.
CONSTANTS
  g1 = g1
  p1 = p1
  v1 = v1
  v2 = v2
  a = a
  b = b
  None = None
  Getters <- MCGetters
  Putters <- MCPutters
  Versions <- MCVersions
  SearchPath <- MCSearchPath
  NocMayFail = TRUE
SPECIFICATION Spec
INVARIANT CachedWasPersisted
