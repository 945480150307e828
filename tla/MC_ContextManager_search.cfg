\* search_context of /a/b when no context exists.
CONSTANTS
  g1 = g1
  p1 = p1
  v1 = v1
  v2 = v2
  a = a
  b = b
  None = None
  Getters <- MCGetters
  Putters <- MCPutters
  Versions <- MCVersions
  SearchPath <- MCSearchPath
  NocMayFail = FALSE
SPECIFICATION Spec
PROPERTY SearchTerminates
