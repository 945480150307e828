\* Registry races, the receive loop and speed aggregation of both directions.
CONSTANTS
  p1 = p1
  p2 = p2
  cr1 = cr1
  cr2 = cr2
  Peers <- MCPeers
  Creators <- MCCreators
  MaxSpeed = 1
  MaxIds = 3
SPECIFICATION Spec
INVARIANT TypeOK
PROPERTIES
  ChannelNeverReplaced
  HistoryDecaysWithoutSessions
