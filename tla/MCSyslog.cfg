CONSTANTS
  Connections <- MCConnections
  Peer <- MCPeer
  Mapped <- MCMapped
  Scripts <- MCScripts
  Datagrams <- MCDatagrams
  Lists <- MCLists
  max_connections = 1
  MaxFaults = 1
SPECIFICATION Spec
PROPERTIES EveryConnectionEnds NothingAbandoned
CHECK_DEADLOCK FALSE
