SPECIFICATION FairSpec
CONSTANTS
  Clients = {"A", "B"}
  Topics = {"t1"}
  Conns = {"a1", "a2"}
  Speaks <- MCSpeaks
  NoClient = NoClient
  NoConn = NoConn
  ReportsDisconnect = FALSE
  QueueBound = 8
PROPERTY SessionFollowsClient
CHECK_DEADLOCK FALSE
