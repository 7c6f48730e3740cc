SPECIFICATION FairSpec
CONSTANTS
  Clients = {"A", "B"}
  Topics = {"t1"}
  Conns = {"a1", "a2", "b1", "shard", "spatial"}
  Speaks <- MCSpeaks
  NoClient = NoClient
  NoConn = NoConn
  ReportsDisconnect = TRUE
  QueueBound = 2
INVARIANTS TypeOK MapsInverse NothingLeftBehind
PROPERTIES ImplementsPubSub SessionFollowsClient
CHECK_DEADLOCK FALSE
