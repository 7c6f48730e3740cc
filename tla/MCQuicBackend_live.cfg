SPECIFICATION FairSpec
CONSTANTS
  C = C
  S = S
  k = k
  NoLink = NoLink
  Nodes = {C, S}
  Links = {k}
  Dialer <- MCDialer
  Acceptor <- MCAcceptor
  Creates <- OneReliable
  Replies <- Server
  Stops = {C}
  MaxSends = 2
  MaxQueue = 1
  MaxBidi = 2
  Lossy = FALSE
  Breakable = TRUE
INVARIANTS ConnectedFirst UsableOnceCreated ReliableInOrder
PROPERTIES WrittenArrives CreatedAtBothEnds ShutdownEnds RefusedOnlyEarly ImplementsPipe
CHECK_DEADLOCK FALSE
