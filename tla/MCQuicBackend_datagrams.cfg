SPECIFICATION Spec
CONSTANTS
  C = C
  S = S
  k = k
  NoLink = NoLink
  Nodes = {C, S}
  Links = {k}
  Dialer <- MCDialer
  Acceptor <- MCAcceptor
  Creates <- Mixed
  Replies <- Server
  Stops = {}
  MaxSends = 1
  MaxQueue = 1
  MaxBidi = 2
  Lossy = TRUE
  Breakable = TRUE
INVARIANT AnnouncedOnce
CHECK_DEADLOCK FALSE
