SPECIFICATION FairSpec
CONSTANTS
  C = C
  S = S
  k = k
  NoLink = NoLink
  Nodes = {C, S}
  Links = {k}
  Dialer <- MCDialer
  Acceptor <- MCAcceptor
  Streams = {1}
  Creates = {C}
  Stops = {C}
  Breakable = TRUE
  Channel = 1
  Registrations = 1
  Buffer = 1
  MaxQueue = 1
  MaxSends <- MCSends
INVARIANTS TypeOK OrderlyEvents DialerNeverIgnored
PROPERTIES ImplementsPipe ShutdownEndsUnlessJammed ArrivesUnlessJammed LossReported
CHECK_DEADLOCK FALSE
