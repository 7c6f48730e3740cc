SPECIFICATION FairSpec
CONSTANTS
  S = S
  A = A
  B = B
  s0 = s0
  a1 = a1
  a2 = a2
  b1 = b1
  a = a
  b = b
  NoAddr = NoAddr
  Nodes = {S, A, B}
  Conns = {a, b}
  Dialer <- MCDialer
  Target <- MCTarget
  Streams = {1}
  Addrs = {s0, a1, a2, b1}
  Port <- MCPort
  Given <- MCGiven
  Creates = {B}
  Stops = {B}
  Moves = {A}
  Restarts = {S}
  BindMayFail = TRUE
  MaxQueue = 1
  MaxDuplicates = 1
  MaxMoves = 1
  MaxRestarts = 1
INVARIANTS OrderlyEvents BetweenItsEnds
PROPERTIES AddressSettles
CHECK_DEADLOCK FALSE
