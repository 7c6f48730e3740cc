SPECIFICATION Spec
CONSTANTS
  NoConn = NoConn
  Half = 1000
  Margin = 50
  c1 = c1
  c2 = c2
  Clients = {c1, c2}
  StreamExists = FALSE
  WireBound = 2
  Positions <- Places
INVARIANTS SubscribedWhereOnRecord
