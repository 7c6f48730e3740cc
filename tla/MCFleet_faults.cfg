SPECIFICATION FairSpec
CONSTANTS
  Orchestrator = Orchestrator
  Nobody = Nobody
  p1 = p1
  p2 = p2
  Players = {}
  DirectPlayers = {}
  MaxServers = 4
  HotServersMin = 2
  ExpireSlots = 3
  PeriodSlots = 2
  max_players = 4
  SlowBoot = FALSE
  ReportsDisconnect = FALSE
  Budget <- FewFaults
PROPERTY EnoughServers
