SPECIFICATION Spec
CONSTANTS
  Orchestrator = Orchestrator
  Nobody = Nobody
  p1 = p1
  p2 = p2
  Players = {p1}
  DirectPlayers = {p1}
  MaxServers = 4
  HotServersMin = 2
  ExpireSlots = 3
  PeriodSlots = 2
  max_players = 4
  SlowBoot = FALSE
  ReportsDisconnect = TRUE
  Budget <- RestartAndError
INVARIANTS RegisteredKnowsOrchestrator RefusedForGoodReason LeaversRemoved
