SPECIFICATION FairSpec
CONSTANTS
  Second = 1
  Interval <- MCInterval
  Warmup = 0
  Duration = 2
  Datagrams = {"unreliable"}
  Faults = TRUE
  MaxCopies = 1
  MaxNow = 3
  Never = Never
INVARIANTS TypeOK EveryPacketAccountedFor LossNotOverstated InOrderLossExact PercentilesHaveTheirRank
PROPERTIES StopsWithItsStreams
CHECK_DEADLOCK FALSE
