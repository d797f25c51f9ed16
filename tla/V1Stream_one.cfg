\* A primary and a failover URL; a closed connection, a silent venue or a lost broker twice.
CONSTANTS
  UrlCount = 2
  MaxReconnects = 3
  FlushEvery = 2
  QueueMax = 3
  MaxTrades = 4
  MaxChanges = 2
SPECIFICATION StreamSpec
INVARIANTS
  GivesUpOnEveryUrl
  ExposureIsBounded
  ExitLosesNothing
PROPERTIES
  TradesComeBack
  ShutdownEnds
CHECK_DEADLOCK FALSE
