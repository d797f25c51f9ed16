\* One partition, deep: repeated evictions, kills, compaction and expiry; the schedule is fair.
CONSTANTS
  p1 = p1
  cron = cron
  byHand = byHand
  nightlyJob = nightlyJob
  nobody = nobody
  Partition = {p1}
  Runs = {cron, byHand}
  Cron = cron
  Maintenance = nightlyJob
  NoOne = nobody
  Maxima = {0, 1}
  DefaultMax = 2
  Instants = {1}
  RetainLast = 2
  RetainDays = 0
  MaxOffset = 3
  MaxDay = 1
  MaxSnapshots = 3
  MaxCompact = 1
  MaxFaults = 1
SPECIFICATION FairSpec
INVARIANTS
  ExactlyOnce
  NoSurvivorPassed
  RecordedLossIsReal
  AuditStaysQuiet
PROPERTIES
  ScheduledRunsNeverSkip
  ImplementsArchive
  Drains
