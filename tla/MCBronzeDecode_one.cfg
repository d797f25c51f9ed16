\* Kills and failed writes, unserved schema ids, an HTTP error, a rebuild and expiry; the schedule is fair.
CONSTANTS
  known = known
  other = other
  Venue = {1, 2}
  TableCount <- TwoThenOne
  SchemaIds = {known, other}
  Registered = {known}
  Batches <- BothFrames
  RetainLast = 1
  RetainDays = 0
  MaxSnapshots = 2
  MaxDay = 1
  MaxRebuilds = 1
  MaxFaults = 2
  MaxHttpErrors = 1
SPECIFICATION FairSpec
INVARIANTS
  DecodedOnce
  KillsLoseNothing
  LossIsFiled
PROPERTIES
  CatchesUp
