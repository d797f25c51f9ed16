CONSTANTS
  kraken = kraken
  coinbase = coinbase
  Venues <- TwoVenues
  Timeframes <- OneFrame
  Ids = {1, 2, 3}
  BucketOf <- Minutes
  Lookback = 1
  MaxResend = 1
  MaxEvents = 4
SPECIFICATION Spec
INVARIANTS
  OneRowPerTrade
  GapsAreExact
  AuditsSeeTheCuts
  DerivedFollowTrades
